-------------------------------- MODULE Bridge --------------------------------
(***************************************************************************)
(* Team runs (internal/team/bridge.go, internal/runworker): bridges on     *)
(* enrolled laptops claim the jobs people queue in the Team app, plan      *)
(* them, post the plan, wait for an approval in the app and apply.  The    *)
(* control plane and the people are the environment: a post may be refused *)
(* or get lost, an answer too, leases expire, a bridge may be stopped      *)
(* between any two steps.                                                  *)
(***************************************************************************)
EXTENDS Naturals

CONSTANTS
    Bridges, Jobs,
    Mode,           \* job -> its approve_mode
    TwoApprovals,   \* jobs that need a second approval
    MaxLost, MaxKills, MaxClaims,   \* bounds
    None

Modes == {"plan_only", "require_approve", "auto_if_policy_allows"}
ASSUME ModeAssumption == Mode \in [Jobs -> Modes]
ASSUME NoneAssumption == None \notin Bridges \cup Jobs

VARIABLES
    status,     \* plane: RunJob.Status
    lease,      \* plane: the worker that holds the job's lease, or None
    bridge,     \* bridge -> where it is in Listen, its job, the result it will post
    lost,       \* calls that failed so far
    kills,      \* bridges stopped so far
    claims,     \* job -> claims so far
    granted,    \* history: bridges that waited when their job was approved, and have not applied
    late,       \* history: bridges whose lease expired while they had the job
    applies     \* history: job -> applies so far

plane == <<status, lease>>
bounds == <<lost, kills, claims>>
history == <<granted, late, applies>>
vars == <<plane, bridge, bounds, history>>

Settled  == {"succeeded", "failed", "denied", "cancelled"}
Awaiting == {"awaiting_approve", "awaiting_second_approve"}
Statuses == {"queued", "claimed", "running", "approved"} \cup Awaiting \cup Settled

Polling == [at |-> "poll", job |-> None, result |-> None]
Stopped == [Polling EXCEPT !.at = "stopped"]

Init ==
    /\ status = [j \in Jobs |-> "queued"]
    /\ lease = [j \in Jobs |-> None]
    /\ bridge = [b \in Bridges |-> Polling]
    /\ lost = 0 /\ kills = 0 /\ claims = [j \in Jobs |-> 0]
    /\ granted = {} /\ late = {} /\ applies = [j \in Jobs |-> 0]

(***************************************************************************)
(* Calls of the control plane.                                             *)
(***************************************************************************)
At(b, at) == bridge[b].at = at
Goes(b, at) == bridge' = [bridge EXCEPT ![b].at = at]
JobOf(b) == bridge[b].job

Loses == lost < MaxLost /\ lost' = lost + 1

\* A post that arrives: what it says becomes the status.  A settled job takes none.
Arrives(b, s) ==
    /\ status[JobOf(b)] \notin Settled
    /\ status' = [status EXCEPT ![JobOf(b)] = s]
    /\ lease' = IF s \in Settled THEN [lease EXCEPT ![JobOf(b)] = None] ELSE lease

\* The outcomes of PostRunResult: well, refused or lost on the way, or the answer lost.
PostOk(b, s)  == Arrives(b, s) /\ UNCHANGED lost
PostErr(b, s) ==
    \/ status[JobOf(b)] \in Settled /\ UNCHANGED <<plane, lost>>
    \/ Loses /\ (UNCHANGED plane \/ Arrives(b, s))

(***************************************************************************)
(* Listen.                                                                 *)
(***************************************************************************)
Claimable(j) == \/ status[j] = "queued"
                \/ status[j] \notin Settled /\ lease[j] = None

\* "claims the next queued (or expired-lease) job"; its answer may get lost.
Claim(b, j) ==
    /\ At(b, "poll")
    /\ Claimable(j)
    /\ claims[j] < MaxClaims
    /\ claims' = [claims EXCEPT ![j] = @ + 1]
    /\ status' = [status EXCEPT ![j] = "claimed"]
    /\ lease' = [lease EXCEPT ![j] = b]
    /\ \/ /\ bridge' = [bridge EXCEPT ![b] = [Polling EXCEPT !.at = "plan", !.job = j]]
          /\ granted' = granted \ {b} /\ late' = late \ {b}
          /\ UNCHANGED lost
       \/ Loses /\ UNCHANGED <<bridge, granted, late>>
    /\ UNCHANGED <<kills, applies>>

\* The first post is not checked.
Running(b) ==
    /\ At(b, "plan")
    /\ PostOk(b, "running") \/ PostErr(b, "running")
    /\ Goes(b, "planning")
    /\ UNCHANGED <<kills, claims, history>>

planned_AnyMode(j, requiresApproval) == IF requiresApproval THEN "awaiting_approve" ELSE "succeeded"

\* execute without consent: what a plan that is not denied is posted as.
planned(j, requiresApproval) ==
    IF requiresApproval /\ Mode[j] \in {"require_approve", "auto_if_policy_allows"}
    THEN "awaiting_approve" ELSE "succeeded"

Execute(b) ==
    /\ At(b, "planning")
    /\ \E r \in {"failed", "denied"} \cup {planned(JobOf(b), requires) : requires \in BOOLEAN} :
            bridge' = [bridge EXCEPT ![b].at = "post", ![b].result = r]
    /\ UNCHANGED <<plane, bounds, history>>

PostPlan(b) ==
    /\ At(b, "post")
    /\ LET r == bridge[b].result
       IN  \/ /\ PostOk(b, r)
              /\ IF r = "awaiting_approve" THEN Goes(b, "wait")
                 ELSE bridge' = [bridge EXCEPT ![b] = Polling]
           \/ PostErr(b, r) /\ bridge' = [bridge EXCEPT ![b] = Polling]
    /\ UNCHANGED <<kills, claims, history>>

Decision_AllButDenied(b) ==
    /\ At(b, "wait")
    /\ status[JobOf(b)] \notin Awaiting
    /\ IF status[JobOf(b)] # "denied" THEN Goes(b, "approved")
       ELSE bridge' = [bridge EXCEPT ![b] = Polling]
    /\ UNCHANGED <<plane, bounds, history>>

\* waitForDecision: a status that is neither awaiting nor approved ends it.
Decision(b) ==
    /\ At(b, "wait")
    /\ status[JobOf(b)] \notin Awaiting
    /\ IF status[JobOf(b)] = "approved" THEN Goes(b, "approved")
       ELSE bridge' = [bridge EXCEPT ![b] = Polling]
    /\ UNCHANGED <<plane, bounds, history>>

ApproveWaitEnds_OnDecision(b) == Decision(b)

ApproveWaitEnds(b) ==
    /\ At(b, "wait")
    /\ bridge' = [bridge EXCEPT ![b] = Polling]
    /\ UNCHANGED <<plane, bounds, history>>

Applying(b) ==
    /\ At(b, "approved")
    /\ PostOk(b, "running") \/ PostErr(b, "running")
    /\ Goes(b, "applying")
    /\ UNCHANGED <<kills, claims, history>>

\* execute with consent plans anew; it may apply all, a part or nothing.
ExecuteApply(b) ==
    /\ At(b, "applying")
    /\ \E r \in {"succeeded", "failed", "denied"} :
            bridge' = [bridge EXCEPT ![b].at = "report", ![b].result = r]
    /\ applies' = [applies EXCEPT ![JobOf(b)] = @ + 1]
    /\ granted' = granted \ {b}
    /\ UNCHANGED <<plane, bounds, late>>

PostApplied(b) ==
    /\ At(b, "report")
    /\ PostOk(b, bridge[b].result) \/ PostErr(b, bridge[b].result)
    /\ bridge' = [bridge EXCEPT ![b] = Polling]
    /\ UNCHANGED <<kills, claims, history>>

\* Ctrl-C, SIGTERM or a crash, and another start.
Stop(b) ==
    /\ kills < MaxKills
    /\ ~At(b, "stopped")
    /\ kills' = kills + 1
    /\ bridge' = [bridge EXCEPT ![b] = Stopped]
    /\ UNCHANGED <<plane, lost, claims, history>>

Start(b) ==
    /\ At(b, "stopped")
    /\ bridge' = [bridge EXCEPT ![b] = Polling]
    /\ UNCHANGED <<plane, bounds, history>>

(***************************************************************************)
(* People, and time.                                                       *)
(***************************************************************************)
Approve(j) ==
    /\ status[j] \in Awaiting
    /\ IF status[j] = "awaiting_approve" /\ j \in TwoApprovals
       THEN status' = [status EXCEPT ![j] = "awaiting_second_approve"] /\ UNCHANGED granted
       ELSE /\ status' = [status EXCEPT ![j] = "approved"]
            /\ granted' = granted \cup {b \in Bridges : At(b, "wait") /\ JobOf(b) = j}
    /\ UNCHANGED <<lease, bridge, bounds, late, applies>>

Deny(j) ==
    /\ status[j] \in Awaiting
    /\ status' = [status EXCEPT ![j] = "denied"]
    /\ UNCHANGED <<lease, bridge, bounds, history>>

Cancel(j) ==
    /\ status[j] \notin Settled
    /\ status' = [status EXCEPT ![j] = "cancelled"]
    /\ UNCHANGED <<lease, bridge, bounds, history>>

\* The bridge never renews a lease: it may expire in the wait, a plan or an apply,
\* and then the job can be claimed while its worker carries on.
LeaseExpires(j) ==
    /\ lease[j] # None
    /\ lease' = [lease EXCEPT ![j] = None]
    /\ late' = late \cup {b \in Bridges : lease[j] = b /\ JobOf(b) = j}
    /\ UNCHANGED <<status, bridge, bounds, granted, applies>>

Listen(b) ==
    \/ Running(b) \/ Execute(b) \/ PostPlan(b) \/ Decision(b) \/ ApproveWaitEnds(b)
    \/ Applying(b) \/ ExecuteApply(b) \/ PostApplied(b)

Next ==
    \/ \E b \in Bridges : Listen(b) \/ Stop(b) \/ Start(b)
    \/ \E b \in Bridges, j \in Jobs : Claim(b, j)
    \/ \E j \in Jobs : Approve(j) \/ Deny(j) \/ Cancel(j) \/ LeaseExpires(j)

Spec == Init /\ [][Next]_vars

\* Every call and every plan returns or times out, and so does the wait.
\* Nothing is owed by people, and nobody has to start a bridge again.
FairSpec == Spec /\ \A b \in Bridges : WF_vars(Listen(b))

(***************************************************************************)
(* Correctness.                                                            *)
(***************************************************************************)
\* What each variable holds: among others, only statuses the plane knows.
TypeOK ==
    /\ status \in [Jobs -> Statuses]
    /\ lease \in [Jobs -> Bridges \cup {None}]
    /\ bridge \in [Bridges ->
            [at : {"poll", "plan", "planning", "post", "wait", "approved", "applying", "report", "stopped"},
             job : Jobs \cup {None}, result : Statuses \cup {None}]]
    /\ lost \in Nat /\ kills \in Nat /\ claims \in [Jobs -> Nat]
    /\ granted \subseteq Bridges /\ late \subseteq Bridges
    /\ applies \in [Jobs -> Nat]

\* "Plan + post PlanResult; never apply": a job in mode plan_only changes no
\* cluster, and nobody is asked for it, whatever the plane and the people do.
PlanOnlyNeverApplies ==
    \A j \in Jobs : Mode[j] = "plan_only" => applies[j] = 0 /\ status[j] \notin Awaiting

\* "Mutating plans pause until Approve in the app": Listen implements Consent.  A
\* bridge applies only after an approval given while its own posted plan waited, and
\* once for it, over kills, lost posts, second claims and what other bridges post for
\* the job.  Two bridges share an approval only when the lease of one expired under it.
grantOf == [b \in Bridges |->
    IF bridge[b].at \notin {"wait", "approved", "applying"} THEN "none"
    ELSE IF b \in granted THEN "granted" ELSE "asked"]
jobOf == [b \in Bridges |-> IF grantOf[b] = "none" THEN None ELSE JobOf(b)]
App == INSTANCE Consent WITH Askers <- Bridges, grant <- grantOf, job <- jobOf
Consented == App!Spec

\* A bridge never stays with one job: whatever people do, or fail to do, it polls
\* again, so that the other jobs in the queue get their turn.
ListensAgain == \A b \in Bridges : []<>(bridge[b].at \in {"poll", "stopped"})

\* Drills do no harm, and the app shows statuses it knows (execute.go:97).
DrillsHarmless == TypeOK /\ PlanOnlyNeverApplies
=============================================================================
