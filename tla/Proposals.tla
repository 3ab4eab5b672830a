------------------------------ MODULE Proposals ------------------------------
(***************************************************************************)
(* The ledger of Autopilot proposals (internal/agent/autopilot) and those  *)
(* who write to it: the loops of "agent run" propose, store, announce and, *)
(* with --autopilot-apply, apply; Slack approvals run in the same process; *)
(* "agent proposals apply" runs in a process of its own, with its own      *)
(* policy.  The ledger is a ring persisted in a file or ConfigMap.  A Put  *)
(* loads the ring, replaces or adds one record and saves it, under a mutex *)
(* that only this process takes.                                           *)
(*                                                                         *)
(* The ring is the set of its records: Put sorts it by CreatedAt, newest   *)
(* first, so the order is that of the field `created'.                     *)
(***************************************************************************)
EXTENDS Integers, FiniteSets

CONSTANTS
    Workers,       \* goroutines of agent run that call emitChange
    Approvers,     \* "approve" requests handled by the Slack listener
    Commands,      \* runs of kprompt agent proposals apply
    Agent,         \* the process of agent run
    Policy,        \* the RemediationPolicy each process has loaded
    Incidents, Actions, Confidences,
    Targets,       \* the object a remedy is for, and the replicas it is to have
    AutopilotApply,  \* the flag --autopilot-apply
    Faults,        \* subset of {"load", "save", "kill"}
    ProposalsMax,  \* size of the ring
    MaxProposals,  \* bound of the model: proposals ever made
    MaxApprovals,  \* bound of the model: approvals ever started
    None

VARIABLES
    ring,       \* the stored proposals
    holder,     \* who holds the library's mutex of a process
    stage,      \* what an actor does next
    prop,       \* the proposal an actor works on
    loaded,     \* the ring as loaded by an actor that is in Put
    made,       \* proposals made so far; also the clock of CreatedAt
    approvals,  \* approvals started so far
    announced,  \* history: the ids alerts were sent with
    mutated,    \* history: the cluster mutations
    verified,   \* history: ids whose mutation was verified, or had nothing to verify
    unsaved,    \* history: the records a Put failed to save
    disturbed,  \* history: a load failed in Put, or two processes were in Put at once
    killed      \* history: processes that were killed at work

history == <<announced, mutated, verified, unsaved, disturbed, killed>>
vars == <<ring, holder, stage, prop, loaded, made, approvals, history>>

Actors == Workers \cup Approvers \cup Commands
Processes == {Agent} \cup Commands
Process(a) == IF a \in Commands THEN a ELSE Agent

Decisions == {"proposed", "approved", "denied", "applied", "failed"}

Proposal == [id         : Nat,
             created    : Nat,
             incident   : Incidents,
             action     : Actions,
             target     : Targets,
             confidence : Confidences,
             decision   : Decisions,
             applied    : BOOLEAN]

\* What ApplyProposal did to the cluster, under which id and policy.
Mutation == [id         : Nat,
             incident   : Incidents,
             action     : Actions,
             target     : Targets,
             confidence : Confidences,
             by         : Processes]

Stages == {"idle", "store", "storing", "notify", "apply", "verify",
           "record", "recording"}

ASSUME ProposalsAssumption ==
    /\ Agent \notin Commands
    /\ Workers \cap Approvers = {} /\ Workers \cap Commands = {}
    /\ Approvers \cap Commands = {}
    /\ Policy \in [Processes -> [auto  : BOOLEAN,
                                 allow : SUBSET Actions,
                                 floor : Nat]]
    /\ Confidences \subseteq Nat
    /\ AutopilotApply \in BOOLEAN
    /\ Faults \subseteq {"load", "save", "kill"}
    /\ ProposalsMax \in Nat \ {0}
    /\ {MaxProposals, MaxApprovals} \subseteq Nat
    /\ None \notin Proposal /\ None \notin Actors

TypeOK ==
    /\ ring \in SUBSET Proposal
    /\ holder \in [Processes -> Actors \cup {None}]
    /\ stage \in [Actors -> Stages]
    /\ prop \in [Actors -> Proposal \cup {None}]
    /\ loaded \in [Actors -> SUBSET Proposal]
    /\ made \in Nat /\ approvals \in Nat
    /\ announced \in SUBSET Nat
    /\ mutated \in SUBSET Mutation
    /\ verified \in SUBSET Nat
    /\ unsaved \in SUBSET [id : Nat, verdict : BOOLEAN]
    /\ disturbed \in BOOLEAN
    /\ killed \in SUBSET Processes

Init ==
    /\ ring = {}
    /\ holder = [p \in Processes |-> None]
    /\ stage = [a \in Actors |-> "idle"]
    /\ prop = [a \in Actors |-> None]
    /\ loaded = [a \in Actors |-> {}]
    /\ made = 0 /\ approvals = 0
    /\ announced = {} /\ mutated = {} /\ verified = {}
    /\ unsaved = {} /\ disturbed = FALSE /\ killed = {}

(***************************************************************************)
(* The policy.                                                             *)
(***************************************************************************)
Gate_NoAllowlist(pol, p) == pol.auto /\ p.confidence >= pol.floor

\* What ApplyProposal checks before it mutates anything.
Gate(pol, p) ==
    /\ pol.auto
    /\ p.action \in pol.allow
    /\ p.confidence >= pol.floor

Decided_Auto(pol, action, confidence) ==
    IF pol.auto THEN "policyAuto" ELSE "proposed"

\* The decision ProposeFromContext makes.
Decided(pol, action, confidence) ==
    IF action \notin pol.allow \/ confidence < pol.floor THEN "denied"
    ELSE IF pol.auto THEN "approved" ELSE "proposed"

(***************************************************************************)
(* The library.                                                            *)
(***************************************************************************)
LockFree_Always(a) == TRUE
LockFree(a) == holder[Process(a)] = None

Open(p) == ~p.applied /\ p.decision \notin {"denied", "failed"}

OpenFor_AnyAction(incident, action) ==
    {p \in ring : Open(p) /\ p.incident = incident}

OpenFor(incident, action) ==
    {p \in ring : Open(p) /\ p.incident = incident /\ p.action = action}

Newest(S) == CHOOSE p \in S : \A q \in S : q.created <= p.created

\* FindOpen: the id of the newest open proposal of the incident, or a new one.
KnownId(incident, action) ==
    IF OpenFor(incident, action) = {} THEN made + 1
    ELSE Newest(OpenFor(incident, action)).id

\* When the ring cannot be loaded nothing is found.
LoadFails(id) == IF "load" \in Faults THEN {id} ELSE {}

\* The ring is cut to the newest ProposalsMax.
Capped(S) ==
    {p \in S : Cardinality({q \in S : q.created > p.created}) < ProposalsMax}

Upserted_AlwaysAdds(S, p) == Capped(S \cup {p})
Upserted(S, p) == Capped({q \in S : q.id # p.id} \cup {p})

InPut(a) == stage[a] \in {"storing", "recording"}

\* Another process has loaded the ring and not saved it yet.
Overlaps(a) == \E b \in Actors : InPut(b) /\ Process(b) # Process(a)

\* Put: load under the mutex; a load error is taken for an empty ring.
PutLoad(a) ==
    /\ stage[a] \in {"store", "record"}
    /\ LockFree(a)
    /\ \/ /\ loaded' = [loaded EXCEPT ![a] = ring]
          /\ disturbed' = (disturbed \/ Overlaps(a))
       \/ /\ "load" \in Faults
          /\ loaded' = [loaded EXCEPT ![a] = {}]
          /\ disturbed' = TRUE
    /\ holder' = [holder EXCEPT ![Process(a)] = a]
    /\ stage' = [stage EXCEPT ![a] = IF stage[a] = "store" THEN "storing" ELSE "recording"]
    /\ UNCHANGED <<ring, prop, made, approvals, announced, mutated, verified, unsaved, killed>>

\* Put: save and unlock.  After the first Put of a loop comes the alert, the
\* last one ends the apply.  An error is at most printed.
PutReturns(a) ==
    /\ InPut(a)
    /\ holder' = [holder EXCEPT ![Process(a)] = None]
    /\ loaded' = [loaded EXCEPT ![a] = {}]
    /\ stage' = [stage EXCEPT ![a] = IF stage[a] = "storing" THEN "notify" ELSE "idle"]
    /\ prop' = IF stage[a] = "storing" THEN prop ELSE [prop EXCEPT ![a] = None]
    /\ UNCHANGED <<made, approvals, announced, mutated, verified, disturbed, killed>>

PutSave(a) ==
    /\ PutReturns(a)
    /\ ring' = Upserted(loaded[a], prop[a])
    /\ UNCHANGED unsaved

PutFails(a) ==
    /\ "save" \in Faults
    /\ PutReturns(a)
    /\ unsaved' = unsaved \cup {[id |-> prop[a].id, verdict |-> stage[a] = "recording"]}
    /\ UNCHANGED ring

(***************************************************************************)
(* emitChange in a loop: propose, store, announce, apply.                  *)
(***************************************************************************)
Propose(w, incident, action, target, confidence) ==
    /\ stage[w] = "idle"
    /\ LockFree(w)
    /\ made < MaxProposals
    /\ made' = made + 1
    /\ \E id \in {KnownId(incident, action)} \cup LoadFails(made + 1) :
       prop' = [prop EXCEPT ![w] =
                  [id         |-> id,
                   created    |-> made + 1,
                   incident   |-> incident,
                   action     |-> action,
                   target     |-> target,
                   confidence |-> confidence,
                   decision   |-> Decided(Policy[Agent], action, confidence),
                   applied    |-> FALSE]]
    /\ stage' = [stage EXCEPT ![w] = "store"]
    /\ UNCHANGED <<ring, holder, loaded, approvals, history>>

AppliesInLoop_OnlyProposed(p) ==
    AutopilotApply /\ Policy[Agent].auto /\ p.decision = "proposed"

AppliesInLoop(p) ==
    AutopilotApply /\ Policy[Agent].auto /\ p.decision \in {"proposed", "approved"}

\* The alert carries the proposal unless it is denied; it may be held back.
Notify(w) ==
    /\ stage[w] = "notify"
    /\ \/ announced' = announced \cup
              (IF prop[w].decision = "denied" THEN {} ELSE {prop[w].id})
       \/ UNCHANGED announced
    /\ IF AppliesInLoop(prop[w])
       THEN stage' = [stage EXCEPT ![w] = "apply"] /\ UNCHANGED prop
       ELSE stage' = [stage EXCEPT ![w] = "idle"] /\ prop' = [prop EXCEPT ![w] = None]
    /\ UNCHANGED <<ring, holder, loaded, made, approvals, mutated, verified, unsaved,
                   disturbed, killed>>

(***************************************************************************)
(* "approve <id>" in Slack and kprompt agent proposals apply --id <id>     *)
(* load a stored proposal and apply it.  The listener refuses to unless    *)
(* its policy is policyAuto.                                               *)
(***************************************************************************)
Get(a) ==
    /\ a \in Approvers => Policy[Agent].auto
    /\ stage[a] = "idle"
    /\ LockFree(a)
    /\ approvals < MaxApprovals
    /\ approvals' = approvals + 1
    /\ \E p \in ring : prop' = [prop EXCEPT ![a] = p]
    /\ stage' = [stage EXCEPT ![a] = "apply"]
    /\ UNCHANGED <<ring, holder, loaded, made, history>>

(***************************************************************************)
(* ApplyProposal.                                                          *)
(***************************************************************************)
Verdict(a, decision, applied) ==
    /\ prop' = [prop EXCEPT ![a].decision = decision, ![a].applied = applied]
    /\ stage' = [stage EXCEPT ![a] = "record"]
    /\ UNCHANGED <<ring, holder, loaded, made, approvals, announced, unsaved, disturbed, killed>>

\* Only the first check, for policyAuto, also clears `applied'.
ApplyDenied(a) ==
    /\ stage[a] = "apply"
    /\ ~Gate(Policy[Process(a)], prop[a])
    /\ Verdict(a, "denied", Policy[Process(a)].auto /\ prop[a].applied)
    /\ UNCHANGED <<mutated, verified>>

Mutates(a) ==
    /\ stage[a] = "apply"
    /\ Gate(Policy[Process(a)], prop[a])
    /\ mutated' = mutated \cup {[id         |-> prop[a].id,
                                 incident   |-> prop[a].incident,
                                 action     |-> prop[a].action,
                                 target     |-> prop[a].target,
                                 confidence |-> prop[a].confidence,
                                 by         |-> Process(a)]}

Mutate(a) ==
    /\ Mutates(a)
    /\ stage' = [stage EXCEPT ![a] = "verify"]
    /\ UNCHANGED <<ring, holder, prop, loaded, made, approvals, announced, verified,
                   unsaved, disturbed, killed>>

\* The call failed; the cluster may have changed or not.
MutateFails(a) ==
    /\ \/ Mutates(a)
       \/ /\ stage[a] = "apply"
          /\ Gate(Policy[Process(a)], prop[a])
          /\ UNCHANGED mutated
    /\ Verdict(a, "failed", FALSE)
    /\ UNCHANGED verified

(***************************************************************************)
(* finalizeAfterMutate.                                                    *)
(***************************************************************************)
\* ok, or nothing to verify: a record that came in as failed stays so.
VerifyPasses(a) ==
    /\ stage[a] = "verify"
    /\ IF prop[a].decision = "failed"
       THEN Verdict(a, "failed", prop[a].applied)
       ELSE Verdict(a, "applied", TRUE)
    /\ verified' = verified \cup {prop[a].id}
    /\ UNCHANGED mutated

VerifyPending_Applied(a) ==
    stage[a] = "verify" /\ Verdict(a, "applied", TRUE) /\ UNCHANGED <<mutated, verified>>

VerifyPending(a) ==
    stage[a] = "verify" /\ Verdict(a, "applied", FALSE) /\ UNCHANGED <<mutated, verified>>

VerifyFails(a) ==
    stage[a] = "verify" /\ Verdict(a, "failed", FALSE) /\ UNCHANGED <<mutated, verified>>

(***************************************************************************)
(* A process is killed, and started again.                                 *)
(***************************************************************************)
Kill(p) ==
    LET gone == {a \in Actors : Process(a) = p}
    IN  /\ "kill" \in Faults
        /\ \E a \in gone : stage[a] # "idle"
        /\ holder' = [holder EXCEPT ![p] = None]
        /\ stage'  = [a \in Actors |-> IF a \in gone THEN "idle" ELSE stage[a]]
        /\ prop'   = [a \in Actors |-> IF a \in gone THEN None ELSE prop[a]]
        /\ loaded' = [a \in Actors |-> IF a \in gone THEN {} ELSE loaded[a]]
        /\ killed' = killed \cup {p}
        /\ UNCHANGED <<ring, made, approvals, announced, mutated, verified, unsaved, disturbed>>

ProposeFromContext(w) ==
    \E i \in Incidents, x \in Actions, t \in Targets, c \in Confidences : Propose(w, i, x, t, c)

Put(a) == PutLoad(a) \/ PutSave(a) \/ PutFails(a)

ApplyProposal(a) ==
    \/ ApplyDenied(a) \/ Mutate(a) \/ MutateFails(a)
    \/ VerifyPasses(a) \/ VerifyPending(a) \/ VerifyFails(a)

Next ==
    \/ \E w \in Workers : ProposeFromContext(w) \/ Notify(w)
    \/ \E a \in Approvers \cup Commands : Get(a)
    \/ \E a \in Actors : Put(a) \/ ApplyProposal(a)
    \/ \E p \in Processes : Kill(p)

\* The calls to the cluster and to the store carry timeouts: what an actor
\* has begun goes on.  No incident, approval or command is owed.
Fairness == \A a \in Actors : WF_vars(Put(a) \/ ApplyProposal(a) \/ (a \in Workers /\ Notify(a)))

Spec == Init /\ [][Next]_vars

FairSpec == Spec /\ Fairness

(***************************************************************************)
(* Properties                                                              *)
(***************************************************************************)
\* The stored ring has one record per id, no two of one creation time, and is
\* never longer than ProposalsMax, whoever wrote it from whatever copy.
RingConsistent ==
    /\ \A p, q \in ring : p.id = q.id \/ p.created = q.created => p = q
    /\ Cardinality(ring) <= ProposalsMax

\* "Applied=true only after post-apply verify": a record that says applied
\* belongs to a mutation that was verified, or that had nothing to verify,
\* through re-approvals, stale copies, kills and denials under another policy.
AppliedWasVerified == \A p \in ring : p.applied => p.id \in verified

\* Every mutation passed the policy of the process that made it, also when
\* the proposal was made under another process's policy or has been stored
\* as denied.
OnlyGatedMutations == \A m \in mutated :
    /\ Policy[m.by].auto
    /\ m.action \in Policy[m.by].allow
    /\ m.confidence >= Policy[m.by].floor

SameAction(r, s) == r.id = s.id => r.incident = s.incident /\ r.action = s.action

\* An id an alert offers for approval stands for one action on one incident,
\* whoever stores old copies under it, before or after it was carried out.  The
\* target and the replicas are those of the latest record: FindOpen looks at
\* incident and action only, so that a record with another target takes the id.
IdNamesOneAction == \A m \in mutated : \A r \in mutated \cup ring : SameAction(m, r)

\* "persists proposals before notify": the id an alert names can be looked up
\* until the ring is full, through later proposals, approvals, verdicts and
\* kills, unless saving it failed, which is only printed, or the ring was
\* disturbed: a load failed, or another process was in Put at the same time.
AnnouncedStored == ~disturbed => \A i \in announced :
    \/ \E p \in ring : p.id = i
    \/ Cardinality(ring) = ProposalsMax
    \/ [id |-> i, verdict |-> FALSE] \in unsaved

\* Under --autopilot-apply a stored approval does not stay without a verdict,
\* also when the mutation or its verification fails, unless the agent is killed
\* meanwhile, saving the verdict fails or the ring is disturbed.
ApprovedIn(S, i) == \E p \in S : p.id = i /\ p.decision = "approved"

VerdictFollows == \A i \in 1..MaxProposals :
    ApprovedIn(ring, i) ~>
        \/ ~ApprovedIn(ring, i)
        \/ disturbed \/ killed # {} \/ [id |-> i, verdict |-> TRUE] \in unsaved
=============================================================================
