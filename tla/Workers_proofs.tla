---------------------------- MODULE Workers_proofs ----------------------------
(***************************************************************************)
(* Theorems about the two loops that run until somebody stops them: the    *)
(* Listen of a bridge (Bridge) and the watch engine (Watch).  They share   *)
(* no state; each has its part here.                                       *)
(*                                                                         *)
(* Bridge.  Listen implements Consent, whenever leases expire.  The        *)
(* argument: only people make a status "approved", and then every bridge   *)
(* that waits is granted, so whoever sees it in its wait was; and a lease  *)
(* keeps every other bridge away from an unsettled job, so of two that     *)
(* have one job in hand one lost its lease while it worked.                *)
(***************************************************************************)
EXTENDS Bridge, Watch, WellFoundedInduction, TLAPS

\* What a bridge has in hand at each of its steps.
StageInv ==
    \A b \in Bridges :
        /\ (At(b, "poll") \/ At(b, "stopped")) <=> JobOf(b) = None
        /\ At(b, "post") =>
               bridge[b].result \in {"failed", "denied", planned(JobOf(b), TRUE), planned(JobOf(b), FALSE)}
        /\ At(b, "report") => bridge[b].result \in {"succeeded", "failed", "denied"}

\* A drill is never beyond its plan.
DrillInv ==
    \A j \in Jobs : Mode[j] = "plan_only" =>
        /\ applies[j] = 0 /\ status[j] \notin Awaiting \cup {"approved"}
        /\ \A b \in Bridges : JobOf(b) = j => bridge[b].at \in {"plan", "planning", "post"}

Base == TypeOK /\ StageInv /\ DrillInv

\* A worker of an unsettled job has the lease, or lost it and is late; of two workers
\* of a job one is late.
LeaseInv ==
    /\ \A j \in Jobs : status[j] = "queued" => lease[j] = None
    /\ \A b \in Bridges : JobOf(b) # None =>
           lease[JobOf(b)] = b \/ status[JobOf(b)] \in Settled \/ b \in late
    /\ \A b, c \in Bridges : b # c /\ JobOf(b) # None /\ JobOf(b) = JobOf(c) => b \in late \/ c \in late

\* Who has seen an approval was waiting when it was given, and has not used it; who
\* has not posted its plan yet has none.
Granted(b) ==
    /\ bridge[b].at \in {"plan", "planning", "post"} => b \notin granted
    /\ At(b, "wait") /\ status[JobOf(b)] = "approved" => b \in granted
    /\ At(b, "approved") \/ At(b, "applying") => b \in granted
GrantInv == \A b \in Bridges : Granted(b)

IInv == Base /\ LeaseInv /\ GrantInv

-------------------------------------------------------------------------------

\* The two outcomes of a post leave everything but the job's status, its lease
\* and the count of lost calls; the status becomes what was posted or stays.
Posted(b, s) ==
    /\ \/ status' = status
       \/ status[JobOf(b)] \notin Settled /\ status' = [status EXCEPT ![JobOf(b)] = s]
    /\ \/ lease' = lease
       \/ s \in Settled /\ status'[JobOf(b)] = s /\ lease' = [lease EXCEPT ![JobOf(b)] = None]
    /\ lost' \in Nat

LEMMA PostEffect ==
    ASSUME TypeOK, NEW b \in Bridges, NEW s \in Statuses, JobOf(b) \in Jobs,
           PostOk(b, s) \/ PostErr(b, s)
    PROVE  Posted(b, s)
  <1>1. CASE Arrives(b, s)
    BY <1>1 DEF Arrives, Posted, PostOk, PostErr, Loses, TypeOK, plane
  <1>2. CASE ~Arrives(b, s)
    BY <1>2 DEF Posted, PostOk, PostErr, Loses, TypeOK, plane
  <1> QED BY <1>1, <1>2

LEMMA PlannedTyped ==
    ASSUME NEW j \in Jobs, NEW r, r \in {"failed", "denied", planned(j, TRUE), planned(j, FALSE)}
    PROVE  /\ r \in {"failed", "denied", "succeeded", "awaiting_approve"}
           /\ Mode[j] = "plan_only" => r # "awaiting_approve"
  BY DEF planned

LEMMA HandOver ==
    ASSUME TypeOK, NEW b \in Bridges, NEW at \in {"post", "report"}, NEW r \in Statuses,
           bridge' = [bridge EXCEPT ![b].at = at, ![b].result = r]
    PROVE  bridge' \in [Bridges ->
              [at : {"poll", "plan", "planning", "post", "wait", "approved", "applying", "report", "stopped"},
               job : Jobs \cup {None}, result : Statuses \cup {None}]]
  BY ZenonT(60) DEF TypeOK

LEMMA BaseInit == Init => Base
  <1> SUFFICES ASSUME Init PROVE Base
    OBVIOUS
  <1> USE NoneAssumption DEF Init, Polling
  <1>1. TypeOK
    BY DEF TypeOK, Statuses, Settled, Awaiting
  <1>2. StageInv
    BY DEF StageInv, At, JobOf
  <1>3. DrillInv
    BY DEF DrillInv, JobOf, Awaiting
  <1> QED BY <1>1, <1>2, <1>3 DEF Base

LEMMA BaseStep == Base /\ [Next]_vars => Base'
  <1> SUFFICES ASSUME Base, [Next]_vars PROVE Base'
    OBVIOUS
  <1> USE ModeAssumption, NoneAssumption DEF Base
  <1>1. ASSUME NEW b \in Bridges, Running(b) PROVE Base'
    <2>1. JobOf(b) \in Jobs /\ At(b, "plan")
      BY <1>1 DEF Running, StageInv, TypeOK, JobOf, At
    <2>2. Posted(b, "running")
      BY <1>1, <2>1, PostEffect DEF Running, Statuses
    <2>3. bridge' = [bridge EXCEPT ![b].at = "planning"] /\ UNCHANGED <<kills, claims, granted, late, applies>>
      BY <1>1 DEF Running, Goes, history
    <2>4. TypeOK'
      BY SMTT(60), <2>1, <2>2, <2>3 DEF TypeOK, Posted, Statuses, Settled
    <2>5. StageInv'
      BY <2>1, <2>2, <2>3 DEF TypeOK, StageInv, At, JobOf, planned, Posted, Statuses, Settled
    <2>6. DrillInv'
      BY <2>1, <2>2, <2>3 DEF TypeOK, DrillInv, At, JobOf, Awaiting, Posted, Statuses, Settled
    <2> QED BY <2>4, <2>5, <2>6
  <1>2. ASSUME NEW b \in Bridges, Execute(b) PROVE Base'
    <2>1. JobOf(b) \in Jobs /\ At(b, "planning")
      BY <1>2 DEF Execute, StageInv, TypeOK, JobOf, At
    <2>2. PICK r \in {"failed", "denied"} \cup {planned(JobOf(b), requires) : requires \in BOOLEAN} :
              bridge' = [bridge EXCEPT ![b].at = "post", ![b].result = r]
      BY <1>2 DEF Execute
    <2>3. r \in {"failed", "denied", planned(JobOf(b), TRUE), planned(JobOf(b), FALSE)}
      BY <2>2
    <2>4. r \in Statuses
      BY <2>1, <2>3, PlannedTyped DEF Statuses, Settled, Awaiting
    <2>5. UNCHANGED <<status, lease, lost, kills, claims, granted, late, applies>>
      BY <1>2 DEF Execute, plane, bounds, history
    <2>6. TypeOK'
      <3>1. bridge' \in [Bridges ->
               [at : {"poll", "plan", "planning", "post", "wait", "approved", "applying", "report", "stopped"},
                job : Jobs \cup {None}, result : Statuses \cup {None}]]
        BY <2>2, <2>4, HandOver
      <3> QED BY <2>5, <3>1 DEF TypeOK
    <2>7. StageInv'
      BY <2>1, <2>2, <2>3, <2>5 DEF TypeOK, StageInv, At, JobOf, planned
    <2>8. DrillInv'
      BY <2>1, <2>2, <2>5 DEF TypeOK, DrillInv, At, JobOf
    <2> QED BY <2>6, <2>7, <2>8
  <1>3. ASSUME NEW b \in Bridges, PostPlan(b) PROVE Base'
    <2> DEFINE r == bridge[b].result
    <2>1. JobOf(b) \in Jobs /\ At(b, "post")
      BY <1>3 DEF PostPlan, StageInv, TypeOK, JobOf, At
    <2>2. r \in {"failed", "denied", "succeeded", "awaiting_approve"} /\ (Mode[JobOf(b)] = "plan_only" => r # "awaiting_approve")
      BY <2>1, PlannedTyped DEF StageInv
    <2>3. Posted(b, r)
      BY <1>3, <2>1, <2>2, PostEffect DEF PostPlan, Statuses, Settled, Awaiting
    <2>4. \/ bridge' = [bridge EXCEPT ![b] = Polling]
          \/ r = "awaiting_approve" /\ bridge' = [bridge EXCEPT ![b].at = "wait"]
      BY <1>3 DEF PostPlan, Goes
    <2>5. UNCHANGED <<kills, claims, granted, late, applies>>
      BY <1>3 DEF PostPlan, history
    <2>6. TypeOK'
      BY SMTT(60), <2>1, <2>2, <2>3, <2>4, <2>5 DEF TypeOK, Posted, Polling, Statuses, Settled, Awaiting
    <2>7. StageInv'
      BY <2>1, <2>4, <2>5 DEF TypeOK, StageInv, At, JobOf, planned, Polling
    <2>8. DrillInv'
      BY <2>1, <2>2, <2>3, <2>4, <2>5 DEF TypeOK, DrillInv, At, JobOf, Polling, Posted, Awaiting
    <2> QED BY <2>6, <2>7, <2>8
  <1>4. ASSUME NEW b \in Bridges, Decision(b) \/ ApproveWaitEnds(b) PROVE Base'
    <2>1. JobOf(b) \in Jobs /\ At(b, "wait")
      BY <1>4 DEF Decision, ApproveWaitEnds, StageInv, TypeOK, JobOf, At
    <2>2. bridge' = [bridge EXCEPT ![b] = Polling] \/ bridge' = [bridge EXCEPT ![b].at = "approved"]
      BY <1>4 DEF Decision, ApproveWaitEnds, Goes
    <2>3. UNCHANGED <<status, lease, lost, kills, claims, granted, late, applies>>
      BY <1>4 DEF Decision, ApproveWaitEnds, plane, bounds, history
    <2>4. TypeOK'
      BY SMTT(60), <2>1, <2>2, <2>3 DEF TypeOK, Polling
    <2>5. StageInv'
      BY SMTT(60), <2>1, <2>2, <2>3 DEF TypeOK, StageInv, At, JobOf, planned, Polling
    <2>6. DrillInv'
      BY <2>1, <2>2, <2>3 DEF TypeOK, DrillInv, At, JobOf, Awaiting, Polling
    <2> QED BY <2>4, <2>5, <2>6
  <1>5. ASSUME NEW b \in Bridges, Applying(b) PROVE Base'
    <2>1. JobOf(b) \in Jobs /\ At(b, "approved")
      BY <1>5 DEF Applying, StageInv, TypeOK, JobOf, At
    <2>2. Posted(b, "running")
      BY <1>5, <2>1, PostEffect DEF Applying, Statuses
    <2>3. bridge' = [bridge EXCEPT ![b].at = "applying"] /\ UNCHANGED <<kills, claims, granted, late, applies>>
      BY <1>5 DEF Applying, Goes, history
    <2>4. TypeOK'
      BY SMTT(60), <2>1, <2>2, <2>3 DEF TypeOK, Posted, Statuses, Settled
    <2>5. StageInv'
      BY <2>1, <2>2, <2>3 DEF TypeOK, StageInv, At, JobOf, planned, Posted, Statuses, Settled
    <2>6. DrillInv'
      BY <2>1, <2>2, <2>3 DEF TypeOK, DrillInv, At, JobOf, Awaiting, Posted, Statuses, Settled
    <2> QED BY <2>4, <2>5, <2>6
  <1>6. ASSUME NEW b \in Bridges, ExecuteApply(b) PROVE Base'
    <2>1. JobOf(b) \in Jobs /\ At(b, "applying")
      BY <1>6 DEF ExecuteApply, StageInv, TypeOK, JobOf, At
    <2>2. Mode[JobOf(b)] # "plan_only"
      BY <2>1 DEF DrillInv, At
    <2>3. PICK r \in {"succeeded", "failed", "denied"} :
              bridge' = [bridge EXCEPT ![b].at = "report", ![b].result = r]
      BY <1>6 DEF ExecuteApply
    <2>4. /\ UNCHANGED <<status, lease, lost, kills, claims, late>> /\ granted' = granted \ {b}
          /\ applies' = [applies EXCEPT ![JobOf(b)] = @ + 1]
      BY <1>6 DEF ExecuteApply, plane, bounds
    <2>5. TypeOK'
      <3>1. bridge' \in [Bridges ->
              [at : {"poll", "plan", "planning", "post", "wait", "approved", "applying", "report", "stopped"},
               job : Jobs \cup {None}, result : Statuses \cup {None}]]
        <4>1. r \in Statuses
          BY <2>3 DEF Statuses, Settled
        <4> QED BY <2>3, <4>1, HandOver
      <3>2. applies' \in [Jobs -> Nat] /\ granted' \subseteq Bridges
        BY <2>1, <2>4 DEF TypeOK
      <3> QED BY <2>4, <3>1, <3>2 DEF TypeOK
    <2>6. StageInv'
      BY <2>1, <2>2, <2>3, <2>4 DEF TypeOK, StageInv, At, JobOf, planned, Statuses, Settled
    <2>7. DrillInv'
      BY <2>1, <2>2, <2>3, <2>4 DEF TypeOK, DrillInv, At, JobOf, Awaiting, Statuses, Settled
    <2> QED BY <2>5, <2>6, <2>7
  <1>7. ASSUME NEW b \in Bridges, PostApplied(b) PROVE Base'
    <2> DEFINE r == bridge[b].result
    <2>1. JobOf(b) \in Jobs /\ At(b, "report") /\ r \in {"succeeded", "failed", "denied"}
      BY <1>7 DEF PostApplied, StageInv, TypeOK, JobOf, At
    <2>2. Posted(b, r)
      BY <1>7, <2>1, PostEffect DEF PostApplied, Statuses, Settled
    <2>3. bridge' = [bridge EXCEPT ![b] = Polling] /\ UNCHANGED <<kills, claims, granted, late, applies>>
      BY <1>7 DEF PostApplied, history
    <2>4. TypeOK'
      BY <2>1, <2>2, <2>3 DEF TypeOK, Posted, Polling, Statuses, Settled
    <2>5. StageInv'
      BY <2>1, <2>2, <2>3 DEF TypeOK, StageInv, At, JobOf, planned, Posted, Polling, Statuses, Settled
    <2>6. DrillInv'
      BY <2>1, <2>2, <2>3 DEF TypeOK, DrillInv, At, JobOf, Awaiting, Posted, Polling, Statuses, Settled
    <2> QED BY <2>4, <2>5, <2>6
  <1>8. ASSUME NEW b \in Bridges, Stop(b) \/ Start(b) PROVE Base'
    <2>1. bridge' = [bridge EXCEPT ![b] = Polling] \/ bridge' = [bridge EXCEPT ![b] = Stopped]
      BY <1>8 DEF Stop, Start
    <2>2. UNCHANGED <<status, lease, lost, claims, granted, late, applies>> /\ kills' \in Nat
      BY <1>8 DEF Stop, Start, plane, bounds, history, TypeOK
    <2>3. TypeOK'
      BY <2>1, <2>2 DEF TypeOK, Polling, Stopped
    <2>4. StageInv'
      BY <2>1, <2>2 DEF TypeOK, StageInv, At, JobOf, planned, Polling, Stopped
    <2>5. DrillInv'
      BY <2>1, <2>2 DEF TypeOK, DrillInv, At, JobOf, Awaiting, Polling, Stopped
    <2> QED BY <2>3, <2>4, <2>5
  <1>9. ASSUME NEW b \in Bridges, NEW j \in Jobs, Claim(b, j) PROVE Base'
    <2>1. \/ bridge' = [bridge EXCEPT ![b] = [at |-> "plan", job |-> j, result |-> None]]
          \/ bridge' = bridge
      BY <1>9 DEF Claim, Polling
    <2>2. /\ status' = [status EXCEPT ![j] = "claimed"] /\ lease' = [lease EXCEPT ![j] = b]
          /\ lost' \in Nat /\ claims' \in [Jobs -> Nat] /\ kills' = kills
          /\ granted' \subseteq Bridges /\ late' \subseteq Bridges /\ applies' = applies
      BY <1>9 DEF Claim, Loses, TypeOK
    <2>3. TypeOK'
      <3>1. bridge' \in [Bridges ->
              [at : {"poll", "plan", "planning", "post", "wait", "approved", "applying", "report", "stopped"},
               job : Jobs \cup {None}, result : Statuses \cup {None}]]
        BY <2>1 DEF TypeOK
      <3>2. status' \in [Jobs -> Statuses] /\ lease' \in [Jobs -> Bridges \cup {None}]
        BY <2>2 DEF TypeOK, Statuses
      <3> QED BY <2>2, <3>1, <3>2 DEF TypeOK
    <2>4. StageInv'
      BY <2>1, <2>2 DEF TypeOK, StageInv, At, JobOf, planned, Statuses
    <2>5. DrillInv'
      BY <2>1, <2>2 DEF TypeOK, DrillInv, At, JobOf, Awaiting, Statuses
    <2> QED BY <2>3, <2>4, <2>5
  <1>10. ASSUME NEW j \in Jobs, Approve(j) PROVE Base'
    <2>1. Mode[j] # "plan_only"
      BY <1>10 DEF Approve, DrillInv
    <2> QED
      BY <1>10, <2>1 DEF Approve, TypeOK, StageInv, DrillInv, At, JobOf, planned, Statuses, Awaiting, bounds
  <1>11. ASSUME NEW j \in Jobs, Deny(j) \/ Cancel(j) PROVE Base'
    BY <1>11 DEF Deny, Cancel, TypeOK, StageInv, DrillInv, At, JobOf, planned, Statuses, Settled, Awaiting, bounds, history
  <1>12. ASSUME NEW j \in Jobs, LeaseExpires(j) PROVE Base'
    BY <1>12 DEF LeaseExpires, TypeOK, StageInv, DrillInv, At, JobOf, planned, bounds, history
  <1>13. CASE UNCHANGED vars
    BY <1>13 DEF TypeOK, StageInv, DrillInv, At, JobOf, planned, vars, plane, bounds, history
  <1> QED
    BY <1>1, <1>2, <1>3, <1>4, <1>5, <1>6, <1>7, <1>8, <1>9, <1>10, <1>11, <1>12, <1>13 DEF Next, Listen
-------------------------------------------------------------------------------

\* Whoever has the job in hand when it can be claimed is late.
LEMMA ClaimableIsLate ==
    ASSUME TypeOK, LeaseInv, NEW j \in Jobs, Claimable(j), NEW b \in Bridges, JobOf(b) = j
    PROVE  b \in late
  BY NoneAssumption DEF TypeOK, LeaseInv, Claimable, Settled

LEMMA LeaseInit == Init => LeaseInv /\ GrantInv
  BY NoneAssumption DEF Init, Polling, LeaseInv, GrantInv, Granted, JobOf, At

\* A post keeps both invariants: it never makes a status "approved" or "queued".
LEMMA PostKeeps ==
    ASSUME IInv, NEW b \in Bridges, JobOf(b) \in Jobs, NEW s \in Statuses \ {"approved", "queued"},
           Posted(b, s), UNCHANGED <<granted, late>>,
           \/ bridge' = [bridge EXCEPT ![b] = Polling]
           \/ bridge' = [bridge EXCEPT ![b].at = "planning"] /\ At(b, "plan")
           \/ /\ bridge' = [bridge EXCEPT ![b].at = "wait"]
              /\ status' = [status EXCEPT ![JobOf(b)] = "awaiting_approve"]
           \/ /\ bridge' = [bridge EXCEPT ![b].at = "applying"]
              /\ b \in granted
    PROVE  LeaseInv' /\ GrantInv'
  <1> USE NoneAssumption DEF IInv, Base
  <1>1. \A c \in Bridges : JobOf(c)' = JobOf(c) \/ (c = b /\ JobOf(c)' = None)
    BY DEF TypeOK, JobOf, Polling
  <1>2. \A j \in Jobs : status[j] \in Settled => status'[j] \in Settled
    BY DEF TypeOK, Posted
  <1>3. \A j \in Jobs : lease'[j] = lease[j] \/ (lease'[j] = None /\ status'[j] \in Settled)
    BY DEF TypeOK, Posted
  <1>4. \A j \in Jobs : status'[j] = status[j] \/ status'[j] \notin {"approved", "queued"}
    BY DEF TypeOK, Posted
  <1>5. LeaseInv'
    <2>1. \A j \in Jobs : status'[j] = "queued" => lease'[j] = None
      BY <1>3, <1>4 DEF LeaseInv
    <2>2. ASSUME NEW c \in Bridges, JobOf(c)' # None
          PROVE  lease'[JobOf(c)'] = c \/ status'[JobOf(c)'] \in Settled \/ c \in late'
      <3>1. JobOf(c)' = JobOf(c) /\ JobOf(c) \in Jobs
        BY <1>1, <2>2 DEF TypeOK, JobOf
      <3> QED BY <1>2, <1>3, <2>2, <3>1 DEF LeaseInv
    <2>3. ASSUME NEW c \in Bridges, NEW d \in Bridges, c # d, JobOf(c)' # None, JobOf(c)' = JobOf(d)'
          PROVE  c \in late' \/ d \in late'
      BY <1>1, <2>3 DEF LeaseInv
    <2> QED BY <2>1, <2>2, <2>3 DEF LeaseInv
  <1>6. ASSUME NEW c \in Bridges PROVE Granted(c)'
    <2>1. CASE c = b
      BY <2>1 DEF TypeOK, GrantInv, Granted, JobOf, At, Polling
    <2>2. CASE c # b
      <3>1. bridge'[c] = bridge[c]
        BY <2>2 DEF TypeOK
      <3>2. At(c, "wait") => JobOf(c) \in Jobs
        BY DEF TypeOK, StageInv, At, JobOf
      <3> QED BY <1>4, <3>1, <3>2 DEF GrantInv, Granted, JobOf, At
    <2> QED BY <2>1, <2>2
  <1> QED BY <1>5, <1>6 DEF GrantInv

LEMMA LeaseStep ==
    ASSUME IInv, [Next]_vars
    PROVE  LeaseInv' /\ GrantInv'
  <1> USE NoneAssumption DEF IInv, Base
  <1>1. ASSUME NEW b \in Bridges, Running(b) PROVE LeaseInv' /\ GrantInv'
    <2>1. JobOf(b) \in Jobs
      BY <1>1 DEF Running, StageInv, TypeOK, JobOf, At
    <2>2. Posted(b, "running")
      BY <1>1, <2>1, PostEffect DEF Running, Statuses
    <2>3. /\ bridge' = [bridge EXCEPT ![b].at = "planning"] /\ At(b, "plan")
          /\ UNCHANGED <<granted, late>>
      BY <1>1 DEF Running, Goes, history
    <2> QED BY <2>1, <2>2, <2>3, PostKeeps DEF Statuses
  <1>2. ASSUME NEW b \in Bridges, Execute(b) PROVE LeaseInv' /\ GrantInv'
    <2>1. JobOf(b) \in Jobs
      BY <1>2 DEF Execute, StageInv, TypeOK, JobOf, At
    <2>2. PICK r : bridge' = [bridge EXCEPT ![b].at = "post", ![b].result = r]
      BY <1>2 DEF Execute
    <2>3. UNCHANGED <<status, lease, granted, late>>
      BY <1>2 DEF Execute, plane, history
    <2>4. \A c \in Bridges : JobOf(c)' = JobOf(c)
                              /\ (bridge'[c] = bridge[c] \/ (bridge[c].at = "planning" /\ bridge'[c].at = "post"))
      <3>1. JobOf(b)' = JobOf(b) /\ bridge[b].at = "planning" /\ bridge'[b].at = "post"
        BY <1>2, <2>2 DEF Execute, TypeOK, JobOf, At
      <3>2. \A c \in Bridges \ {b} : bridge'[c] = bridge[c]
        BY <2>2 DEF TypeOK
      <3> QED BY <3>1, <3>2 DEF JobOf
    <2>5. LeaseInv'
      BY <2>3, <2>4 DEF LeaseInv
    <2>6. GrantInv'
      BY <2>3, <2>4 DEF GrantInv, Granted, JobOf, At
    <2> QED BY <2>5, <2>6
  <1>3. ASSUME NEW b \in Bridges, PostPlan(b) PROVE LeaseInv' /\ GrantInv'
    <2> DEFINE r == bridge[b].result
    <2>1. JobOf(b) \in Jobs /\ At(b, "post")
      BY <1>3 DEF PostPlan, StageInv, TypeOK, JobOf, At
    <2>2. r \in {"failed", "denied", "succeeded", "awaiting_approve"}
      BY <2>1, PlannedTyped DEF StageInv
    <2>3. r \in Statuses \ {"approved", "queued"}
      BY <2>2 DEF Statuses, Settled, Awaiting
    <2>4. Posted(b, r)
      BY <1>3, <2>1, <2>3, PostEffect DEF PostPlan
    <2>5. \/ bridge' = [bridge EXCEPT ![b] = Polling]
          \/ /\ bridge' = [bridge EXCEPT ![b].at = "wait"]
             /\ status' = [status EXCEPT ![JobOf(b)] = "awaiting_approve"]
      BY <1>3 DEF PostPlan, Goes, PostOk, Arrives
    <2>6. UNCHANGED <<granted, late>>
      BY <1>3 DEF PostPlan, history
    <2> QED BY <2>1, <2>3, <2>4, <2>5, <2>6, PostKeeps
  <1>4. ASSUME NEW b \in Bridges, Decision(b) \/ ApproveWaitEnds(b) \/ Stop(b) \/ Start(b)
        PROVE  LeaseInv' /\ GrantInv'
    <2>1. \/ bridge' = [bridge EXCEPT ![b] = Polling]
          \/ bridge' = [bridge EXCEPT ![b] = Stopped]
          \/ /\ At(b, "wait") /\ status[JobOf(b)] = "approved"
             /\ bridge' = [bridge EXCEPT ![b].at = "approved"]
      BY <1>4 DEF Decision, ApproveWaitEnds, Stop, Start, Goes
    <2>2. UNCHANGED <<status, lease, granted, late>>
      BY <1>4 DEF Decision, ApproveWaitEnds, Stop, Start, plane, history
    <2>3. \A c \in Bridges : JobOf(c)' = JobOf(c) \/ JobOf(c)' = None
      BY <2>1 DEF TypeOK, JobOf, Polling, Stopped
    <2>4. LeaseInv'
      BY <2>2, <2>3 DEF LeaseInv
    <2>5. ASSUME NEW c \in Bridges PROVE Granted(c)'
      <3>1. CASE c = b
        BY <2>1, <2>2, <3>1 DEF TypeOK, GrantInv, Granted, JobOf, At, Polling, Stopped
      <3>2. CASE c # b
        <4>1. bridge'[c] = bridge[c]
          BY <2>1, <3>2 DEF TypeOK
        <4> QED BY <2>2, <4>1 DEF GrantInv, Granted, JobOf, At
      <3> QED BY <3>1, <3>2
    <2> QED BY <2>4, <2>5 DEF GrantInv
  <1>5. ASSUME NEW b \in Bridges, Applying(b) PROVE LeaseInv' /\ GrantInv'
    <2>1. JobOf(b) \in Jobs /\ b \in granted
      BY <1>5 DEF Applying, StageInv, GrantInv, Granted, TypeOK, JobOf, At
    <2>2. Posted(b, "running")
      BY <1>5, <2>1, PostEffect DEF Applying, Statuses
    <2>3. bridge' = [bridge EXCEPT ![b].at = "applying"] /\ UNCHANGED <<granted, late>>
      BY <1>5 DEF Applying, Goes, history
    <2> QED BY <2>1, <2>2, <2>3, PostKeeps DEF Statuses
  <1>6. ASSUME NEW b \in Bridges, ExecuteApply(b) PROVE LeaseInv' /\ GrantInv'
    <2>1. JobOf(b) \in Jobs
      BY <1>6 DEF ExecuteApply, StageInv, TypeOK, JobOf, At
    <2>2. PICK r : bridge' = [bridge EXCEPT ![b].at = "report", ![b].result = r]
      BY <1>6 DEF ExecuteApply
    <2>3. UNCHANGED <<status, lease, late>> /\ granted' = granted \ {b}
      BY <1>6 DEF ExecuteApply, plane
    <2>4. \A c \in Bridges : JobOf(c)' = JobOf(c) /\ ((c # b /\ bridge'[c] = bridge[c]) \/ At(c, "report")')
      BY <2>2 DEF TypeOK, JobOf, At
    <2>5. LeaseInv'
      BY <2>3, <2>4 DEF LeaseInv
    <2>6. GrantInv'
      BY <2>3, <2>4 DEF GrantInv, Granted, JobOf, At
    <2> QED BY <2>5, <2>6
  <1>7. ASSUME NEW b \in Bridges, PostApplied(b) PROVE LeaseInv' /\ GrantInv'
    <2> DEFINE r == bridge[b].result
    <2>1. JobOf(b) \in Jobs /\ r \in {"succeeded", "failed", "denied"}
      BY <1>7 DEF PostApplied, StageInv, TypeOK, JobOf, At
    <2>2. r \in Statuses \ {"approved", "queued"}
      BY <2>1 DEF Statuses, Settled
    <2>3. Posted(b, r)
      BY <1>7, <2>1, <2>2, PostEffect DEF PostApplied
    <2>4. bridge' = [bridge EXCEPT ![b] = Polling] /\ UNCHANGED <<granted, late>>
      BY <1>7 DEF PostApplied, history
    <2> QED BY <2>1, <2>2, <2>3, <2>4, PostKeeps
  <1>8. ASSUME NEW b \in Bridges, NEW j \in Jobs, Claim(b, j) PROVE LeaseInv' /\ GrantInv'
    <2>1. /\ At(b, "poll") /\ Claimable(j)
          /\ status' = [status EXCEPT ![j] = "claimed"] /\ lease' = [lease EXCEPT ![j] = b]
      BY <1>8 DEF Claim
    <2>2. \/ /\ bridge' = [bridge EXCEPT ![b] = [at |-> "plan", job |-> j, result |-> None]]
             /\ granted' = granted \ {b} /\ late' = late \ {b}
          \/ UNCHANGED <<bridge, granted, late>>
      BY <1>8 DEF Claim, Polling
    <2>3. JobOf(b) = None
      BY <2>1 DEF StageInv
    <2>4. \A c \in Bridges : JobOf(c) = j => c \in late /\ c # b
      BY <2>1, <2>3, ClaimableIsLate
    <2>5. \A c \in Bridges \ {b} : bridge'[c] = bridge[c] /\ JobOf(c)' = JobOf(c)
                                   /\ (c \in late' <=> c \in late) /\ (c \in granted' <=> c \in granted)
      BY <2>2 DEF TypeOK, JobOf
    <2>6. JobOf(b)' \in {None, j}
      BY <2>2, <2>3 DEF TypeOK, JobOf
    <2>7. LeaseInv'
      <3>1. \A k \in Jobs : status'[k] = "queued" => lease'[k] = None
        BY <2>1 DEF TypeOK, LeaseInv
      <3>2. ASSUME NEW c \in Bridges, JobOf(c)' # None
            PROVE  lease'[JobOf(c)'] = c \/ status'[JobOf(c)'] \in Settled \/ c \in late'
        <4>1. CASE c = b
          BY <2>1, <2>6, <3>2, <4>1 DEF TypeOK
        <4>2. CASE c # b
          BY <2>1, <2>4, <2>5, <3>2, <4>2 DEF TypeOK, LeaseInv
        <4> QED BY <4>1, <4>2
      <3>3. ASSUME NEW c \in Bridges, NEW d \in Bridges, c # d, JobOf(c)' # None, JobOf(c)' = JobOf(d)'
            PROVE  c \in late' \/ d \in late'
        BY <2>4, <2>5, <2>6, <3>3 DEF LeaseInv
      <3> QED BY <3>1, <3>2, <3>3 DEF LeaseInv
    <2>8. ASSUME NEW c \in Bridges PROVE Granted(c)'
      <3>1. CASE c = b
        BY <2>1, <2>2, <3>1 DEF TypeOK, Granted, JobOf, At
      <3>2. CASE c # b
        <4>1. status'[JobOf(c)] = "approved" /\ At(c, "wait") => status[JobOf(c)] = "approved"
          BY <2>1 DEF TypeOK, StageInv, JobOf, At
        <4> QED BY <2>5, <3>2, <4>1 DEF GrantInv, Granted, JobOf, At
      <3> QED BY <3>1, <3>2
    <2> QED BY <2>7, <2>8 DEF GrantInv
  <1>9. ASSUME NEW j \in Jobs, Approve(j) PROVE LeaseInv' /\ GrantInv'
    <2>1. UNCHANGED <<lease, bridge, late>> /\ status[j] \in Awaiting
      BY <1>9 DEF Approve
    <2>2. \/ status' = [status EXCEPT ![j] = "awaiting_second_approve"] /\ granted' = granted
          \/ /\ status' = [status EXCEPT ![j] = "approved"]
             /\ granted' = granted \cup {b \in Bridges : At(b, "wait") /\ JobOf(b) = j}
      BY <1>9 DEF Approve
    <2>3. LeaseInv'
      BY <2>1, <2>2 DEF TypeOK, LeaseInv, JobOf, Settled, Awaiting
    <2>4. GrantInv'
      BY <2>1, <2>2 DEF TypeOK, GrantInv, Granted, StageInv, JobOf, At, Awaiting
    <2> QED BY <2>3, <2>4
  <1>10. ASSUME NEW j \in Jobs, Deny(j) \/ Cancel(j) PROVE LeaseInv' /\ GrantInv'
    <2>1. UNCHANGED <<lease, bridge, granted, late>>
      BY <1>10 DEF Deny, Cancel, history
    <2>2. PICK s \in {"denied", "cancelled"} : status' = [status EXCEPT ![j] = s]
      BY <1>10 DEF Deny, Cancel
    <2>3. LeaseInv'
      BY <2>1, <2>2 DEF TypeOK, LeaseInv, JobOf, Settled
    <2>4. GrantInv'
      BY <2>1, <2>2 DEF TypeOK, GrantInv, Granted, StageInv, JobOf, At
    <2> QED BY <2>3, <2>4
  <1>11. ASSUME NEW j \in Jobs, LeaseExpires(j) PROVE LeaseInv' /\ GrantInv'
    <2>1. UNCHANGED <<status, bridge, granted>> /\ lease' = [lease EXCEPT ![j] = None]
      BY <1>11 DEF LeaseExpires
    <2>2. late' = late \cup {b \in Bridges : lease[j] = b /\ JobOf(b) = j}
      BY <1>11 DEF LeaseExpires
    <2>3. LeaseInv'
      BY <2>1, <2>2 DEF TypeOK, LeaseInv, JobOf
    <2>4. GrantInv'
      BY <2>1 DEF GrantInv, Granted, JobOf, At
    <2> QED BY <2>3, <2>4
  <1>12. CASE UNCHANGED vars
    BY <1>12 DEF LeaseInv, GrantInv, Granted, At, JobOf, vars, plane, history
  <1> QED
    BY <1>1, <1>2, <1>3, <1>4, <1>5, <1>6, <1>7, <1>8, <1>9, <1>10, <1>11, <1>12 DEF Next, Listen

-------------------------------------------------------------------------------

\* DrillsHarmless, of every execution: whatever the plane, the people and the
\* network do, leases expiring early included, a drill never gets past its plan,
\* and what the app shows of a job is a status it knows.
THEOREM DrillsStayHarmless == Spec => []DrillsHarmless
  <1>1. Base => DrillsHarmless
    BY DEF Base, DrillsHarmless, DrillInv, PlanOnlyNeverApplies
  <1> QED BY <1>1, BaseInit, BaseStep, PTL DEF Spec

LEMMA IInvHolds == Spec => []IInv
  <1>1. Init => IInv
    BY BaseInit, LeaseInit DEF IInv
  <1>2. IInv /\ [Next]_vars => IInv'
    <2> SUFFICES ASSUME IInv, [Next]_vars PROVE IInv'
      OBVIOUS
    <2> QED BY BaseStep, LeaseStep DEF IInv
  <1> QED BY <1>1, <1>2, PTL DEF Spec

\* What the app sees of the bridges that stay where they are stays.
LEMMA SeenApart ==
    ASSUME UNCHANGED <<bridge, granted>>
    PROVE  UNCHANGED <<grantOf, jobOf>>
  BY DEF grantOf, jobOf, JobOf

\* A step of one bridge is seen of that bridge alone.
LEMMA SeenOfOne ==
    ASSUME TypeOK, NEW b \in Bridges, NEW r, bridge' = [bridge EXCEPT ![b] = r],
           \A c \in Bridges \ {b} : c \in granted' <=> c \in granted
    PROVE  /\ bridge'[b] = r
           /\ grantOf' = [grantOf EXCEPT ![b] = grantOf'[b]]
           /\ jobOf' = [jobOf EXCEPT ![b] = jobOf'[b]]
  <1>1. bridge'[b] = r /\ \A c \in Bridges \ {b} : bridge'[c] = bridge[c]
    BY DEF TypeOK
  <1>2. \A c \in Bridges \ {b} : grantOf'[c] = grantOf[c]
    BY <1>1 DEF grantOf
  <1>3. \A c \in Bridges \ {b} : jobOf'[c] = jobOf[c]
    BY <1>1, <1>2 DEF jobOf, JobOf
  <1>4. grantOf' = [grantOf EXCEPT ![b] = grantOf'[b]]
    <2>1. grantOf = [c \in Bridges |-> grantOf[c]] /\ grantOf' = [c \in Bridges |-> grantOf'[c]]
      BY DEF grantOf
    <2> QED BY <1>2, <2>1
  <1>5. jobOf' = [jobOf EXCEPT ![b] = jobOf'[b]]
    <2>1. jobOf = [c \in Bridges |-> jobOf[c]] /\ jobOf' = [c \in Bridges |-> jobOf'[c]]
      BY DEF jobOf
    <2> QED BY <1>3, <2>1
  <1> QED BY <1>1, <1>4, <1>5

\* A bridge stops asking, or goes on without: that is a lapse or no step at all.
LEMMA OneGivesUp ==
    ASSUME TypeOK, NEW b \in Bridges, UNCHANGED <<granted, late, applies>>,
           NEW r, bridge' = [bridge EXCEPT ![b] = r], r.at \notin {"wait", "approved", "applying"}
    PROVE  [App!Next]_(App!vars)
  <1>1. grantOf' = [grantOf EXCEPT ![b] = "none"]
    BY DEF grantOf, TypeOK
  <1>2. jobOf' = [jobOf EXCEPT ![b] = None]
    BY <1>1 DEF jobOf, grantOf, JobOf, TypeOK
  <1>3. CASE grantOf[b] = "none"
    <2>1. grantOf' = grantOf
      BY <1>1, <1>3 DEF grantOf
    <2>2. jobOf' = jobOf
      BY <1>2, <1>3 DEF jobOf
    <2> QED BY <2>1, <2>2 DEF App!vars
  <1>4. CASE grantOf[b] # "none"
    BY <1>1, <1>2, <1>4 DEF App!Next, App!Lapse, App!Ends
  <1> QED BY <1>3, <1>4

\* A bridge that keeps its grant and its job is seen as before.
LEMMA OneGoesOn ==
    ASSUME TypeOK, NEW b \in Bridges, UNCHANGED <<granted, late, applies>>,
           bridge[b].at \in {"wait", "approved", "applying"},
           NEW at \in {"wait", "approved", "applying"}, bridge' = [bridge EXCEPT ![b].at = at]
    PROVE  [App!Next]_(App!vars)
  <1>1. grantOf' = grantOf
    BY DEF grantOf, TypeOK
  <1>2. jobOf' = jobOf
    BY <1>1 DEF jobOf, JobOf, TypeOK
  <1> QED BY <1>1, <1>2 DEF App!vars

LEMMA StepsImplement ==
    ASSUME IInv, IInv', [Next]_vars
    PROVE  [App!Next]_(App!vars)
  <1> USE NoneAssumption DEF IInv, Base
  <1>1. ASSUME NEW b \in Bridges, Running(b) PROVE [App!Next]_(App!vars)
    <2>1. bridge' = [bridge EXCEPT ![b] = [bridge[b] EXCEPT !.at = "planning"]]
      BY <1>1 DEF Running, Goes, TypeOK
    <2>2. [bridge[b] EXCEPT !.at = "planning"].at \notin {"wait", "approved", "applying"}
      BY DEF TypeOK
    <2> QED BY <1>1, <2>1, <2>2, OneGivesUp DEF Running, history
  <1>2. ASSUME NEW b \in Bridges, Execute(b) PROVE [App!Next]_(App!vars)
    <2>1. PICK s : bridge' = [bridge EXCEPT ![b].at = "post", ![b].result = s]
      BY <1>2 DEF Execute
    <2> DEFINE r == [bridge[b] EXCEPT !.at = "post", !.result = s]
    <2>2. bridge' = [bridge EXCEPT ![b] = r]
      BY <2>1 DEF TypeOK
    <2>3. r.at \notin {"wait", "approved", "applying"}
      BY DEF TypeOK
    <2> QED BY <1>2, <2>2, <2>3, OneGivesUp DEF Execute, history
  <1>3. ASSUME NEW b \in Bridges, PostPlan(b), bridge' # [bridge EXCEPT ![b] = Polling]
        PROVE  [App!Next]_(App!vars)
    <2> DEFINE j == JobOf(b)
    <2>1. /\ bridge' = [bridge EXCEPT ![b].at = "wait"] /\ At(b, "post")
          /\ status' = [status EXCEPT ![j] = "awaiting_approve"]
          /\ UNCHANGED <<granted, late, applies>>
      BY <1>3 DEF PostPlan, Goes, PostOk, Arrives, history
    <2>2. j \in Jobs
      BY <2>1 DEF StageInv, TypeOK, JobOf, At
    <2>3. grantOf[b] = "none"
      BY <2>1 DEF grantOf, At
    <2>4. \A c \in Bridges \ {b} : jobOf[c] = j => b \in late \/ c \in late
      BY <2>2 DEF jobOf, LeaseInv
    <2>5. CASE b \notin granted
      <3> DEFINE r == [bridge[b] EXCEPT !.at = "wait"]
      <3>1. bridge' = [bridge EXCEPT ![b] = r] /\ r.at = "wait" /\ r.job = j
        BY <2>1 DEF TypeOK, JobOf
      <3>2. /\ bridge'[b] = r
            /\ grantOf' = [grantOf EXCEPT ![b] = grantOf'[b]]
            /\ jobOf' = [jobOf EXCEPT ![b] = jobOf'[b]]
        <4> HIDE DEF r
        <4> QED BY <2>1, <3>1, SeenOfOne
      <3>3. grantOf'[b] = "asked"
        BY <2>1, <2>5, <3>1, <3>2 DEF grantOf
      <3>4. jobOf'[b] = j
        BY <3>1, <3>2, <3>3 DEF jobOf, JobOf
      <3> QED BY <2>1, <2>2, <2>3, <2>4, <3>2, <3>3, <3>4 DEF App!Next, App!Ask
    <2>6. CASE b \in granted
      BY <2>1, <2>6 DEF GrantInv, Granted, At
    <2> QED BY <2>5, <2>6
  <1>4. ASSUME NEW b \in Bridges, NEW r \in {Polling, Stopped}, bridge' = [bridge EXCEPT ![b] = r],
               PostPlan(b) \/ Decision(b) \/ ApproveWaitEnds(b) \/ PostApplied(b) \/ Stop(b) \/ Start(b)
        PROVE  [App!Next]_(App!vars)
    <2>1. UNCHANGED <<granted, late, applies>>
      BY <1>4 DEF PostPlan, Decision, ApproveWaitEnds, PostApplied, Stop, Start, history
    <2>2. r.at \notin {"wait", "approved", "applying"}
      BY DEF Polling, Stopped
    <2> QED BY <1>4, <2>1, <2>2, OneGivesUp
  <1>5. ASSUME NEW b \in Bridges, PostPlan(b) \/ ApproveWaitEnds(b) \/ PostApplied(b) \/ Stop(b) \/ Start(b)
        PROVE  [App!Next]_(App!vars)
    <2>1. \/ PostPlan(b) /\ bridge' # [bridge EXCEPT ![b] = Polling]
          \/ bridge' = [bridge EXCEPT ![b] = Polling]
          \/ bridge' = [bridge EXCEPT ![b] = Stopped]
      BY <1>5 DEF ApproveWaitEnds, PostApplied, Stop, Start
    <2> QED BY <1>3, <1>4, <1>5, <2>1
  <1>6. ASSUME NEW b \in Bridges, Decision(b) PROVE [App!Next]_(App!vars)
    <2>1. At(b, "wait") /\ UNCHANGED <<granted, late, applies>>
      BY <1>6 DEF Decision, history
    <2>2. CASE bridge' = [bridge EXCEPT ![b].at = "approved"]
      BY <2>1, <2>2, OneGoesOn DEF At
    <2> QED BY <1>4, <1>6, <2>2 DEF Decision, Goes
  <1>7. ASSUME NEW b \in Bridges, Applying(b) PROVE [App!Next]_(App!vars)
    BY <1>7, OneGoesOn DEF Applying, Goes, At, history
  <1>8. ASSUME NEW b \in Bridges, ExecuteApply(b) PROVE [App!Next]_(App!vars)
    <2> DEFINE j == JobOf(b)
    <2>1. At(b, "applying") /\ j \in Jobs /\ b \in granted
      BY <1>8 DEF ExecuteApply, StageInv, GrantInv, Granted, TypeOK, JobOf, At
    <2>2. PICK r : bridge' = [bridge EXCEPT ![b].at = "report", ![b].result = r]
      BY <1>8 DEF ExecuteApply
    <2>3. /\ late' = late /\ granted' = granted \ {b}
          /\ applies' = [applies EXCEPT ![j] = @ + 1]
      BY <1>8 DEF ExecuteApply
    <2>4. grantOf[b] = "granted" /\ jobOf[b] = j
      BY <2>1 DEF grantOf, jobOf, At
    <2> DEFINE q == [bridge[b] EXCEPT !.at = "report", !.result = r]
    <2>5. bridge' = [bridge EXCEPT ![b] = q] /\ q.at = "report"
      <3>1. bridge' = [bridge EXCEPT ![b] = q]
        BY <2>2 DEF TypeOK
      <3>2. q.at = "report"
        BY DEF TypeOK
      <3> QED BY <3>1, <3>2
    <2>6. /\ bridge'[b] = q
          /\ grantOf' = [grantOf EXCEPT ![b] = grantOf'[b]]
          /\ jobOf' = [jobOf EXCEPT ![b] = jobOf'[b]]
      <3> HIDE DEF q
      <3> QED BY <2>3, <2>5, SeenOfOne
    <2>7. bridge'[b].at = "report"
      BY <2>5, <2>6
    <2>8. grantOf'[b] = "none"
      BY <2>7 DEF grantOf
    <2>9. jobOf'[b] = None
      BY <2>8 DEF jobOf
    <2> QED BY <2>3, <2>4, <2>6, <2>8, <2>9 DEF App!Next, App!Apply, App!Ends
  <1>9. ASSUME NEW b \in Bridges, NEW j \in Jobs, Claim(b, j) PROVE [App!Next]_(App!vars)
    <2>1. At(b, "poll") /\ applies' = applies
      BY <1>9 DEF Claim
    <2>2. CASE UNCHANGED <<bridge, granted, late>>
      BY <2>1, <2>2, SeenApart DEF App!vars
    <2>3. CASE /\ bridge' = [bridge EXCEPT ![b] = [Polling EXCEPT !.at = "plan", !.job = j]]
               /\ granted' = granted \ {b} /\ late' = late \ {b}
      <3>1. grantOf' = grantOf /\ grantOf[b] = "none"
        BY <2>1, <2>3 DEF grantOf, TypeOK, At, Polling
      <3>2. jobOf' = jobOf
        BY <2>1, <2>3, <3>1 DEF jobOf, grantOf, JobOf, TypeOK, At, Polling
      <3> QED BY <2>1, <2>3, <3>1, <3>2 DEF App!Next, App!Return
    <2> QED BY <1>9, <2>2, <2>3 DEF Claim
  <1>10. ASSUME NEW j \in Jobs, Approve(j) PROVE [App!Next]_(App!vars)
    <2>1. UNCHANGED <<bridge, late, applies>> /\ status[j] \in Awaiting
      BY <1>10 DEF Approve
    <2>2. CASE granted' = granted
      BY <2>1, <2>2, SeenApart DEF App!vars
    <2>3. CASE granted' = granted \cup {b \in Bridges : At(b, "wait") /\ JobOf(b) = j}
      <3>1. \A b \in Bridges : grantOf[b] = "asked" => At(b, "wait")
        BY DEF grantOf, GrantInv, Granted, At
      <3>2. \A b \in Bridges : grantOf'[b] = IF jobOf[b] = j /\ grantOf[b] = "asked" THEN "granted" ELSE grantOf[b]
        BY <2>1, <2>3, <3>1 DEF grantOf, jobOf, JobOf, At
      <3>3. grantOf' = [b \in Bridges |-> IF jobOf[b] = j /\ grantOf[b] = "asked" THEN "granted" ELSE grantOf[b]]
        BY <3>2 DEF grantOf
      <3>4. jobOf' = jobOf
        BY <2>1, <2>3 DEF jobOf, grantOf, JobOf
      <3> QED BY <2>1, <3>3, <3>4 DEF App!Next, App!Grant
    <2> QED BY <1>10, <2>2, <2>3 DEF Approve
  <1>11. ASSUME NEW j \in Jobs, Deny(j) \/ Cancel(j) PROVE [App!Next]_(App!vars)
    BY <1>11, SeenApart DEF Deny, Cancel, history, App!vars
  <1>12. ASSUME NEW j \in Jobs, LeaseExpires(j) PROVE [App!Next]_(App!vars)
    <2>1. UNCHANGED <<bridge, granted, applies>>
      BY <1>12 DEF LeaseExpires
    <2>2. late' = late \/ (\E b \in Bridges : late' = late \cup {b})
      <3>1. late' = late \cup {b \in Bridges : lease[j] = b /\ JobOf(b) = j}
        BY <1>12 DEF LeaseExpires
      <3> QED BY <3>1
    <2> QED BY <2>1, <2>2, SeenApart DEF App!Next, App!Overrun, App!vars
  <1>13. CASE UNCHANGED vars
    BY <1>13, SeenApart DEF vars, history, App!vars
  <1> QED
    BY <1>1, <1>2, <1>5, <1>6, <1>7, <1>8, <1>9, <1>10, <1>11, <1>12, <1>13 DEF Next, Listen

\* Consented, of every execution: a team run is applied by a bridge only after an
\* approval given while its own plan waited, once for each; and two bridges have a
\* plan of one job before the people only when one of them lost its lease at work.
THEOREM ImplementsConsent == Spec => Consented
  <1>1. Init => App!Init
    BY DEF Init, App!Init, grantOf, jobOf, Polling
  <1>2. IInv /\ IInv' /\ [Next]_vars => [App!Next]_(App!vars)
    BY StepsImplement
  <1> QED BY <1>1, <1>2, IInvHolds, PTL DEF Spec, App!Spec, Consented

(***************************************************************************)
(* Watch: for any cluster, any resources asked for and any number of       *)
(* changes and failures.  The argument: the version of an object's last    *)
(* delivery is that of one of its changes and never beyond the version its *)
(* stream goes on from, so that neither a list nor a stream can hand out   *)
(* an older one; a pause was doubled at least once for every failure in a  *)
(* row but the last.                                                       *)
(***************************************************************************)

\* What is told of a change, and the version it gives its object.
Told == [obj : Objects, state : AnyState]
Own(o, v) == v = 0 \/ (v \in DOMAIN changes /\ changes[v].obj = o)

ClusterInv ==
    /\ changes \in Seq(Told) /\ Len(changes) <= MaxChanges
    /\ cluster \in [Objects -> {Absent} \cup AnyState]
    /\ \A o \in Objects : Own(o, seen[o].version)

\* What a goroutine has listed and not handed over yet is newer than what was
\* handed over, of its own resource, and one entry per object.
TodoInv ==
    \A r \in resources :
        /\ loop[r].at # "emit" => loop[r].todo = {}
        /\ \A e \in loop[r].todo :
               /\ Kind[e.obj] = r /\ Own(e.obj, e.version)
               /\ seen[e.obj].version <= e.version /\ e.version <= loop[r].version
        /\ \A e, f \in loop[r].todo : e.obj = f.obj => e = f

\* The stream goes on from a version not before anything handed over.
VersionInv ==
    \A r \in resources :
        /\ loop[r].version <= Now
        /\ \A o \in Objects : Kind[o] = r => seen[o].version <= loop[r].version

DeliveryInv == ClusterInv /\ TodoInv /\ VersionInv

Doubled(times) == IF times < MaxBackoff THEN times ELSE MaxBackoff

BackoffInv ==
    /\ failed \in [resources -> Nat]
    /\ \A r \in resources :
        /\ loop[r].at \in {"list", "emit"} => loop[r].backoff >= Doubled(failed[r])
        /\ loop[r].at = "consume" => failed[r] = 0

ReturnInv == returned => cancelled /\ \A r \in resources : LoopAt(r, "left")

WatchInv == WatchTypeOK /\ DeliveryInv /\ BackoffInv /\ BacksOff /\ ReturnInv

-------------------------------------------------------------------------------

LEMMA Largest ==
    ASSUME NEW n \in Nat, NEW T \in SUBSET (0..n), T # {}
    PROVE  \E x \in T : \A y \in T : y <= x
  <1> DEFINE D == {n - x : x \in T}
             R == OpToRel(<, Nat)
  <1>1. D \subseteq Nat /\ D # {}
    <2>1. \A x \in T : n - x \in Nat
      OBVIOUS
    <2> QED BY <2>1
  <1>2. PICK d \in D : \A y \in D : ~(<<y, d>> \in R)
    <2>1. IsWellFoundedOn(R, Nat)
      BY NatLessThanWellFounded
    <2> HIDE DEF D, R
    <2> QED BY <1>1, <2>1, WFMin
  <1>3. \A y \in D : ~(y < d)
    BY <1>1, <1>2 DEF OpToRel
  <1>4. PICK x \in T : d = n - x
    BY <1>2
  <1>5. \A y \in T : ~(n - y < n - x)
    BY <1>3, <1>4
  <1> QED BY <1>5

LEMMA Numbers ==
    /\ Now \in Nat /\ Len(changes) <= MaxChanges => 0 \in Versions /\ Now \in Versions
    /\ \A v \in Versions : v \in Nat /\ v <= MaxChanges
    /\ \A b \in Backoffs : b \in Nat /\ b <= MaxBackoff
    /\ MaxBackoff \in Nat /\ 0 \in Backoffs
  BY BoundsAssumption DEF Versions, Backoffs, Now

\* The version of an object is that of its last change.
LEMMA VersionOfLast ==
    ASSUME changes \in Seq(Told), NEW o \in Objects
    PROVE  /\ VersionOf(o) \in 0..Now /\ Own(o, VersionOf(o))
           /\ \A v : Own(o, v) => v <= VersionOf(o)
  <1> DEFINE own == {i \in DOMAIN changes : changes[i].obj = o}
  <1>1. Now \in Nat /\ DOMAIN changes = 1..Now
    BY DEF Now
  <1>2. CASE own = {}
    <2>1. VersionOf(o) = 0
      BY <1>2 DEF VersionOf
    <2>2. \A v : Own(o, v) => v = 0
      BY <1>2 DEF Own
    <2> QED BY <1>1, <2>1, <2>2 DEF Own
  <1>3. CASE own # {}
    <2>1. own \in SUBSET (0..Now)
      BY <1>1
    <2>2. \E i \in own : \A j \in own : j <= i
      <3> HIDE DEF own
      <3> QED BY <1>1, <1>3, <2>1, Largest
    <2>3. VersionOf(o) = CHOOSE i \in own : \A j \in own : j <= i
      BY <1>3 DEF VersionOf
    <2> HIDE DEF own
    <2>4. VersionOf(o) \in own /\ \A j \in own : j <= VersionOf(o)
      BY <2>2, <2>3
    <2>5. VersionOf(o) \in 0..Now /\ Own(o, VersionOf(o))
      BY <2>1, <2>4 DEF own, Own
    <2>6. ASSUME NEW v, Own(o, v) PROVE v <= VersionOf(o)
      <3>1. CASE v = 0
        BY <1>1, <2>5, <3>1
      <3>2. CASE v # 0
        BY <2>4, <2>6, <3>2 DEF own, Own
      <3> QED BY <3>1, <3>2
    <2> QED BY <2>5, <2>6
  <1> QED BY <1>2, <1>3

LEMMA VerdictTyped ==
    ASSUME NEW r, NEW s
    PROVE  Verdict(r, s) \in {"problem", "recovery", "none"}
  BY DEF Verdict

LEMMA InitIInv == WatchInit => WatchInv
  <1> SUFFICES ASSUME WatchInit PROVE WatchInv
    OBVIOUS
  <1>1. resources # {}
    BY DEF WatchInit, NormalizeResources
  <1>2. Listing \in LoopType
    BY Numbers, BoundsAssumption DEF Listing, LoopType, Versions
  <1>3. /\ \A r \in resources : loop[r] = Listing /\ failed[r] = 0
        /\ loop \in [resources -> LoopType] /\ failed \in [resources -> Nat]
    BY <1>2 DEF WatchInit
  <1>4. changes = <<>> /\ Now = 0 /\ returned = FALSE /\ failures = 0
    BY DEF WatchInit, Now
  <1>5. \A o \in Objects : /\ cluster[o] \in {Absent} \cup States[o]
                           /\ seen[o] = [version |-> 0, verdict |-> "none"]
    BY DEF WatchInit
  <1>6. [version |-> 0, verdict |-> "none"] \in SeenType
    BY BoundsAssumption DEF SeenType, Versions
  <1>7. WatchTypeOK
    BY <1>1, <1>3, <1>4, <1>5, <1>6, BoundsAssumption DEF WatchTypeOK, WatchInit
  <1>8. ClusterInv
    BY <1>4, <1>5, BoundsAssumption DEF ClusterInv, Own, WatchInit, AnyState, Now
  <1>9. TodoInv /\ VersionInv
    BY <1>3, <1>4, <1>5 DEF TodoInv, VersionInv, Listing
  <1>10. BackoffInv /\ BacksOff
    BY <1>3, BoundsAssumption DEF BackoffInv, BacksOff, Doubled, Listing, LoopAt
  <1>11. ReturnInv
    BY <1>4 DEF ReturnInv
  <1> QED BY <1>7, <1>8, <1>9, <1>10, <1>11 DEF WatchInv, DeliveryInv

\* A goroutine that hands over nothing and keeps its version leaves what was
\* and will be delivered as it is.
LEMMA AsideDelivery ==
    ASSUME DeliveryInv, NEW r \in resources, UNCHANGED <<resources, cluster, changes, seen>>,
           \A q \in resources \ {r} : loop'[q] = loop[q],
           loop[r].todo = {}, loop'[r].todo = {}, loop'[r].version = loop[r].version
    PROVE  DeliveryInv'
  <1>1. ClusterInv'
    BY DEF DeliveryInv, ClusterInv, Own
  <1>2. TodoInv'
    BY DEF DeliveryInv, TodoInv, Own
  <1>3. VersionInv'
    BY DEF DeliveryInv, VersionInv, Now
  <1> QED BY <1>1, <1>2, <1>3 DEF DeliveryInv

LEMMA ListIInv == ASSUME WatchInv, NEW r \in resources, List(r) PROVE WatchInv'
  <1> DEFINE todo == {[obj |-> o, version |-> VersionOf(o), state |-> cluster[o]] : o \in Initial(r)}
  <1>1. /\ LoopAt(r, "list") /\ ~cancelled
        /\ loop' = [loop EXCEPT ![r].at = "emit", ![r].version = Now, ![r].todo = todo]
        /\ UNCHANGED <<resources, cluster, changes, failures, cancelled, returned, seen, failed>>
    BY DEF List
  <1>2. /\ loop \in [resources -> LoopType] /\ loop[r] \in LoopType
        /\ \A o \in Objects : cluster[o] \in {Absent} \cup States[o]
    BY DEF WatchInv, WatchTypeOK
  <1>3. changes \in Seq(Told) /\ Len(changes) <= MaxChanges /\ Now \in Nat
    BY DEF WatchInv, DeliveryInv, ClusterInv, Now
  <1>4. \A o \in Objects : /\ VersionOf(o) \in Versions /\ VersionOf(o) <= Now /\ Own(o, VersionOf(o))
                           /\ \A v : Own(o, v) => v <= VersionOf(o)
    BY <1>3, VersionOfLast, BoundsAssumption DEF Versions, Now
  <1>5. \A o \in Initial(r) : o \in Objects /\ Kind[o] = r /\ cluster[o] \in AnyState
    BY <1>2 DEF Initial, Watched, AnyState
  <1>6. todo \subseteq Entries
    BY <1>4, <1>5 DEF Entries
  <1> HIDE DEF todo
  <1>7. /\ loop' \in [resources -> LoopType]
        /\ \A q \in resources \ {r} : loop'[q] = loop[q]
        /\ loop'[r].at = "emit" /\ loop'[r].version = Now /\ loop'[r].todo = todo
        /\ loop'[r].backoff = loop[r].backoff
    BY <1>1, <1>2, <1>3, <1>6, Numbers DEF LoopType
  <1>8. WatchTypeOK'
    BY <1>1, <1>7 DEF WatchInv, WatchTypeOK
  <1>9. ClusterInv'
    BY <1>1 DEF WatchInv, DeliveryInv, ClusterInv, Own
  <1>10. \A o \in Objects : seen[o].version <= Now /\ seen[o].version <= VersionOf(o)
    <2>1. ASSUME NEW o \in Objects PROVE seen[o].version <= Now /\ seen[o].version <= VersionOf(o)
      <3>1. Own(o, seen[o].version)
        BY DEF WatchInv, DeliveryInv, ClusterInv
      <3>2. seen[o].version \in Nat
        <4>1. seen[o].version \in Versions
          BY DEF WatchInv, WatchTypeOK, SeenType
        <4> QED BY <4>1, Numbers
      <3>3. VersionOf(o) \in Nat
        BY <1>4, Numbers
      <3> QED BY <1>3, <1>4, <3>1, <3>2, <3>3
    <2> QED BY <2>1
  <1>11. TodoInv'
    <2>1. ASSUME NEW e \in todo
          PROVE  /\ Kind[e.obj] = r /\ Own(e.obj, e.version) /\ seen[e.obj].version <= e.version
                 /\ e.version <= Now /\ e.obj \in Objects /\ e.version = VersionOf(e.obj)
                 /\ e.state = cluster[e.obj]
      BY <1>4, <1>5, <1>10 DEF todo
    <2>2. \A e, f \in todo : e.obj = f.obj => e = f
      BY DEF todo
    <2>3. \A e \in todo : Own(e.obj, e.version)'
      BY <1>1, <2>1 DEF Own
    <2>4. \A q \in resources \ {r} : \A e \in loop'[q].todo : Own(e.obj, e.version)'
      BY <1>1, <1>7 DEF WatchInv, DeliveryInv, TodoInv, Own
    <2> QED BY <1>1, <1>7, <2>1, <2>2, <2>3, <2>4 DEF WatchInv, DeliveryInv, TodoInv
  <1>12. VersionInv'
    <2>1. Now' = Now /\ Now <= Now
      BY <1>1, <1>3 DEF Now
    <2> QED BY <1>1, <1>7, <1>10, <2>1 DEF WatchInv, DeliveryInv, VersionInv
  <1>13. BackoffInv' /\ BacksOff' /\ ReturnInv'
    BY <1>1, <1>7 DEF WatchInv, BackoffInv, BacksOff, ReturnInv, LoopAt
  <1> QED BY <1>8, <1>9, <1>11, <1>12, <1>13 DEF WatchInv, DeliveryInv

\* The handler is told of an object of r, in a version not before the last.
LEMMA DeliverEffect ==
    ASSUME WatchInv, NEW o \in Objects, NEW v \in Versions, NEW s, Deliver(o, v, s)
    PROVE  /\ seen' \in [Objects -> SeenType]
           /\ seen'[o].version = v
           /\ \A p \in Objects \ {o} : seen'[p] = seen[p]
  <1>1. [version |-> v, verdict |-> Verdict(Kind[o], s)] \in SeenType
    BY VerdictTyped DEF SeenType
  <1>2. seen \in [Objects -> SeenType]
    BY DEF WatchInv, WatchTypeOK
  <1> QED BY <1>1, <1>2 DEF Deliver

LEMMA EmitIInv ==
    ASSUME WatchInv, NEW r \in resources, Emit(r)
    PROVE  WatchInv' /\ \A o \in Objects : seen'[o].version >= seen[o].version
  <1>1. PICK e \in loop[r].todo : /\ Deliver(e.obj, e.version, e.state)
                                  /\ loop' = [loop EXCEPT ![r].todo = @ \ {e}]
    BY DEF Emit
  <1>2. /\ loop[r].at = "emit"
        /\ UNCHANGED <<resources, cluster, changes, failures, cancelled, returned, failed>>
    BY DEF Emit, LoopAt
  <1>3. /\ loop \in [resources -> LoopType] /\ loop[r] \in LoopType /\ e \in Entries
        /\ e.obj \in Objects /\ e.version \in Versions
    BY <1>1 DEF WatchInv, WatchTypeOK, LoopType, Entries
  <1>4. /\ seen' \in [Objects -> SeenType]
        /\ seen'[e.obj].version = e.version
        /\ \A p \in Objects \ {e.obj} : seen'[p] = seen[p]
    BY <1>1, <1>3, DeliverEffect
  <1>5. /\ loop' \in [resources -> LoopType]
        /\ \A q \in resources \ {r} : loop'[q] = loop[q]
        /\ loop'[r].at = "emit" /\ loop'[r].version = loop[r].version
        /\ loop'[r].todo = loop[r].todo \ {e} /\ loop'[r].backoff = loop[r].backoff
    BY <1>1, <1>2, <1>3 DEF LoopType
  <1>6. /\ Kind[e.obj] = r /\ Own(e.obj, e.version) /\ seen[e.obj].version <= e.version
        /\ e.version <= loop[r].version
        /\ \A f \in loop[r].todo : e.obj = f.obj => e = f
    BY <1>1 DEF WatchInv, DeliveryInv, TodoInv
  <1>7. \A q \in resources : \A f \in loop[q].todo :
            f.obj \in Objects /\ Kind[f.obj] = q /\ seen[f.obj].version <= f.version
    BY DEF WatchInv, DeliveryInv, TodoInv, WatchTypeOK, LoopType, Entries
  <1>8. WatchTypeOK'
    BY <1>2, <1>4, <1>5 DEF WatchInv, WatchTypeOK
  <1>9. ClusterInv'
    BY <1>2, <1>3, <1>4, <1>6 DEF WatchInv, DeliveryInv, ClusterInv, Own
  <1>10. TodoInv'
    <2>1. \A q \in resources : \A f \in loop'[q].todo :
              f \in loop[q].todo /\ f.obj # e.obj
      BY <1>5, <1>6, <1>7
    <2>2. \A q \in resources : \A f \in loop'[q].todo : seen'[f.obj].version <= f.version
      BY <1>4, <1>7, <2>1
    <2>3. \A q \in resources : loop'[q].at = loop[q].at /\ loop'[q].version = loop[q].version
      BY <1>2, <1>5
    <2>4. \A q \in resources : \A f \in loop'[q].todo : Own(f.obj, f.version)'
      BY <1>2, <2>1 DEF WatchInv, DeliveryInv, TodoInv, Own
    <2>5. \A q \in resources : \A f \in loop'[q].todo :
              Kind[f.obj] = q /\ f.version <= loop'[q].version
      BY <2>1, <2>3 DEF WatchInv, DeliveryInv, TodoInv
    <2>6. \A q \in resources : \A f, g \in loop'[q].todo : f.obj = g.obj => f = g
      BY <2>1 DEF WatchInv, DeliveryInv, TodoInv
    <2>7. \A q \in resources : loop'[q].at # "emit" => loop'[q].todo = {}
      BY <1>2, <1>5 DEF WatchInv, DeliveryInv, TodoInv
    <2> QED BY <1>2, <2>2, <2>4, <2>5, <2>6, <2>7 DEF TodoInv
  <1>11. VersionInv'
    <2>1. Now' = Now
      BY <1>2 DEF Now
    <2>2. \A q \in resources : loop'[q].version = loop[q].version
      BY <1>5
    <2> QED BY <1>2, <1>3, <1>4, <1>6, <2>1, <2>2 DEF WatchInv, DeliveryInv, VersionInv
  <1>12. BackoffInv' /\ BacksOff'
    BY <1>2, <1>5 DEF WatchInv, BackoffInv, BacksOff, LoopAt
  <1>13. ReturnInv'
    BY <1>2, <1>5 DEF WatchInv, ReturnInv, LoopAt
  <1>14. ASSUME NEW o \in Objects PROVE seen'[o].version >= seen[o].version
    <2>1. seen[o].version \in Nat /\ e.version \in Nat
      <3>1. seen[o].version \in Versions
        BY DEF WatchInv, WatchTypeOK, SeenType
      <3> QED BY <1>3, <3>1, Numbers
    <2> QED BY <1>4, <1>6, <2>1
  <1> QED BY <1>8, <1>9, <1>10, <1>11, <1>12, <1>13, <1>14 DEF WatchInv, DeliveryInv

LEMMA ConsumeIInv ==
    ASSUME WatchInv, NEW r \in resources, Consume(r)
    PROVE  WatchInv' /\ \A o \in Objects : seen'[o].version >= seen[o].version
  <1>1. PICK i \in Pending(r) : /\ Deliver(changes[i].obj, i, changes[i].state)
                                /\ loop' = [loop EXCEPT ![r].version = i]
    BY DEF Consume
  <1> DEFINE o == changes[i].obj
  <1>2. /\ loop[r].at = "consume"
        /\ UNCHANGED <<resources, cluster, changes, failures, cancelled, returned, failed>>
    BY DEF Consume, LoopAt
  <1>3. changes \in Seq(Told) /\ Now \in Nat /\ Len(changes) <= MaxChanges /\ DOMAIN changes = 1..Now
    BY DEF WatchInv, DeliveryInv, ClusterInv, Now
  <1>4. i \in 1..Now /\ i > loop[r].version /\ Kind[o] = r /\ o \in Objects /\ Own(o, i)
    <2>1. i \in DOMAIN changes /\ i > loop[r].version /\ Kind[o] = r
      BY <1>1 DEF Pending
    <2>2. changes[i] \in Told
      BY <1>3, <2>1
    <2> QED BY <1>3, <2>1, <2>2 DEF Told, Own
  <1>5. i \in Versions /\ i \in Nat /\ i <= Now
    BY <1>3, <1>4, BoundsAssumption DEF Versions, Now
  <1> HIDE DEF o
  <1>6. /\ loop \in [resources -> LoopType] /\ loop[r] \in LoopType
        /\ loop[r].version \in Nat
    <2>1. loop \in [resources -> LoopType] /\ loop[r].version \in Versions
      BY DEF WatchInv, WatchTypeOK, LoopType
    <2> QED BY <2>1, Numbers
  <1>7. /\ seen' \in [Objects -> SeenType]
        /\ seen'[o].version = i
        /\ \A p \in Objects \ {o} : seen'[p] = seen[p]
    BY <1>1, <1>4, <1>5, DeliverEffect DEF o
  <1>8. /\ loop' \in [resources -> LoopType]
        /\ \A q \in resources \ {r} : loop'[q] = loop[q]
        /\ loop'[r].at = "consume" /\ loop'[r].version = i
        /\ loop'[r].todo = loop[r].todo /\ loop'[r].backoff = loop[r].backoff
    BY <1>1, <1>2, <1>5, <1>6 DEF LoopType
  <1>9. \A p \in Objects : seen[p].version \in Nat /\ (Kind[p] = r => seen[p].version <= loop[r].version)
    <2>1. \A p \in Objects : seen[p].version \in Versions
      BY DEF WatchInv, WatchTypeOK, SeenType
    <2> QED BY <2>1, Numbers DEF WatchInv, DeliveryInv, VersionInv
  <1>10. WatchTypeOK'
    BY <1>2, <1>7, <1>8 DEF WatchInv, WatchTypeOK
  <1>11. ClusterInv'
    BY <1>2, <1>4, <1>7 DEF WatchInv, DeliveryInv, ClusterInv, Own
  <1>12. TodoInv'
    <2>1. loop[r].todo = {} /\ loop'[r].todo = {}
      BY <1>2, <1>8 DEF WatchInv, DeliveryInv, TodoInv
    <2>2. \A q \in resources \ {r} : \A f \in loop[q].todo :
              f.obj \in Objects /\ Kind[f.obj] = q /\ seen[f.obj].version <= f.version
      BY DEF WatchInv, DeliveryInv, TodoInv, WatchTypeOK, LoopType, Entries
    <2>3. \A q \in resources \ {r} : \A f \in loop'[q].todo : seen'[f.obj].version <= f.version
      BY <1>4, <1>7, <1>8, <2>2
    <2>4. \A q \in resources : \A f \in loop'[q].todo : Own(f.obj, f.version)'
      BY <1>2, <1>8, <2>1 DEF WatchInv, DeliveryInv, TodoInv, Own
    <2> QED BY <1>2, <1>8, <2>1, <2>3, <2>4 DEF WatchInv, DeliveryInv, TodoInv
  <1>13. VersionInv'
    <2>1. Now' = Now
      BY <1>2 DEF Now
    <2>2. ASSUME NEW p \in Objects, Kind[p] = r PROVE seen'[p].version <= i
      BY <1>4, <1>5, <1>6, <1>7, <1>9, <2>2
    <2>3. ASSUME NEW p \in Objects, NEW q \in resources, Kind[p] = q, q # r
          PROVE  seen'[p].version <= loop'[q].version
      BY <1>4, <1>7, <1>8, <2>3 DEF WatchInv, DeliveryInv, VersionInv
    <2> QED BY <1>2, <1>5, <1>8, <2>1, <2>2, <2>3 DEF WatchInv, DeliveryInv, VersionInv
  <1>14. BackoffInv' /\ BacksOff'
    BY <1>2, <1>8 DEF WatchInv, BackoffInv, BacksOff, LoopAt
  <1>15. ReturnInv'
    BY <1>2, <1>8 DEF WatchInv, ReturnInv, LoopAt
  <1>16. \A p \in Objects : seen'[p].version >= seen[p].version
    BY <1>4, <1>5, <1>6, <1>7, <1>9
  <1> QED BY <1>10, <1>11, <1>12, <1>13, <1>14, <1>15, <1>16 DEF WatchInv, DeliveryInv

LEMMA OpenIInv == ASSUME WatchInv, NEW r \in resources, Open(r) PROVE WatchInv'
  <1>1. /\ loop[r].at = "emit" /\ loop[r].todo = {} /\ ~cancelled
        /\ loop' = [loop EXCEPT ![r].at = "consume", ![r].backoff = 0]
        /\ failed' = [failed EXCEPT ![r] = 0]
        /\ UNCHANGED <<resources, cluster, changes, failures, cancelled, returned, seen>>
    BY DEF Open, Listed, LoopAt
  <1>2. loop \in [resources -> LoopType] /\ failed \in [resources -> Nat]
    BY DEF WatchInv, WatchTypeOK, BackoffInv
  <1>3. /\ loop' \in [resources -> LoopType]
        /\ \A q \in resources \ {r} : loop'[q] = loop[q]
        /\ loop'[r].at = "consume" /\ loop'[r].version = loop[r].version
        /\ loop'[r].todo = {} /\ loop'[r].backoff = 0
    BY <1>1, <1>2, Numbers DEF LoopType
  <1>4. WatchTypeOK'
    BY <1>1, <1>3 DEF WatchInv, WatchTypeOK
  <1>5. DeliveryInv'
    BY <1>1, <1>3, AsideDelivery DEF WatchInv
  <1>6. BackoffInv' /\ BacksOff'
    BY <1>1, <1>2, <1>3 DEF WatchInv, BackoffInv, BacksOff, LoopAt
  <1>7. ReturnInv'
    BY <1>1, <1>3 DEF WatchInv, ReturnInv, LoopAt
  <1> QED BY <1>4, <1>5, <1>6, <1>7 DEF WatchInv

LEMMA CallFailsIInv == ASSUME WatchInv, NEW r \in resources, CallFails(r) PROVE WatchInv'
  <1>1. /\ loop[r].at \in {"list", "emit"} /\ loop[r].todo = {}
        /\ failures < MaxFailures /\ failures' = failures + 1
        /\ loop' = [loop EXCEPT ![r].at = "sleep"]
        /\ failed' = [failed EXCEPT ![r] = @ + 1]
        /\ UNCHANGED <<resources, cluster, changes, cancelled, returned, seen>>
    BY DEF CallFails, Listed, LoopAt, WatchInv, DeliveryInv, TodoInv
  <1>2. loop \in [resources -> LoopType] /\ failed \in [resources -> Nat]
    BY DEF WatchInv, WatchTypeOK, BackoffInv
  <1>3. /\ loop' \in [resources -> LoopType]
        /\ \A q \in resources \ {r} : loop'[q] = loop[q]
        /\ loop'[r].at = "sleep" /\ loop'[r].version = loop[r].version
        /\ loop'[r].todo = {} /\ loop'[r].backoff = loop[r].backoff
    BY <1>1, <1>2 DEF LoopType
  <1>4. WatchTypeOK'
    <2>1. failures' \in 0..MaxFailures
      BY <1>1, BoundsAssumption DEF WatchInv, WatchTypeOK
    <2> QED BY <1>1, <1>3, <2>1 DEF WatchInv, WatchTypeOK
  <1>5. DeliveryInv'
    BY <1>1, <1>3, AsideDelivery DEF WatchInv
  <1>6. BackoffInv'
    BY <1>1, <1>2, <1>3 DEF WatchInv, BackoffInv
  <1>7. BacksOff'
    <2>1. loop[r].backoff >= Doubled(failed[r]) /\ failed'[r] = failed[r] + 1 /\ failed[r] \in Nat
      BY <1>1, <1>2 DEF WatchInv, BackoffInv
    <2>2. failed'[r] - 1 = failed[r]
      BY <2>1
    <2> QED BY <1>1, <1>2, <1>3, <2>1, <2>2 DEF WatchInv, BacksOff, LoopAt, Doubled
  <1>8. ReturnInv'
    BY <1>1, <1>3 DEF WatchInv, ReturnInv, LoopAt
  <1> QED BY <1>4, <1>5, <1>6, <1>7, <1>8 DEF WatchInv

LEMMA StreamEndsIInv == ASSUME WatchInv, NEW r \in resources, StreamEnds(r) PROVE WatchInv'
  <1>1. /\ loop[r].at = "consume" /\ loop[r].todo = {} /\ failed[r] = 0
        /\ failures < MaxFailures /\ failures' = failures + 1
        /\ loop' = [loop EXCEPT ![r].at = "sleep"]
        /\ UNCHANGED <<resources, cluster, changes, cancelled, returned, seen, failed>>
    BY DEF StreamEnds, LoopAt, WatchInv, DeliveryInv, TodoInv, BackoffInv
  <1>2. loop \in [resources -> LoopType]
    BY DEF WatchInv, WatchTypeOK
  <1>3. /\ loop' \in [resources -> LoopType]
        /\ \A q \in resources \ {r} : loop'[q] = loop[q]
        /\ loop'[r].at = "sleep" /\ loop'[r].version = loop[r].version
        /\ loop'[r].todo = {} /\ loop'[r].backoff = loop[r].backoff
    BY <1>1, <1>2 DEF LoopType
  <1>4. WatchTypeOK'
    <2>1. failures' \in 0..MaxFailures
      BY <1>1, BoundsAssumption DEF WatchInv, WatchTypeOK
    <2> QED BY <1>1, <1>3, <2>1 DEF WatchInv, WatchTypeOK
  <1>5. DeliveryInv'
    BY <1>1, <1>3, AsideDelivery DEF WatchInv
  <1>6. BackoffInv' /\ BacksOff'
    BY <1>1, <1>3 DEF WatchInv, BackoffInv, BacksOff, LoopAt
  <1>7. ReturnInv'
    BY <1>1, <1>3 DEF WatchInv, ReturnInv, LoopAt
  <1> QED BY <1>4, <1>5, <1>6, <1>7 DEF WatchInv

\* One more doubling makes up for the failure the pause was for.
LEMMA WakeIInv == ASSUME WatchInv, NEW r \in resources, Wake(r) PROVE WatchInv'
  <1>1. /\ loop[r].at = "sleep" /\ loop[r].todo = {}
        /\ loop' = [loop EXCEPT ![r].at = "list", ![r].backoff = nextBackoff(@)]
        /\ UNCHANGED <<resources, cluster, changes, failures, cancelled, returned, seen, failed>>
    BY DEF Wake, LoopAt, WatchInv, DeliveryInv, TodoInv
  <1>2. /\ loop \in [resources -> LoopType] /\ failed \in [resources -> Nat]
        /\ loop[r].backoff \in Backoffs
    BY DEF WatchInv, WatchTypeOK, BackoffInv, LoopType
  <1>3. nextBackoff(loop[r].backoff) \in Backoffs
    <2>1. \A b \in Backoffs : nextBackoff(b) \in Backoffs
      BY BoundsAssumption DEF Backoffs, nextBackoff
    <2> QED BY <1>2, <2>1
  <1>4. /\ loop' \in [resources -> LoopType]
        /\ \A q \in resources \ {r} : loop'[q] = loop[q]
        /\ loop'[r].at = "list" /\ loop'[r].version = loop[r].version
        /\ loop'[r].todo = {} /\ loop'[r].backoff = nextBackoff(loop[r].backoff)
    BY <1>1, <1>2, <1>3 DEF LoopType
  <1>5. WatchTypeOK'
    BY <1>1, <1>4 DEF WatchInv, WatchTypeOK
  <1>6. DeliveryInv'
    BY <1>1, <1>4, AsideDelivery DEF WatchInv
  <1>7. BackoffInv'
    <2>1. \A b \in Backoffs, f \in Nat :
              (f > 0 => b >= Doubled(f - 1)) => nextBackoff(b) >= Doubled(f)
      BY Numbers DEF nextBackoff, Doubled
    <2>2. failed[r] > 0 => loop[r].backoff >= Doubled(failed[r] - 1)
      BY <1>1 DEF WatchInv, BacksOff, LoopAt, Doubled
    <2>3. loop'[r].backoff >= Doubled(failed[r])
      BY <1>2, <1>4, <2>1, <2>2
    <2> QED BY <1>1, <1>4, <2>3 DEF WatchInv, BackoffInv
  <1>8. BacksOff' /\ ReturnInv'
    BY <1>1, <1>4 DEF WatchInv, BacksOff, ReturnInv, LoopAt
  <1> QED BY <1>5, <1>6, <1>7, <1>8 DEF WatchInv

LEMMA LeaveIInv == ASSUME WatchInv, NEW r \in resources, Leave(r) PROVE WatchInv'
  <1>1. /\ loop[r].todo = {}
        /\ loop' = [loop EXCEPT ![r].at = "left"]
        /\ UNCHANGED <<resources, cluster, changes, failures, cancelled, returned, seen, failed>>
    BY DEF Leave, LoopAt, Listed, WatchInv, DeliveryInv, TodoInv
  <1>2. loop \in [resources -> LoopType]
    BY DEF WatchInv, WatchTypeOK
  <1>3. /\ loop' \in [resources -> LoopType]
        /\ \A q \in resources \ {r} : loop'[q] = loop[q]
        /\ loop'[r].at = "left" /\ loop'[r].version = loop[r].version
        /\ loop'[r].todo = {} /\ loop'[r].backoff = loop[r].backoff
    BY <1>1, <1>2 DEF LoopType
  <1>4. WatchTypeOK'
    BY <1>1, <1>3 DEF WatchInv, WatchTypeOK
  <1>5. DeliveryInv'
    BY <1>1, <1>3, AsideDelivery DEF WatchInv
  <1>6. BackoffInv' /\ BacksOff' /\ ReturnInv'
    BY <1>1, <1>3 DEF WatchInv, BackoffInv, BacksOff, ReturnInv, LoopAt
  <1> QED BY <1>4, <1>5, <1>6 DEF WatchInv

\* A change is only appended: what was told keeps its version.
LEMMA ChangeIInv == ASSUME WatchInv, NEW o \in Objects, Change(o) PROVE WatchInv'
  <1>1. PICK s \in ({Absent} \cup States[o]) \ {cluster[o]} :
            /\ cluster' = [cluster EXCEPT ![o] = s]
            /\ changes' = Append(changes, [obj |-> o, state |-> IF s = Absent THEN cluster[o] ELSE s])
    BY DEF Change
  <1>2. /\ Now < MaxChanges
        /\ UNCHANGED <<resources, loop, failures, cancelled, returned, seen, failed>>
    BY DEF Change
  <1>3. /\ changes \in Seq(Told) /\ cluster \in [Objects -> {Absent} \cup AnyState]
        /\ \A p \in Objects : cluster[p] \in {Absent} \cup States[p]
        /\ MaxChanges \in Nat
    BY BoundsAssumption DEF WatchInv, WatchTypeOK, DeliveryInv, ClusterInv
  <1> DEFINE told == [obj |-> o, state |-> IF s = Absent THEN cluster[o] ELSE s]
  <1>4. told \in Told
    BY <1>1, <1>3 DEF Told, AnyState
  <1> HIDE DEF told
  <1>5. /\ changes' = Append(changes, told) /\ changes' \in Seq(Told)
        /\ Now \in Nat /\ Now' = Now + 1 /\ Now' <= MaxChanges /\ Len(changes') = Now'
        /\ DOMAIN changes = 1..Now /\ DOMAIN changes' = 1..Now'
        /\ \A i \in DOMAIN changes : changes'[i] = changes[i]
    BY <1>1, <1>2, <1>3, <1>4 DEF Now, told
  <1>6. \A p, v : Own(p, v) => Own(p, v)'
    BY <1>5 DEF Own
  <1>7. WatchTypeOK'
    BY <1>1, <1>2, <1>3 DEF WatchInv, WatchTypeOK
  <1>8. ClusterInv'
    <2>1. cluster' \in [Objects -> {Absent} \cup AnyState]
      BY <1>1, <1>3 DEF AnyState
    <2>2. \A p \in Objects : Own(p, seen[p].version)'
      <3>1. \A p \in Objects : Own(p, seen[p].version)
        BY DEF WatchInv, DeliveryInv, ClusterInv
      <3> QED BY <1>2, <1>5, <3>1 DEF Own
    <2> QED BY <1>5, <2>1, <2>2 DEF ClusterInv
  <1>9. TodoInv'
    BY <1>2, <1>6 DEF WatchInv, DeliveryInv, TodoInv
  <1>10. VersionInv'
    <2>1. \A r \in resources : loop[r].version \in Nat
      <3>1. \A r \in resources : loop[r].version \in Versions
        BY DEF WatchInv, WatchTypeOK, LoopType
      <3> QED BY <3>1, Numbers
    <2> QED BY <1>2, <1>5, <2>1 DEF WatchInv, DeliveryInv, VersionInv
  <1>11. BackoffInv' /\ BacksOff' /\ ReturnInv'
    BY <1>2 DEF WatchInv, BackoffInv, BacksOff, ReturnInv, LoopAt
  <1> QED BY <1>7, <1>8, <1>9, <1>10, <1>11 DEF WatchInv, DeliveryInv

\* The rest of Run touches neither the cluster nor a goroutine.
LEMMA RunIInv ==
    ASSUME WatchInv, UNCHANGED <<resources, cluster, changes, loop, failures, seen, failed>>,
           CancelRun \/ Return \/ UNCHANGED <<cancelled, returned>>
    PROVE  WatchInv'
  <1>1. WatchTypeOK'
    BY DEF WatchInv, WatchTypeOK
  <1>2. DeliveryInv'
    BY DEF WatchInv, DeliveryInv, ClusterInv, TodoInv, VersionInv, Own, Now
  <1>3. BackoffInv' /\ BacksOff'
    BY DEF WatchInv, BackoffInv, BacksOff, LoopAt
  <1>4. ReturnInv'
    BY DEF WatchInv, ReturnInv, LoopAt, CancelRun, Return
  <1> QED BY <1>1, <1>2, <1>3, <1>4 DEF WatchInv

Forward == \A o \in Objects : seen'[o].version >= seen[o].version

LEMMA StepIInv == WatchInv /\ [WatchNext]_watchVars => WatchInv' /\ Forward
  <1> SUFFICES ASSUME WatchInv, [WatchNext]_watchVars PROVE WatchInv' /\ Forward
    OBVIOUS
  <1>1. ASSUME UNCHANGED seen PROVE Forward
    <2>1. \A o \in Objects : seen[o].version \in Versions
      BY DEF WatchInv, WatchTypeOK, SeenType
    <2> QED BY <1>1, <2>1, Numbers DEF Forward
  <1>2. ASSUME NEW r \in resources, List(r) PROVE WatchInv' /\ Forward
    BY <1>1, <1>2, ListIInv DEF List
  <1>3. ASSUME NEW r \in resources, Emit(r) PROVE WatchInv' /\ Forward
    BY <1>3, EmitIInv DEF Forward
  <1>4. ASSUME NEW r \in resources, Open(r) PROVE WatchInv' /\ Forward
    BY <1>1, <1>4, OpenIInv DEF Open
  <1>5. ASSUME NEW r \in resources, Consume(r) PROVE WatchInv' /\ Forward
    BY <1>5, ConsumeIInv DEF Forward
  <1>6. ASSUME NEW r \in resources, Wake(r) PROVE WatchInv' /\ Forward
    BY <1>1, <1>6, WakeIInv DEF Wake
  <1>7. ASSUME NEW r \in resources, Leave(r) PROVE WatchInv' /\ Forward
    BY <1>1, <1>7, LeaveIInv DEF Leave
  <1>8. ASSUME NEW r \in resources, CallFails(r) PROVE WatchInv' /\ Forward
    BY <1>1, <1>8, CallFailsIInv DEF CallFails
  <1>9. ASSUME NEW r \in resources, StreamEnds(r) PROVE WatchInv' /\ Forward
    BY <1>1, <1>9, StreamEndsIInv DEF StreamEnds
  <1>10. ASSUME NEW o \in Objects, Change(o) PROVE WatchInv' /\ Forward
    BY <1>1, <1>10, ChangeIInv DEF Change
  <1>11. CASE CancelRun
    BY <1>1, <1>11, RunIInv DEF CancelRun
  <1>12. CASE Return
    BY <1>1, <1>12, RunIInv DEF Return
  <1>13. CASE UNCHANGED watchVars
    BY <1>1, <1>13, RunIInv DEF watchVars
  <1> QED BY <1>2, <1>3, <1>4, <1>5, <1>6, <1>7, <1>8, <1>9, <1>10, <1>11, <1>12, <1>13 DEF WatchNext, Step

LEMMA AlwaysIInv == WatchSpec => []WatchInv
  BY InitIInv, StepIInv, PTL DEF WatchSpec

(* Over any number of reconnects, lists with or without their initial        *)
(* objects, failed calls and broken streams, the handler never sees an       *)
(* object go back to an older version (engine.go:187).                       *)
THEOREM NeverStepsBack == WatchSpec => NoStepBack
  <1>1. WatchInv /\ [WatchNext]_watchVars => [\A o \in Objects : seen'[o].version >= seen[o].version]_watchVars
    BY StepIInv DEF Forward
  <1> QED BY <1>1, AlwaysIInv, PTL DEF WatchSpec, NoStepBack

(* A call that failed n times in a row waits for a pause doubled n - 1       *)
(* times, up to MaxBackoff: no success of another resource, no broken stream *)
(* and no list in between shortens it (engine.go:714).                       *)
THEOREM PausesAlwaysGrow == WatchSpec => []PausesGrow
  <1>1. WatchInv => PausesGrow
    BY DEF WatchInv, PausesGrow
  <1> QED BY <1>1, AlwaysIInv, PTL

(* Once Run has returned, the handler is not called again and no goroutine   *)
(* is left that could: it may be torn down (engine.go:169).                  *)
THEOREM QuietOnceReturned == WatchSpec => QuietAfterReturn
  <1>1. WatchInv /\ [WatchNext]_watchVars => [returned => seen' = seen /\ loop' = loop]_watchVars
    <2> SUFFICES ASSUME WatchInv, WatchNext, returned PROVE seen' = seen /\ loop' = loop
      OBVIOUS
    <2>1. \A r \in resources : loop[r].at = "left"
      BY DEF WatchInv, ReturnInv, LoopAt
    <2>2. ASSUME NEW r \in resources, Step(r) \/ CallFails(r) \/ StreamEnds(r) PROVE FALSE
      BY <2>1, <2>2 DEF Step, List, Emit, Open, Consume, Wake, Leave, CallFails, StreamEnds, Listed, LoopAt
    <2>3. CASE \E o \in Objects : Change(o)
      BY <2>3 DEF Change
    <2>4. CASE CancelRun \/ Return
      BY <2>4 DEF CancelRun, Return
    <2> QED BY <2>2, <2>3, <2>4 DEF WatchNext
  <1> QED BY <1>1, AlwaysIInv, PTL DEF WatchSpec, QuietAfterReturn
===============================================================================
