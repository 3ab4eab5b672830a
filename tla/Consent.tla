------------------------------- MODULE Consent -------------------------------
(***************************************************************************)
(* What the Team app promises to the people who use it (docs/runs.md): a   *)
(* change to a cluster is first asked for, then granted, and a grant is    *)
(* good for one apply by each laptop that was asking then.  That is one    *)
(* laptop, unless one of them held the job longer than its lease.  Asking  *)
(* again, refusing, or giving up ends it.                                  *)
(***************************************************************************)
EXTENDS Naturals

CONSTANTS Jobs, Askers, None

VARIABLES
    grant,      \* asker -> "none", "asked", "granted"
    job,        \* asker -> what it asks for, or None
    late,       \* askers whose lease ran out while they had the job
    applies     \* job -> applies so far, well or badly ended

vars == <<grant, job, late, applies>>

TypeOK ==
    /\ grant \in [Askers -> {"none", "asked", "granted"}]
    /\ job \in [Askers -> Jobs \cup {None}]
    /\ late \subseteq Askers
    /\ applies \in [Jobs -> Nat]

Init ==
    /\ grant = [a \in Askers |-> "none"]
    /\ job = [a \in Askers |-> None]
    /\ late = {}
    /\ applies = [j \in Jobs |-> 0]

Ask(a, j) ==
    /\ grant[a] = "none"
    /\ \A b \in Askers \ {a} : job[b] = j => a \in late \/ b \in late
    /\ grant' = [grant EXCEPT ![a] = "asked"]
    /\ job' = [job EXCEPT ![a] = j]
    /\ UNCHANGED <<late, applies>>

Grant(j) ==
    /\ grant' = [a \in Askers |-> IF job[a] = j /\ grant[a] = "asked" THEN "granted" ELSE grant[a]]
    /\ UNCHANGED <<job, late, applies>>

Ends(a) ==
    /\ grant' = [grant EXCEPT ![a] = "none"]
    /\ job' = [job EXCEPT ![a] = None]
    /\ UNCHANGED late

Lapse(a) == grant[a] # "none" /\ Ends(a) /\ UNCHANGED applies

Apply(a) == grant[a] = "granted" /\ Ends(a) /\ applies' = [applies EXCEPT ![job[a]] = @ + 1]

\* The lease of its job runs out; it returns to the queue and takes another job.
Overrun(a) == late' = late \cup {a} /\ UNCHANGED <<grant, job, applies>>
Return(a)  == grant[a] = "none" /\ late' = late \ {a} /\ UNCHANGED <<grant, job, applies>>

Next ==
    \/ \E a \in Askers : Lapse(a) \/ Apply(a) \/ Overrun(a) \/ Return(a)
    \/ \E a \in Askers, j \in Jobs : Ask(a, j)
    \/ \E j \in Jobs : Grant(j)

Spec == Init /\ [][Next]_vars
=============================================================================
