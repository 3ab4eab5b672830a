------------------------------- MODULE Executor -------------------------------
(***************************************************************************)
(* What approved plans do to a cluster in which others work, too           *)
(* (internal/executor, internal/verify, the waiter of internal/cluster).   *)
(* Processes carry out the actions of their plans one by one, by reading,  *)
(* changing and writing back whole objects; other users edit the same      *)
(* objects; the controllers follow later: they roll pods, number the       *)
(* replica sets and report.  Then each process waits, if asked to, and     *)
(* verifies.  A step is one call to the API server.                        *)
(***************************************************************************)
EXTENDS Naturals, Sequences, FiniteSets, FiniteSetsExt

CONSTANTS
    Processes,      \* runs of kprompt with an approved plan
    Runs,           \* what the processes may carry out: [plan, wait] for each
    Objects, Kind,  \* object -> "Deployment", "StatefulSet", "DaemonSet" or "Service"
    Edited,         \* objects other users edit
    History,        \* object -> templates rolled out so far; none: it does not exist
    Templates, Nodes,
    Wanted,         \* what other users change an object into: [template, replicas]
    MaxTries,       \* steps of retry.DefaultRetry
    MaxEdits,       \* bound: edits of other users
    Faults,         \* "lost": a call fails, or its answer gets lost
    Absent

Operations == {"scale", "rollback", "apply", "delete"}
ActionType ==
    [op : Operations, obj : Objects, replicas : Nat, template : Templates, revision : Nat]
PlanType == Seq(ActionType) \ {<<>>}

Workloads == {"Deployment", "StatefulSet", "DaemonSet"}

ObjectType ==
    [generation : Nat, template : Templates, replicas : Nat, revision : Nat, uid : Nat,
     terminating : BOOLEAN, observed : Nat, updated : Nat, total : Nat, desired : Nat]

ASSUME RunsAssumption ==
    \A run \in Runs : \A p \in Processes : run[p].plan \in PlanType /\ run[p].wait \in BOOLEAN
ASSUME EditedAssumption ==
    Edited \subseteq Objects /\ Wanted \subseteq [template : Templates, replicas : Nat]
\* A roll-out is a change of the template.
ASSUME HistoryAssumption ==
    /\ History \in [Objects -> Seq(Templates)]
    /\ \A o \in Objects : \A i \in 1..(Len(History[o]) - 1) : History[o][i] # History[o][i + 1]
ASSUME SizesAssumption ==
    /\ Kind \in [Objects -> Workloads \cup {"Service"}]
    /\ Templates # {} /\ Absent \notin ObjectType
    /\ Nodes \in Nat /\ MaxEdits \in Nat /\ MaxTries \in Nat \ {0}

VARIABLES
    obj,            \* what the API server holds
    version,        \* object -> its resourceVersion
    rs,             \* object -> the revision of the replica set of a template, or 0
    ctl,            \* object -> what its controller works on, and the pods there are
    proc,           \* process -> how far it is
    edits,          \* edits of other users so far
    rolled,         \* history: object -> templates rolled out, in order
    ran,            \* history: object -> the last generation all pods ran
    wrote           \* history: process -> the actions it got written, in order

cluster == <<obj, version, rs, ctl, rolled, ran>>
vars == <<cluster, proc, edits, wrote>>

Object(template, replicas, revision, uid) ==
    [generation |-> 1, template |-> template, replicas |-> replicas, revision |-> revision,
     uid |-> uid, terminating |-> FALSE,
     observed |-> 0, updated |-> 0, total |-> 0, desired |-> 0]

Unseen(template) == [generation |-> 0, template |-> template, replicas |-> 0, new |-> 0, old |-> 0]
NoSets == [t \in Templates |-> 0]

Desired(o, replicas) == IF Kind[o] = "DaemonSet" THEN Nodes ELSE replicas

Begin(run) ==
    [plan |-> run.plan, wait |-> run.wait, at |-> "act", n |-> 1, copy |-> Absent, ver |-> 0,
     rs |-> NoSets, tries |-> 1, checks |-> {}, result |-> "none"]

Init ==
    /\ LET n(o) == Len(History[o])
           now(o) == History[o][n(o)]
           running(o) == Desired(o, 1)
       IN  /\ obj = [o \in Objects |->
                IF n(o) = 0 THEN Absent
                ELSE [Object(now(o), 1, IF Kind[o] = "Deployment" THEN n(o) ELSE 0, 1)
                        EXCEPT !.observed = 1, !.updated = running(o), !.total = running(o),
                               !.desired = running(o)]]
           /\ ctl = [o \in Objects |->
                IF n(o) = 0 THEN Unseen(CHOOSE t \in Templates : TRUE)
                ELSE [generation |-> 1, template |-> now(o), replicas |-> running(o),
                      new |-> running(o), old |-> 0]]
           /\ rs = [o \in Objects |->
                IF Kind[o] # "Deployment" THEN NoSets
                ELSE [t \in Templates |-> Max({0} \cup {i \in 1..n(o) : History[o][i] = t})]]
           /\ ran = [o \in Objects |-> IF n(o) = 0 THEN 0 ELSE 1]
    /\ version = [o \in Objects |-> 1]
    /\ rolled = History
    /\ edits = 0
    /\ \E run \in Runs : proc = [p \in Processes |-> Begin(run[p])]
    /\ wrote = [p \in Processes |-> <<>>]

(***************************************************************************)
(* The API server.  A write without a change is none; a changed spec is a  *)
(* new generation; what is deleted is gone at once or only terminating.    *)
(***************************************************************************)
SpecOf(o) == <<o.template, o.replicas>>

Put(o, new) ==
    /\ obj' = [obj EXCEPT ![o] =
                [new EXCEPT !.generation = IF SpecOf(new) = SpecOf(obj[o]) THEN @ ELSE @ + 1]]
    /\ version' = [version EXCEPT ![o] = IF new = obj[o] THEN @ ELSE @ + 1]

Remove(o) ==
    /\ obj' = [obj EXCEPT ![o] = Absent]
    /\ version' = [version EXCEPT ![o] = @ + 1]
    /\ rs' = [rs EXCEPT ![o] = NoSets]
    /\ ctl' = [ctl EXCEPT ![o] = Unseen(@.template)]
    /\ rolled' = [rolled EXCEPT ![o] = <<>>]
    /\ ran' = [ran EXCEPT ![o] = 0]

(***************************************************************************)
(* Runner.Apply.                                                           *)
(***************************************************************************)
At(p, at) == proc[p].at = at
Act(p) == proc[p].plan[proc[p].n]
On(p) == Act(p).obj

\* What a process has read is of no use after its write.
Forgets(f) == [f EXCEPT !.copy = Absent, !.ver = 0, !.rs = NoSets, !.tries = 1]

Ends(p, result) ==
    proc' = [proc EXCEPT ![p] = [Forgets(@) EXCEPT !.at = "done", !.checks = {}, !.result = result]]

Targets(plan) ==
    {plan[i].obj : i \in {j \in DOMAIN plan : plan[j].op # "delete" /\ Kind[plan[j].obj] \in Workloads}}

\* The next action, or the wait, or the verification.
Proceed(p) ==
    LET f == Forgets(proc[p])
    IN  proc' = [proc EXCEPT ![p] =
            IF f.n < Len(f.plan) THEN [f EXCEPT !.n = @ + 1, !.at = "act"]
            ELSE [f EXCEPT !.n = 1, !.at = IF f.wait THEN "wait" ELSE "verify"]]

Wrote(p) == wrote' = [wrote EXCEPT ![p] = Append(@, proc[p].n)]

Get(p) ==
    /\ At(p, "act")
    /\ Act(p).op # "delete"
    /\ CASE obj[On(p)] # Absent ->
                proc' = [proc EXCEPT ![p].copy = obj[On(p)], ![p].ver = version[On(p)],
                                     ![p].at = IF Act(p).op = "rollback" THEN "list" ELSE "update"]
         [] obj[On(p)] = Absent /\ Act(p).op = "apply" -> proc' = [proc EXCEPT ![p].at = "create"]
         [] OTHER -> Ends(p, "error")
    /\ UNCHANGED <<cluster, edits, wrote>>

\* The replica sets of the copy that was read: of another owner there are none.
ownedReplicaSets(p) ==
    IF obj[On(p)] = Absent \/ obj[On(p)].uid # proc[p].copy.uid THEN NoSets ELSE rs[On(p)]

ListReplicaSets(p) ==
    /\ At(p, "list")
    /\ proc' = [proc EXCEPT ![p].rs = ownedReplicaSets(p), ![p].at = "update"]
    /\ UNCHANGED <<cluster, edits, wrote>>

findRollbackRS_Oldest(p) ==
    {t \in Templates : /\ proc[p].rs[t] \in 1..(proc[p].copy.revision - 1)
                       /\ \A u \in Templates : proc[p].rs[u] # 0 => proc[p].rs[t] <= proc[p].rs[u]}

\* The newest replica set below the current revision, or the one asked for.
findRollbackRS(p) ==
    LET sets     == proc[p].rs
        current  == proc[p].copy.revision
        previous == {t \in Templates : sets[t] \in 1..(current - 1)}
    IN  IF Act(p).revision = 0
        THEN {t \in previous : \A u \in previous : sets[u] <= sets[t]}
        ELSE {t \in Templates : sets[t] = Act(p).revision /\ sets[t] # current}

\* A manifest replaces the object, annotations included.
Changed(p) ==
    LET copy == proc[p].copy
        a == Act(p)
    IN  CASE a.op = "scale" -> {[copy EXCEPT !.replicas = a.replicas]}
          [] a.op = "rollback" -> {[copy EXCEPT !.template = t] : t \in findRollbackRS(p)}
          [] a.op = "apply" -> {[copy EXCEPT !.template = a.template, !.replicas = a.replicas,
                                             !.revision = a.revision]}

Current(p) == obj[On(p)] # Absent /\ version[On(p)] = proc[p].ver

Update(p) ==
    /\ At(p, "update")
    /\ Current(p)
    /\ \E new \in Changed(p) : Put(On(p), new)
    /\ Wrote(p)
    /\ Proceed(p)
    /\ UNCHANGED <<rs, ctl, rolled, ran, edits>>

Conflict_KeepsCopy(p) ==
    /\ At(p, "update")
    /\ Changed(p) # {}
    /\ obj[On(p)] # Absent
    /\ ~Current(p)
    /\ IF Act(p).op # "apply" /\ proc[p].tries < MaxTries
       THEN proc' = [proc EXCEPT ![p].tries = @ + 1, ![p].ver = version[On(p)]]
       ELSE Ends(p, "error")
    /\ UNCHANGED <<cluster, edits, wrote>>

\* RetryOnConflict starts again from the read; a manifest is not tried again.
Conflict(p) ==
    /\ At(p, "update")
    /\ Changed(p) # {}
    /\ obj[On(p)] # Absent
    /\ ~Current(p)
    /\ IF Act(p).op # "apply" /\ proc[p].tries < MaxTries
       THEN proc' = [proc EXCEPT ![p] = [Forgets(@) EXCEPT !.tries = proc[p].tries + 1, !.at = "act"]]
       ELSE Ends(p, "error")
    /\ UNCHANGED <<cluster, edits, wrote>>

\* No revision to roll back to, or the object is gone.
UpdateFails(p) ==
    /\ At(p, "update")
    /\ Changed(p) = {} \/ obj[On(p)] = Absent
    /\ Ends(p, "error")
    /\ UNCHANGED <<cluster, edits, wrote>>

Create(p) ==
    /\ At(p, "create")
    /\ IF obj[On(p)] # Absent
       THEN Ends(p, "error") /\ UNCHANGED <<cluster, wrote>>
       ELSE /\ obj' = [obj EXCEPT ![On(p)] =
                        Object(Act(p).template, Act(p).replicas, Act(p).revision, version[On(p)] + 1)]
            /\ version' = [version EXCEPT ![On(p)] = @ + 1]
            /\ Wrote(p)
            /\ Proceed(p)
            /\ UNCHANGED <<rs, ctl, rolled, ran>>
    /\ UNCHANGED edits

Delete(p) ==
    /\ At(p, "act")
    /\ Act(p).op = "delete"
    /\ IF obj[On(p)] = Absent
       THEN Ends(p, "error") /\ UNCHANGED <<cluster, wrote>>
       ELSE /\ \/ Remove(On(p))
               \/ Put(On(p), [obj[On(p)] EXCEPT !.terminating = TRUE])
                    /\ UNCHANGED <<rs, ctl, rolled, ran>>
            /\ Wrote(p)
            /\ Proceed(p)
    /\ UNCHANGED edits

\* A call fails without effect, or its answer is lost after it had one.
CallFails(p) ==
    /\ "lost" \in Faults
    /\ proc[p].at \in {"act", "list", "update", "create"}
    /\ Ends(p, "error")
    /\ UNCHANGED <<cluster, edits, wrote>>

AnswerLost_TriesAgain(p) ==
    /\ "lost" \in Faults
    /\ At(p, "update")
    /\ Current(p)
    /\ \E new \in Changed(p) : Put(On(p), new)
    /\ Wrote(p)
    /\ IF proc[p].tries < MaxTries
       THEN proc' = [proc EXCEPT ![p] = [Forgets(@) EXCEPT !.tries = proc[p].tries + 1, !.at = "act"]]
       ELSE Ends(p, "error")
    /\ UNCHANGED <<rs, ctl, rolled, ran, edits>>

AnswerLost(p) ==
    /\ "lost" \in Faults
    /\ At(p, "update")
    /\ Current(p)
    /\ \E new \in Changed(p) : Put(On(p), new)
    /\ Wrote(p)
    /\ Ends(p, "error")
    /\ UNCHANGED <<rs, ctl, rolled, ran, edits>>

(***************************************************************************)
(* --wait: each changed workload until its controller has seen the last    *)
(* spec and all pods follow it, or until the time is up.                   *)
(***************************************************************************)
PodsFollow(o, r) ==
    LET desired == IF Kind[o] = "DaemonSet" THEN r.desired ELSE r.replicas
    IN  /\ r.updated = desired
        /\ r.total = desired
        /\ Kind[o] = "DaemonSet" => desired # 0
Complete(o, r) == PodsFollow(o, r) /\ r.observed >= r.generation

WaitReady(p) ==
    /\ At(p, "wait")
    /\ proc[p].n <= Len(proc[p].plan)
    /\ IF On(p) \notin Targets(proc[p].plan)
       THEN proc' = [proc EXCEPT ![p].n = @ + 1]
       ELSE IF obj[On(p)] = Absent THEN Ends(p, "failed")
       ELSE Complete(On(p), obj[On(p)]) /\ proc' = [proc EXCEPT ![p].n = @ + 1]
    /\ UNCHANGED <<cluster, edits, wrote>>

TimesOut(p) ==
    /\ At(p, "wait")
    /\ proc[p].n <= Len(proc[p].plan)
    /\ On(p) \in Targets(proc[p].plan)
    /\ Ends(p, "failed")
    /\ UNCHANGED <<cluster, edits, wrote>>

WaitEnds(p) ==
    /\ At(p, "wait")
    /\ proc[p].n > Len(proc[p].plan)
    /\ proc' = [proc EXCEPT ![p].at = "verify", ![p].n = 1]
    /\ UNCHANGED <<cluster, edits, wrote>>

(***************************************************************************)
(* verify.Plan: one read per action, without patience; one that fails is a *)
(* failed check.                                                           *)
(***************************************************************************)
RolledOut(o, r) ==
    IF Kind[o] = "Deployment" THEN Complete(o, r) ELSE PodsFollow(o, r)

verifyAction(a) ==
    LET r == obj[a.obj]
    IN  CASE a.op = "delete" -> IF r = Absent THEN "ok" ELSE "failed"
          [] a.op # "delete" /\ r = Absent -> "failed"
          [] a.op # "delete" /\ r # Absent /\ Kind[a.obj] = "Service" -> "ok"
          [] OTHER -> IF /\ a.op = "scale" => r.replicas = a.replicas
                         /\ RolledOut(a.obj, r)
                      THEN "ok" ELSE "pending"

Verify(p) ==
    /\ At(p, "verify")
    /\ proc[p].n <= Len(proc[p].plan)
    /\ \E s \in {verifyAction(Act(p))} \cup (IF "lost" \in Faults THEN {"failed"} ELSE {}) :
            proc' = [proc EXCEPT ![p].checks = @ \cup {s}, ![p].n = @ + 1]
    /\ UNCHANGED <<cluster, edits, wrote>>

rollup(checks, wait) ==
    IF "failed" \in checks \/ (wait /\ "pending" \in checks) THEN "failed"
    ELSE IF "pending" \in checks THEN "pending" ELSE "ok"

Report(p) ==
    /\ At(p, "verify")
    /\ proc[p].n > Len(proc[p].plan)
    /\ Ends(p, rollup(proc[p].checks, proc[p].wait))
    /\ UNCHANGED <<cluster, edits, wrote>>

(***************************************************************************)
(* Everybody else: users, controllers, garbage collection.                 *)
(***************************************************************************)
Edit ==
    /\ edits < MaxEdits
    /\ edits' = edits + 1
    /\ \E o \in Edited :
        /\ obj[o] # Absent
        /\ \E w \in Wanted :
            Put(o, [obj[o] EXCEPT !.template = w.template, !.replicas = w.replicas])
    /\ UNCHANGED <<rs, ctl, proc, rolled, ran, wrote>>

Vanish(o) ==
    /\ obj[o] # Absent
    /\ obj[o].terminating
    /\ Remove(o)
    /\ UNCHANGED <<proc, edits, wrote>>

\* The newest revision of all, and the one a template gets when it is rolled out.
Newest(sets) == Max({sets[t] : t \in Templates})
Numbered(sets, t) ==
    IF sets[t] # 0 /\ sets[t] = Newest(sets) THEN sets
    ELSE [sets EXCEPT ![t] = Newest(sets) + 1]

Ran(c) == c.new = c.replicas /\ c.old = 0
Rolled(o, c) ==
    /\ ctl' = [ctl EXCEPT ![o] = c]
    /\ ran' = [ran EXCEPT ![o] = IF Ran(c) THEN c.generation ELSE @]

Observe(o) ==
    /\ obj[o] # Absent
    /\ Kind[o] \in Workloads
    /\ ~obj[o].terminating
    /\ ctl[o].generation < obj[o].generation
    /\ LET same == obj[o].template = ctl[o].template
       IN  Rolled(o, [generation |-> obj[o].generation, template |-> obj[o].template,
                      replicas |-> Desired(o, obj[o].replicas),
                      new |-> IF same THEN ctl[o].new ELSE 0,
                      old |-> IF same THEN ctl[o].old ELSE ctl[o].old + ctl[o].new])
    /\ rs' = [rs EXCEPT ![o] =
                IF Kind[o] = "Deployment" THEN Numbered(@, obj[o].template) ELSE @]
    /\ rolled' = [rolled EXCEPT ![o] =
                IF @ # <<>> /\ @[Len(@)] = obj[o].template THEN @ ELSE Append(@, obj[o].template)]
    /\ UNCHANGED <<obj, version, proc, edits, wrote>>

Roll(o) ==
    /\ obj[o] # Absent
    /\ \/ ctl[o].new < ctl[o].replicas /\ Rolled(o, [ctl[o] EXCEPT !.new = @ + 1])
       \/ ctl[o].new > ctl[o].replicas /\ Rolled(o, [ctl[o] EXCEPT !.new = @ - 1])
       \/ ctl[o].old > 0 /\ Rolled(o, [ctl[o] EXCEPT !.old = @ - 1])
    /\ UNCHANGED <<obj, version, rs, rolled, proc, edits, wrote>>

Seen(o) == obj[o] # Absent /\ ctl[o].generation = obj[o].generation
Annotated(o) == Kind[o] = "Deployment" => obj[o].revision = Newest(rs[o])

Annotate(o) ==
    /\ Seen(o)
    /\ ~Annotated(o)
    /\ Put(o, [obj[o] EXCEPT !.revision = Newest(rs[o])])
    /\ UNCHANGED <<rs, ctl, rolled, ran, proc, edits, wrote>>

Publish(o) ==
    /\ Seen(o)
    /\ Kind[o] \in Workloads
    /\ Annotated(o)
    /\ LET c == ctl[o]
           status == [obj[o] EXCEPT !.observed = c.generation, !.updated = c.new,
                                    !.total = c.new + c.old,
                                    !.desired = IF Kind[o] = "DaemonSet" THEN Nodes ELSE @]
       IN  status # obj[o] /\ Put(o, status)
    /\ UNCHANGED <<rs, ctl, rolled, ran, proc, edits, wrote>>

Apply(p) ==
    \/ Get(p) \/ ListReplicaSets(p) \/ Update(p) \/ Conflict(p) \/ UpdateFails(p)
    \/ Create(p) \/ Delete(p) \/ CallFails(p) \/ AnswerLost(p)
Check(p) == WaitReady(p) \/ TimesOut(p) \/ WaitEnds(p) \/ Verify(p) \/ Report(p)
Control(o) == Observe(o) \/ Roll(o) \/ Annotate(o) \/ Publish(o) \/ Vanish(o)

\* Bound: nobody looks at what happens after the last process has ended.
Watched == \E p \in Processes : ~At(p, "done")

Next ==
    \/ \E p \in Processes : Apply(p) \/ Check(p)
    \/ \E o \in Objects : Watched /\ Control(o)
    \/ Watched /\ Edit

Spec == Init /\ [][Next]_vars

(***************************************************************************)
(* Correctness.                                                            *)
(***************************************************************************)
Points  == {"act", "list", "update", "create", "wait", "verify", "done"}
Checks  == {"ok", "pending", "failed"}
SetType == [Templates -> Nat]
CtlType == [generation : Nat, template : Templates, replicas : Nat, new : Nat, old : Nat]
ProcType ==
    [plan : PlanType, wait : BOOLEAN, at : Points, n : Nat \ {0},
     copy : ObjectType \cup {Absent}, ver : Nat, rs : SetType, tries : 1..MaxTries,
     checks : SUBSET Checks, result : Checks \cup {"none", "error"}]

\* What each variable holds; no action is tried more often than RetryOnConflict does.
TypeOK ==
    /\ obj \in [Objects -> ObjectType \cup {Absent}]
    /\ version \in [Objects -> Nat]
    /\ rs \in [Objects -> SetType]
    /\ ctl \in [Objects -> CtlType]
    /\ proc \in [Processes -> ProcType]
    /\ edits \in 0..MaxEdits
    /\ rolled \in [Objects -> Seq(Templates)]
    /\ ran \in [Objects -> Nat]
    /\ wrote \in [Processes -> Seq(Nat)]

Writes(p, op) == At(p, "update") /\ Act(p).op = op /\ wrote'[p] # wrote[p]

\* Scaling writes the whole object back, and loses no edit: whatever others
\* changed between its read and its write, only the replicas are different.
ScaleKeepsEdits ==
    [][\A p \in Processes : Writes(p, "scale") =>
        LET o == On(p)
        IN  /\ obj'[o].replicas = Act(p).replicas
            /\ [obj'[o] EXCEPT !.replicas = obj[o].replicas, !.generation = obj[o].generation]
                    = obj[o]]_vars

\* "undoes a Deployment rollout to toRevision (0 = previous)": once the
\* controller has followed the last change, a rollback brings back the template
\* that was rolled out before the present one, whoever writes in between, and
\* however often the replica sets were numbered anew.
RollbackUndoes ==
    [][\A p \in Processes : Writes(p, "rollback") =>
        LET o == On(p)
        IN  Act(p).revision = 0 /\ Seen(o) /\ Annotated(o) =>
                /\ Len(rolled[o]) > 1
                /\ obj'[o].template = rolled[o][Len(rolled[o]) - 1]
                /\ obj'[o].replicas = obj[o].replicas]_vars

\* A plan is carried out in order, each action once: an action whose answer was
\* lost is not written again, and what is waited for and verified is complete.
CarriedOutOnce ==
    \A p \in Processes :
        /\ wrote[p] = [i \in 1..Len(wrote[p]) |-> i]
        /\ proc[p].at \in {"wait", "verify"} \/ proc[p].result \in {"ok", "pending", "failed"} =>
                Len(wrote[p]) = Len(proc[p].plan)

\* --wait ends well for a workload, and verification calls a Deployment ok, only
\* if all pods have run the spec the object has then, not the one before it.
Passes(p) ==
    /\ proc'[p].n > proc[p].n
    /\ On(p) \in Targets(proc[p].plan)
    /\ \/ At(p, "wait")
       \/ /\ At(p, "verify") /\ Kind[On(p)] = "Deployment" /\ Act(p).op # "delete"
          /\ verifyAction(Act(p)) = "ok"
ReadyMeansRan ==
    [][\A p \in Processes : Passes(p) => ran[On(p)] >= obj[On(p)].generation]_vars

\* What a process wrote is its plan, as far as it came (executor.go:28).
PlanCarriedOut == TypeOK /\ CarriedOutOnce
=============================================================================
