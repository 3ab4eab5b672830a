------------------------------ MODULE Operator ------------------------------
(***************************************************************************)
(* kprompt agent operator (internal/agent/operator): one goroutine takes   *)
(* the events of KpromptAgent resources one after the other and creates,   *)
(* updates or deletes the four objects of each.  Nothing is retried: what  *)
(* an event left undone waits for another event, or for a restart, which   *)
(* reconciles a list first and then watches.                               *)
(*                                                                         *)
(* A resource is known by namespace and name; its objects live under the   *)
(* same name in the namespace they are made for.  Users edit and delete    *)
(* resources, the agent patches its health into their status, and the      *)
(* cluster collects objects whose owner is gone.                           *)
(***************************************************************************)
EXTENDS Integers, Sequences, FiniteSets

CONSTANTS
    Resources,   \* KpromptAgents, pairs <<namespace, name>>
    Specs,       \* records [namespace, observe]; the namespace "" is one's own
    MaxEdits,    \* bound of the model: creations, edits and deletions by users
    MaxPatches,  \* bound of the model: status patches by agents
    MaxErrors,   \* bound of the model: calls of the operator that fail
    MaxRestarts, \* bound of the model: restarts of the operator
    None

VARIABLES
    cr,       \* the resources in the API server
    objs,     \* the objects under each namespace and name
    phase,    \* "start", "all" (reconciling the first list) or "watch"
    queue,    \* the copies the operator has still to reconcile
    stage,    \* what the operator does next
    step,     \* the object it is at
    work,     \* the copy it is reconciling
    version,  \* counter of resourceVersions and uids
    edits, patches, errors, restarts

operator == <<phase, queue, stage, step, work>>
bounds   == <<edits, patches, errors, restarts>>
vars     == <<cr, objs, operator, version, bounds>>

\* In the order in which Reconcile applies them; cleanup goes backwards.
Kinds == <<"ServiceAccount", "Role", "RoleBinding", "Deployment">>

CR == [key : Resources, uid : Nat, rv : Nat, generation : Nat, spec : Specs,
       deleting : BOOLEAN, finalizer : BOOLEAN,
       condition : {"none", "Reconciled", "Observing", "NotReady"}, observed : Nat]

Object == [owner : Nat, generation : Nat]

Stages == {"idle", "finalizer", "build", "apply", "ready", "fail", "delete", "release"}

Named == {s.namespace : s \in Specs} \ {""}
Keys  == Resources \cup {<<n, r[2]>> : n \in Named, r \in Resources}

ASSUME OperatorAssumption ==
    /\ \A r \in Resources : r = <<r[1], r[2]>>
    /\ \A s \in Specs : s = [namespace |-> s.namespace, observe |-> s.observe]
    /\ \A s \in Specs : s.observe \in BOOLEAN
    /\ {MaxEdits, MaxPatches, MaxErrors, MaxRestarts} \subseteq Nat
    /\ None \notin CR /\ None \notin Object /\ IsFiniteSet(Resources)

TypeOK ==
    /\ cr \in [Resources -> CR \cup {None}]
    /\ objs \in [Keys -> [1..4 -> Object \cup {None}]]
    /\ phase \in {"start", "all", "watch"}
    /\ queue \in Seq(CR)
    /\ stage \in Stages /\ step \in 0..5
    /\ work \in CR \cup {None}
    /\ {version, edits, patches, errors, restarts} \subseteq Nat

Init ==
    /\ cr = [r \in Resources |-> None]
    /\ objs = [k \in Keys |-> [i \in 1..4 |-> None]]
    /\ phase = "start" /\ queue = <<>>
    /\ stage = "idle" /\ step = 0 /\ work = None
    /\ version = 0
    /\ edits = 0 /\ patches = 0 /\ errors = 0 /\ restarts = 0

(***************************************************************************)
(* The API server.                                                         *)
(***************************************************************************)
\* Only a watch that is open brings an event.
Notified(x) == IF phase = "watch" THEN Append(queue, x) ELSE queue

\* A write of x: a resource on deletion goes with its finalizer.
Put(x) ==
    LET y == [x EXCEPT !.rv = version + 1]
    IN  /\ version' = version + 1
        /\ cr' = [cr EXCEPT ![x.key] = IF x.deleting /\ ~x.finalizer THEN None ELSE y]
        /\ queue' = Notified(y)

Live(uid) == \E r \in Resources : cr[r] # None /\ cr[r].uid = uid

(***************************************************************************)
(* Users, agents, and the collector of garbage.                            *)
(***************************************************************************)
UserCreates(r, s) ==
    /\ cr[r] = None /\ edits < MaxEdits
    /\ Put([key |-> r, uid |-> version + 1, rv |-> 0, generation |-> 1, spec |-> s,
            deleting |-> FALSE, finalizer |-> FALSE, condition |-> "none", observed |-> 0])
    /\ edits' = edits + 1
    /\ UNCHANGED <<objs, phase, stage, step, work, patches, errors, restarts>>

UserEdits(r, s) ==
    /\ cr[r] # None /\ edits < MaxEdits
    /\ ~cr[r].deleting
    /\ Put([cr[r] EXCEPT !.spec = s, !.generation = @ + 1])
    /\ edits' = edits + 1
    /\ UNCHANGED <<objs, phase, stage, step, work, patches, errors, restarts>>

\* Without the finalizer the resource goes at once, and the event carries it
\* as it was last.
UserDeletes(r) ==
    /\ cr[r] # None /\ edits < MaxEdits
    /\ ~cr[r].deleting
    /\ IF cr[r].finalizer THEN Put([cr[r] EXCEPT !.deleting = TRUE])
       ELSE /\ version' = version + 1
            /\ cr' = [cr EXCEPT ![r] = None]
            /\ queue' = Notified([cr[r] EXCEPT !.rv = version + 1])
    /\ edits' = edits + 1
    /\ UNCHANGED <<objs, phase, stage, step, work, patches, errors, restarts>>

\* The merge patch of the agent's health replaces the list of conditions by
\* Ready=True of its own, and leaves observedGeneration.
PatchHealth(r) ==
    /\ cr[r] # None /\ patches < MaxPatches
    /\ objs[r][4] # None
    /\ Put([cr[r] EXCEPT !.condition = "Observing"])
    /\ patches' = patches + 1
    /\ UNCHANGED <<objs, phase, stage, step, work, edits, errors, restarts>>

CollectGarbage(k, i) ==
    /\ objs[k][i] # None
    /\ objs[k][i].owner # 0 /\ ~Live(objs[k][i].owner)
    /\ objs' = [objs EXCEPT ![k][i] = None]
    /\ UNCHANGED <<cr, operator, version, bounds>>

(***************************************************************************)
(* The controller.                                                         *)
(***************************************************************************)
\* A list, in any order.
Listings ==
    LET S == {cr[r] : r \in Resources} \ {None}
    IN  {q \in [1..Cardinality(S) -> S] : \A i, j \in DOMAIN q : q[i] = q[j] => i = j}

\* ReconcileAll.
ListAll ==
    /\ phase = "start"
    /\ \E q \in Listings : queue' = q
    /\ phase' = "all"
    /\ UNCHANGED <<cr, objs, stage, step, work, version, bounds>>

WatchListings == Listings

\* Run: lists again, then watches.
StartWatch ==
    /\ phase = "all" /\ queue = <<>> /\ stage = "idle"
    /\ \E q \in WatchListings : queue' = q
    /\ phase' = "watch"
    /\ UNCHANGED <<cr, objs, stage, step, work, version, bounds>>

ToBeCleaned_Refused(x) == x.deleting \/ ~x.spec.observe
ToBeCleaned(x) == x.deleting

Take ==
    /\ stage = "idle" /\ queue # <<>>
    /\ work' = Head(queue)
    /\ queue' = Tail(queue)
    /\ stage' = IF ToBeCleaned(work') THEN "delete" ELSE "finalizer"
    /\ step' = IF ToBeCleaned(work') THEN 4 ELSE 1
    /\ UNCHANGED <<cr, objs, phase, version, bounds>>

Done ==
    stage' = "idle" /\ work' = None /\ step' = 0 /\ UNCHANGED phase

WatchNamespace(x) == IF x.spec.namespace = "" THEN x.key[1] ELSE x.spec.namespace
ResourceKey(x) == <<WatchNamespace(x), x.key[2]>>

\* The API server takes an update of the version it has, and no other.
Current(x) == cr[x.key] # None /\ cr[x.key].rv = x.rv

Update(x) == IF Current(x) THEN Put(x) ELSE UNCHANGED <<cr, queue, version>>

ensureFinalizer ==
    /\ stage = "finalizer"
    /\ IF work.finalizer
       THEN stage' = "build" /\ UNCHANGED <<cr, queue, version, phase, step, work>>
       ELSE /\ Update([work EXCEPT !.finalizer = TRUE])
            /\ IF Current(work) THEN stage' = "build" /\ UNCHANGED <<phase, step, work>> ELSE Done
    /\ UNCHANGED <<objs, bounds>>

\* BuildDesired refuses modes other than Observe and foreign namespaces.
BuildDesired(x) == x.spec.observe /\ WatchNamespace(x) = x.key[1]

Build ==
    /\ stage = "build"
    /\ stage' = IF BuildDesired(work) THEN "apply" ELSE "fail"
    /\ UNCHANGED <<cr, objs, phase, queue, step, work, version, bounds>>

OwnerRef_None(x) == 0
OwnerRef(x) == x.uid

\* Create, or Update what is there already; either way the object is replaced.
Replace ==
    objs' = [objs EXCEPT ![ResourceKey(work)][step] =
               [owner |-> OwnerRef(work), generation |-> work.generation]]

Apply ==
    /\ stage = "apply"
    /\ Replace
    /\ IF step = 4 THEN stage' = "ready" /\ UNCHANGED step
       ELSE step' = step + 1 /\ UNCHANGED stage
    /\ UNCHANGED <<cr, phase, queue, work, version, bounds>>

ObservedGeneration_Latest(x) == cr[x.key].generation
ObservedGeneration(x) == x.generation

\* The patch of the status goes to whatever resource has the name.  One that
\* changes nothing raises no event; neither does one that would change the
\* time alone, as far as this model goes.
patchCondition ==
    /\ stage \in {"ready", "fail"}
    /\ IF cr[work.key] = None THEN UNCHANGED <<cr, queue, version>>
       ELSE LET x == [cr[work.key] EXCEPT
                        !.condition = IF stage = "ready" THEN "Reconciled" ELSE "NotReady",
                        !.observed = ObservedGeneration(work)]
            IN  IF x = cr[work.key] THEN UNCHANGED <<cr, queue, version>> ELSE Put(x)
    /\ Done
    /\ UNCHANGED <<objs, bounds>>

\* cleanup deletes by name; what the call returns is dropped.
Delete(k, i) == objs' = [objs EXCEPT ![k][i] = None]

NextDelete_KeepsFinalizer ==
    IF step = 1 THEN stage' = "idle" /\ UNCHANGED step
    ELSE step' = step - 1 /\ UNCHANGED stage

NextDelete ==
    IF step = 1 THEN stage' = "release" /\ UNCHANGED step
    ELSE step' = step - 1 /\ UNCHANGED stage

cleanup ==
    /\ stage = "delete"
    /\ Delete(ResourceKey(work), step)
    /\ NextDelete
    /\ UNCHANGED <<cr, phase, queue, work, version, bounds>>

Released(x) == [x EXCEPT !.finalizer = FALSE]

removeFinalizer ==
    /\ stage = "release"
    /\ Update(Released(work))
    /\ Done
    /\ UNCHANGED <<objs, bounds>>

\* A call fails.  An object that could not be applied, or was although the
\* answer got lost, is reported in the status; a failed deletion is ignored;
\* anything else ends the reconcile.
CallFails ==
    /\ errors < MaxErrors
    /\ errors' = errors + 1
    /\ \/ /\ stage = "apply" /\ stage' = "fail"
          /\ Replace \/ UNCHANGED objs
          /\ UNCHANGED <<step, work, phase>>
       \/ stage = "delete" /\ NextDelete /\ UNCHANGED <<objs, work, phase>>
       \/ stage = "finalizer" /\ ~work.finalizer /\ Done /\ UNCHANGED objs
       \/ stage \in {"ready", "fail", "release"} /\ Done /\ UNCHANGED objs
    /\ UNCHANGED <<cr, queue, version, edits, patches, restarts>>

Restart ==
    /\ restarts < MaxRestarts
    /\ restarts' = restarts + 1
    /\ phase' = "start" /\ queue' = <<>>
    /\ stage' = "idle" /\ step' = 0 /\ work' = None
    /\ UNCHANGED <<cr, objs, version, edits, patches, errors>>

Reconcile ==
    \/ Take \/ ensureFinalizer \/ Build \/ Apply \/ patchCondition
    \/ cleanup \/ removeFinalizer

Run == ListAll \/ StartWatch \/ Reconcile

Environment ==
    \/ \E r \in Resources :
         \/ \E s \in Specs : UserCreates(r, s) \/ UserEdits(r, s)
         \/ UserDeletes(r) \/ PatchHealth(r)
    \/ CallFails \/ Restart

Collect == \E k \in Keys, i \in 1..4 : CollectGarbage(k, i)

Next == Run \/ Environment \/ Collect

\* The operator goes on as long as it has something to do, and the cluster
\* collects garbage; users and agents owe nothing.
Spec == Init /\ [][Next]_vars

FairSpec == Spec /\ WF_vars(Run) /\ WF_vars(Collect)

(***************************************************************************)
(* Properties                                                              *)
(***************************************************************************)
Wanted(r) == cr[r] # None /\ ~cr[r].deleting /\ BuildDesired(cr[r])

Applied(r) == \A i \in 1..4 :
    objs[r][i] = [owner |-> cr[r].uid, generation |-> cr[r].generation]

\* A resource the operator calls reconciled in its present generation has its four objects,
\* made from that generation and owned by it, whatever copies the operator
\* worked from, however often it restarted, and whatever call failed.
ReadyMeansApplied == \A r \in Resources :
    Wanted(r) /\ cr[r].condition = "Reconciled" /\ cr[r].observed = cr[r].generation => Applied(r)

\* "cleans up on delete": an object whose owner exists and is not to be deleted
\* is not deleted.
CleansOnlyDeleted == [][\A k \in Keys, i \in 1..4 :
    objs[k][i] # None /\ objs'[k][i] = None =>
        ~\E r \in Resources : cr[r] # None /\ cr[r].uid = objs[k][i].owner /\ ~cr[r].deleting]_vars

\* "ensures owned objects match the CR": a resource that users leave alone gets
\* the objects of its last spec, unless a call fails: nothing is retried.
SpecGetsApplied == \A r \in Resources : Wanted(r) ~> (~Wanted(r) \/ Applied(r) \/ errors > 0)

\* "(or cleans up on delete)": a deletion completes, unless a call fails.
DeletionCompletes == \A r \in Resources :
    (cr[r] # None /\ cr[r].deleting) ~> (cr[r] = None \/ ~cr[r].deleting \/ errors > 0)

\* Nothing is left of a deleted resource, be it that deletions failed.
NothingLeftBehind == \A k \in Keys, i \in 1..4 :
    (objs[k][i] # None /\ ~Live(objs[k][i].owner)) ~> (objs[k][i] = None \/ Live(objs[k][i].owner))

\* The status of a resource tells the truth (reconcile.go:116).
StatusTruthful == TypeOK /\ ReadyMeansApplied

\* Unless a call fails, every resource arrives at what users last asked for
\* (reconcile.go:38).
Converges == SpecGetsApplied /\ DeletionCompletes
=============================================================================
