----------------------------- MODULE Operator_proofs -----------------------------
(***************************************************************************)
(* Theorems about Operator: for any resources and specs, any edits,        *)
(* deletions, patches, failed calls and restarts.  The argument is about   *)
(* the copies the operator works from.  A copy may be old, but not out of  *)
(* order: copies of a resource come in the order of their versions, no     *)
(* generation already reported as observed is ahead of a copy still to     *)
(* come, and the finalizer keeps a resource from being deleted and made    *)
(* anew under the operator's hands.                                        *)
(***************************************************************************)
EXTENDS Operator, FiniteSetTheorems, TLAPS

(* The namespace a spec asks for has no other resource of the same name.     *)
(* BuildDesired refuses such a spec, but cleanup does not look: a resource   *)
(* with it takes the objects of its namesake along when it is deleted        *)
(* (reconcile.go:73).                                                        *)
NoNamesakes ==
    \A r \in Resources, s \in Specs : s.namespace # "" /\ <<s.namespace, r[2]>> \in Resources =>
        <<s.namespace, r[2]>> = r

CrInv == \A r \in Resources : cr[r] # None =>
    /\ cr[r].key = r /\ cr[r].rv <= version /\ cr[r].uid <= version
    /\ cr[r].observed <= cr[r].generation
    /\ cr[r].deleting => cr[r].finalizer
    /\ \A s \in Resources \ {r} : cr[s] # None => cr[s].uid # cr[r].uid

\* Objects are owned by the resource they are named after, if it still exists.
OwnerInv == \A k \in Keys, i \in 1..4 : objs[k][i] # None =>
    /\ objs[k][i].owner <= version
    /\ \A r \in Resources : cr[r] # None /\ cr[r].uid = objs[k][i].owner => r = k

\* What a copy x may still say of the resource c that has its name now.
CopyOf(x, c) ==
    /\ x.rv <= c.rv /\ x.uid <= c.uid
    /\ x.rv = c.rv => x = c
    /\ x.uid = c.uid => /\ c.observed <= x.generation /\ x.generation <= c.generation
                        /\ x.deleting => c.deleting
    /\ x.uid # c.uid => /\ c.condition # "Reconciled"
                        /\ \A i \in 1..4 : objs[x.key][i] # None => objs[x.key][i].owner # c.uid

CopyInv(x) ==
    /\ x.rv <= version /\ x.uid <= version
    /\ cr[x.key] # None => CopyOf(x, cr[x.key])
    /\ x.finalizer => cr[x.key] # None /\ cr[x.key].uid = x.uid /\ cr[x.key].finalizer

Older(x, y) == x.key = y.key =>
    /\ x.rv < y.rv /\ x.uid <= y.uid
    /\ x.uid = y.uid => x.generation <= y.generation

\* The copies the operator has, the one it is at and those to come.
Copies == {queue[i] : i \in DOMAIN queue} \cup ({work} \ {None})

CopiesInv == \A x \in Copies : CopyInv(x)

OrderInv ==
    /\ \A i, j \in DOMAIN queue : i < j => Older(queue[i], queue[j])
    /\ work # None => \A i \in DOMAIN queue : Older(work, queue[i])

Made(x) == [owner |-> x.uid, generation |-> x.generation]

\* From its finalizer on the resource at work is held, until it is let go.
Held(x) == cr[x.key] # None /\ cr[x.key].uid = x.uid /\ cr[x.key].finalizer

StageInv ==
    /\ stage = "idle" <=> work = None
    /\ stage \in {"delete", "release"} => work.deleting
    /\ stage \in {"delete", "apply"} => step \in 1..4
    /\ stage \in {"finalizer", "build"} => step = 1
    /\ stage \in {"build", "apply", "ready", "fail"} => Held(work)
    /\ stage \in {"apply", "ready"} => BuildDesired(work)
    /\ stage = "apply" => \A i \in 1..4 : i < step => objs[work.key][i] = Made(work)
    /\ stage = "ready" => \A i \in 1..4 : objs[work.key][i] = Made(work)

Ordered == TypeOK /\ CrInv /\ OwnerInv /\ CopiesInv /\ OrderInv

IInv == Ordered /\ StageInv /\ ReadyMeansApplied

----------------------------------------------------------------------------------

LEMMA Typed ==
    ASSUME TypeOK
    PROVE  /\ cr \in [Resources -> CR \cup {None}] /\ objs \in [Keys -> [1..4 -> Object \cup {None}]]
           /\ queue \in Seq(CR) /\ work \in CR \cup {None} /\ version \in Nat
           /\ Copies \subseteq CR
           /\ \A r \in Resources : cr[r] # None => cr[r] \in CR
  <1>1. /\ cr \in [Resources -> CR \cup {None}] /\ objs \in [Keys -> [1..4 -> Object \cup {None}]]
        /\ queue \in Seq(CR) /\ work \in CR \cup {None} /\ version \in Nat
    BY DEF TypeOK
  <1>2. \A i \in DOMAIN queue : queue[i] \in CR
    BY <1>1
  <1> QED BY <1>1, <1>2 DEF Copies

LEMMA CRFields ==
    ASSUME NEW x \in CR
    PROVE  /\ x.key \in Resources /\ x.uid \in Nat /\ x.rv \in Nat /\ x.generation \in Nat
           /\ x.observed \in Nat /\ x.spec \in Specs /\ x # None
  BY OperatorAssumption DEF CR

\* Objects have the name of their resource, and its namespace if they are made.
LEMMA ObjectKeys ==
    ASSUME NEW x \in CR
    PROVE  /\ ResourceKey(x) \in Keys
           /\ BuildDesired(x) => ResourceKey(x) = x.key
           /\ NoNamesakes => \A r \in Resources : ResourceKey(x) = r => r = x.key
  <1>1. x.key \in Resources /\ x.key = <<x.key[1], x.key[2]>> /\ x.spec \in Specs
    BY OperatorAssumption DEF CR
  <1>2. CASE x.spec.namespace = ""
    <2>1. ResourceKey(x) = x.key
      BY <1>1, <1>2 DEF ResourceKey, WatchNamespace
    <2> QED BY <1>1, <2>1 DEF Keys
  <1>3. CASE x.spec.namespace # ""
    <2>1. ResourceKey(x) = <<x.spec.namespace, x.key[2]>>
      BY <1>3 DEF ResourceKey, WatchNamespace
    <2>2. ResourceKey(x) \in Keys
      <3>1. x.spec.namespace \in Named
        BY <1>1, <1>3 DEF Named
      <3> QED BY <1>1, <2>1, <3>1 DEF Keys
    <2>3. BuildDesired(x) => ResourceKey(x) = x.key
      BY <1>1, <1>3, <2>1 DEF BuildDesired, WatchNamespace
    <2>4. NoNamesakes => \A r \in Resources : ResourceKey(x) = r => r = x.key
      BY <1>1, <1>3, <2>1 DEF NoNamesakes
    <2> QED BY <2>2, <2>3, <2>4
  <1> QED BY <1>2, <1>3

LEMMA InitIInv == Init => IInv
  <1> SUFFICES ASSUME Init PROVE IInv
    OBVIOUS
  <1>1. TypeOK
    BY DEF Init, TypeOK, Stages
  <1>2. CrInv /\ OwnerInv
    BY DEF Init, CrInv, OwnerInv
  <1>3. CopiesInv /\ OrderInv
    BY DEF Init, CopiesInv, Copies, OrderInv
  <1>4. StageInv /\ ReadyMeansApplied
    BY DEF Init, StageInv, ReadyMeansApplied, Wanted
  <1> QED BY <1>1, <1>2, <1>3, <1>4 DEF IInv, Ordered

\* A write of resource r: it becomes y, or goes, and the event carries y.
LEMMA WriteKeeps ==
    ASSUME Ordered, NEW y \in CR, NEW n \in {y, None},
           y.rv = version + 1, y.uid <= version + 1, y.observed <= y.generation,
           version' = version + 1, objs' = objs,
           cr' = [cr EXCEPT ![y.key] = n],
           queue' = queue \/ queue' = Append(queue, y),
           work' = work \/ work' = None,
           n = None => ~y.finalizer, n # None /\ y.deleting => y.finalizer,
           \A s \in Resources \ {y.key} : cr[s] # None => cr[s].uid # y.uid,
           \A k \in Keys, i \in 1..4 : objs[k][i] # None /\ objs[k][i].owner = y.uid => k = y.key,
           \A x \in Copies : x.key = y.key =>
               /\ x.uid <= y.uid /\ (x.uid = y.uid => x.generation <= y.generation)
               /\ x \in Copies' => /\ n # None => CopyOf(x, y) /\ (x.finalizer => y.uid = x.uid /\ y.finalizer)
                                   /\ n = None => ~x.finalizer
    PROVE  /\ cr' \in [Resources -> CR \cup {None}] /\ queue' \in Seq(CR) /\ version' \in Nat
           /\ CrInv' /\ OwnerInv' /\ CopiesInv' /\ OrderInv'
  <1> DEFINE r == y.key
  <1>1. /\ cr \in [Resources -> CR \cup {None}] /\ objs \in [Keys -> [1..4 -> Object \cup {None}]]
        /\ queue \in Seq(CR) /\ work \in CR \cup {None} /\ version \in Nat
        /\ Copies \subseteq CR /\ \A s \in Resources : cr[s] # None => cr[s] \in CR
    BY Typed DEF Ordered
  <1>2. r \in Resources /\ y # None /\ y.uid \in Nat
    BY CRFields
  <1> HIDE DEF r
  <1>3. /\ cr' \in [Resources -> CR \cup {None}]
        /\ \A s \in Resources : cr'[s] = IF s = r THEN n ELSE cr[s]
    BY <1>1, <1>2 DEF r
  <1>4. queue' \in Seq(CR) /\ version' \in Nat
    BY <1>1
  <1>5. \A s \in Resources : cr[s] # None => cr[s].rv \in Nat /\ cr[s].uid \in Nat
    BY <1>1, CRFields
  <1>6. CrInv'
    <2>1. ASSUME NEW s \in Resources, cr'[s] # None
          PROVE  /\ cr'[s].key = s /\ cr'[s].rv <= version + 1 /\ cr'[s].uid <= version + 1
                 /\ cr'[s].observed <= cr'[s].generation
                 /\ cr'[s].deleting => cr'[s].finalizer
                 /\ \A t \in Resources \ {s} : cr'[t] # None => cr'[t].uid # cr'[s].uid
      BY <1>1, <1>2, <1>3, <1>5, <2>1 DEF Ordered, CrInv, r
    <2> QED BY <2>1 DEF CrInv
  <1>7. OwnerInv'
    <2>1. \A k \in Keys, i \in 1..4 : objs[k][i] # None => objs[k][i].owner \in Nat
      BY <1>1 DEF Object
    <2> QED BY <1>1, <1>3, <2>1 DEF Ordered, OwnerInv, r
  <1>8. Copies' \subseteq Copies \cup {y}
    <2>1. CASE queue' = queue
      BY <1>1, <2>1 DEF Copies
    <2>2. CASE queue' = Append(queue, y)
      <3>1. \A i \in DOMAIN queue' : queue'[i] = y \/ (i \in DOMAIN queue /\ queue'[i] = queue[i])
        BY <1>1, <2>2
      <3> QED BY <3>1 DEF Copies
    <2> QED BY <2>1, <2>2
  <1>9. CopiesInv'
    <2>1. ASSUME NEW x \in Copies, x \in Copies' PROVE CopyInv(x)'
      <3>1. x \in CR /\ x.key \in Resources /\ x.rv \in Nat /\ x.uid \in Nat /\ CopyInv(x)
        BY <1>1, CRFields DEF Ordered, CopiesInv
      <3>2. x.rv <= version' /\ x.uid <= version'
        BY <1>1, <3>1 DEF CopyInv
      <3>3. CASE x.key = r
        BY <1>2, <1>3, <2>1, <3>2, <3>3 DEF CopyInv, CopyOf, r
      <3>4. CASE x.key # r
        BY <1>3, <3>1, <3>2, <3>4 DEF CopyInv, CopyOf
      <3> QED BY <3>3, <3>4
    <2>2. CopyInv(y)'
      <3>1. y.rv <= y.rv /\ y.uid <= y.uid /\ y.generation <= y.generation
        BY CRFields
      <3> QED BY <1>1, <1>2, <1>3, <3>1 DEF CopyInv, CopyOf, r
    <2> QED BY <1>8, <2>1, <2>2 DEF CopiesInv
  <1>10. OrderInv'
    <2>1. \A x \in Copies : Older(x, y)
      <3>1. ASSUME NEW x \in Copies, x.key = y.key PROVE Older(x, y)
        <4>1. x.rv <= version /\ x.rv \in Nat
          BY <1>1, CRFields DEF Ordered, CopiesInv, CopyInv
        <4> QED BY <1>1, <3>1, <4>1 DEF Older
      <3> QED BY <3>1 DEF Older
    <2>2. CASE queue' = queue
      BY <2>2 DEF Ordered, OrderInv
    <2>3. CASE queue' = Append(queue, y)
      <3>1. /\ DOMAIN queue = 1..Len(queue) /\ DOMAIN queue' = 1..(Len(queue) + 1) /\ Len(queue) \in Nat
            /\ queue'[Len(queue) + 1] = y
            /\ \A i \in 1..Len(queue) : queue'[i] = queue[i]
        BY <1>1, <2>3
      <3>2. ASSUME NEW i \in DOMAIN queue', NEW j \in DOMAIN queue', i < j
            PROVE  Older(queue'[i], queue'[j])
        <4>1. i \in DOMAIN queue /\ queue'[i] = queue[i] /\ queue[i] \in Copies
          BY <3>1, <3>2 DEF Copies
        <4>2. CASE j = Len(queue) + 1
          BY <2>1, <3>1, <4>1, <4>2
        <4>3. CASE j # Len(queue) + 1
          BY <3>1, <3>2, <4>1, <4>3 DEF Ordered, OrderInv
        <4> QED BY <4>2, <4>3
      <3>3. ASSUME work' # None, NEW i \in DOMAIN queue' PROVE Older(work', queue'[i])
        <4>1. work' = work /\ work \in Copies
          BY <3>3 DEF Copies
        <4> QED BY <2>1, <3>1, <3>3, <4>1 DEF Ordered, OrderInv
      <3> QED BY <3>2, <3>3 DEF OrderInv
    <2> QED BY <2>2, <2>3
  <1> QED BY <1>3, <1>4, <1>6, <1>7, <1>9, <1>10

\* What the resource is after a write of x.
Written(x) == [x EXCEPT !.rv = version + 1]
Left(x)    == IF x.deleting /\ ~x.finalizer THEN None ELSE Written(x)

LEMMA PutEffect ==
    ASSUME Ordered, NEW x \in CR
    PROVE  /\ Written(x) \in CR /\ Written(x).key = x.key /\ Written(x).uid = x.uid
           /\ Written(x).rv = version + 1 /\ Written(x).generation = x.generation
           /\ Written(x).spec = x.spec /\ Written(x).condition = x.condition
           /\ Written(x).observed = x.observed
           /\ Written(x).deleting = x.deleting /\ Written(x).finalizer = x.finalizer
           /\ Put(x) => /\ version' = version + 1
                        /\ cr' = [cr EXCEPT ![x.key] = Left(x)]
                        /\ queue' = queue \/ queue' = Append(queue, Written(x))
  <1>1. version + 1 \in Nat
    BY Typed DEF Ordered
  <1> QED BY <1>1 DEF CR, Written, Left, Put, Notified

\* A write that keeps what the operator relies on: the resource goes on as it
\* was, or anew, and no copy is ahead of it.
LEMMA UpdateKeeps ==
    ASSUME Ordered, NEW x \in CR, Put(x), objs' = objs, work' = work \/ work' = None,
           cr[x.key] # None, x.uid = cr[x.key].uid, x.generation >= cr[x.key].generation,
           cr[x.key].deleting => x.deleting, cr[x.key].finalizer => x.finalizer,
           x.deleting => x.finalizer, x.observed <= x.generation,
           \A z \in Copies : z.key = x.key /\ z.uid = x.uid => x.observed <= z.generation,
           \A z \in Copies : z.key = x.key /\ z.uid # x.uid => x.condition # "Reconciled"
    PROVE  /\ cr' \in [Resources -> CR \cup {None}] /\ queue' \in Seq(CR) /\ version' \in Nat
           /\ CrInv' /\ OwnerInv' /\ CopiesInv' /\ OrderInv'
           /\ \A s \in Resources : cr'[s] = IF s = x.key THEN Written(x) ELSE cr[s]
  <1> DEFINE y == Written(x)
  <1>1. /\ y \in CR /\ y.key = x.key /\ y.uid = x.uid
        /\ y.rv = version + 1 /\ y.generation = x.generation
        /\ y.spec = x.spec /\ y.condition = x.condition /\ y.observed = x.observed
        /\ y.deleting = x.deleting /\ y.finalizer = x.finalizer
        /\ version' = version + 1 /\ cr' = [cr EXCEPT ![x.key] = y]
        /\ queue' = queue \/ queue' = Append(queue, y)
    BY PutEffect DEF Left
  <1> HIDE DEF y
  <1>2. /\ cr \in [Resources -> CR \cup {None}] /\ version \in Nat /\ Copies \subseteq CR
        /\ x.key \in Resources /\ cr[x.key] \in CR
    BY Typed, CRFields DEF Ordered
  <1>3. /\ cr[x.key].key = x.key /\ cr[x.key].rv <= version /\ cr[x.key].uid <= version
        /\ \A s \in Resources \ {x.key} : cr[s] # None => cr[s].uid # cr[x.key].uid
    BY <1>2 DEF Ordered, CrInv
  <1>4. y.uid <= version + 1
    BY <1>1, <1>2, <1>3, CRFields
  <1>5. \A k \in Keys, i \in 1..4 : objs[k][i] # None /\ objs[k][i].owner = y.uid => k = y.key
    BY <1>1, <1>2 DEF Ordered, OwnerInv
  <1>6. ASSUME NEW z \in Copies, z.key = y.key
        PROVE  /\ z.uid <= y.uid /\ (z.uid = y.uid => z.generation <= y.generation)
               /\ CopyOf(z, y) /\ (z.finalizer => y.uid = z.uid /\ y.finalizer)
    <2>1. CopyInv(z) /\ z \in CR /\ z.rv \in Nat /\ z.uid \in Nat /\ z.generation \in Nat
      BY <1>2, CRFields DEF Ordered, CopiesInv
    <2>2. CopyOf(z, cr[x.key])
      BY <1>1, <1>6, <2>1 DEF CopyInv
    <2>3. /\ z.rv < y.rv /\ z.uid <= y.uid
          /\ z.uid = y.uid => z.generation <= y.generation /\ y.observed <= z.generation
      BY <1>1, <1>2, <1>3, <1>6, <2>1, <2>2, CRFields DEF CopyOf
    <2>4. z.uid = y.uid => (z.deleting => y.deleting)
      BY <1>1, <2>2 DEF CopyOf
    <2>5. z.uid # y.uid => /\ y.condition # "Reconciled"
                           /\ \A i \in 1..4 : objs[z.key][i] # None => objs[z.key][i].owner # y.uid
      BY <1>1, <1>6, <2>2 DEF CopyOf
    <2>6. z.finalizer => y.uid = z.uid /\ y.finalizer
      BY <1>1, <1>6, <2>1 DEF CopyInv
    <2>7. z.rv <= y.rv /\ z.rv # y.rv
      BY <1>1, <1>2, <2>1, <2>3
    <2> QED BY <2>3, <2>4, <2>5, <2>6, <2>7 DEF CopyOf
  <1>7. y # None /\ y \in {y, None}
    BY <1>1, CRFields
  <1>8. \A s \in Resources \ {y.key} : cr[s] # None => cr[s].uid # y.uid
    BY <1>1, <1>3
  <1>9. /\ cr' \in [Resources -> CR \cup {None}] /\ queue' \in Seq(CR) /\ version' \in Nat
        /\ CrInv' /\ OwnerInv' /\ CopiesInv' /\ OrderInv'
    BY <1>1, <1>4, <1>5, <1>6, <1>7, <1>8, WriteKeeps
  <1> QED BY <1>1, <1>2, <1>9 DEF y

\* Nothing the operator has in hand changes by a write that keeps its hold.
LEMMA AsideStage ==
    ASSUME StageInv, UNCHANGED <<objs, stage, step, work>>,
           stage \in {"build", "apply", "ready", "fail"} /\ Held(work) => Held(work)'
    PROVE  StageInv'
  BY DEF StageInv

LEMMA OthersReady ==
    ASSUME ReadyMeansApplied, objs' = objs, NEW r \in Resources,
           \A s \in Resources \ {r} : cr'[s] = cr[s],
           cr'[r] # None => cr'[r].condition # "Reconciled" \/ cr'[r].observed # cr'[r].generation
                               \/ cr'[r].deleting
    PROVE  ReadyMeansApplied'
  <1> SUFFICES ASSUME NEW s \in Resources,
                      cr'[s] # None, ~cr'[s].deleting, BuildDesired(cr'[s]),
                      cr'[s].condition = "Reconciled", cr'[s].observed = cr'[s].generation
               PROVE  \A i \in 1..4 : objs'[s][i] = [owner |-> cr'[s].uid, generation |-> cr'[s].generation]
    BY DEF ReadyMeansApplied, Wanted, Applied, BuildDesired, WatchNamespace
  <1>1. s # r
    OBVIOUS
  <1> QED BY <1>1 DEF ReadyMeansApplied, Wanted, Applied

LEMMA CreateIInv == ASSUME IInv, NEW r \in Resources, NEW s \in Specs, UserCreates(r, s) PROVE IInv'
  <1> DEFINE x == [key |-> r, uid |-> version + 1, rv |-> 0, generation |-> 1, spec |-> s,
                   deleting |-> FALSE, finalizer |-> FALSE, condition |-> "none", observed |-> 0]
             y == Written(x)
  <1>1. /\ cr[r] = None /\ Put(x) /\ edits' = edits + 1
        /\ UNCHANGED <<objs, phase, stage, step, work, patches, errors, restarts>>
    BY DEF UserCreates
  <1>2. /\ cr \in [Resources -> CR \cup {None}] /\ version \in Nat /\ Copies \subseteq CR
        /\ objs \in [Keys -> [1..4 -> Object \cup {None}]]
        /\ \A t \in Resources : cr[t] # None => cr[t] \in CR
    BY Typed DEF IInv, Ordered
  <1>3. x \in CR
    BY <1>2 DEF CR
  <1>4. /\ x.key = r /\ x.uid = version + 1 /\ x.generation = 1 /\ x.condition = "none" /\ x.observed = 0
        /\ ~x.deleting /\ ~x.finalizer
    OBVIOUS
  <1> HIDE DEF x
  <1>5. /\ y \in CR /\ y.key = r /\ y.uid = version + 1 /\ y.rv = version + 1 /\ y.generation = 1
        /\ y.condition = "none" /\ y.observed = 0 /\ ~y.finalizer /\ ~y.deleting
        /\ version' = version + 1 /\ cr' = [cr EXCEPT ![r] = y]
        /\ queue' = queue \/ queue' = Append(queue, y)
    BY <1>1, <1>3, <1>4, PutEffect DEF IInv, Left
  <1> HIDE DEF y
  <1>6. \A t \in Resources : cr[t] # None => cr[t].uid # y.uid
    <2>1. \A t \in Resources : cr[t] # None => cr[t].uid <= version /\ cr[t].uid \in Nat
      BY <1>2, CRFields DEF IInv, Ordered, CrInv
    <2> QED BY <1>2, <1>5, <2>1
  <1>7. \A k \in Keys, i \in 1..4 : objs[k][i] # None => objs[k][i].owner # y.uid
    <2>1. \A k \in Keys, i \in 1..4 : objs[k][i] # None =>
              objs[k][i].owner <= version /\ objs[k][i].owner \in Nat
      BY <1>2 DEF IInv, Ordered, OwnerInv, Object
    <2> QED BY <1>2, <1>5, <2>1
  <1>8. ASSUME NEW z \in Copies, z.key = y.key
        PROVE  z.uid <= y.uid /\ z.uid # y.uid /\ CopyOf(z, y) /\ ~z.finalizer
    <2>1. z \in CR /\ z.rv \in Nat /\ z.uid \in Nat /\ z.rv <= version /\ z.uid <= version /\ CopyInv(z)
      BY <1>2, CRFields DEF IInv, Ordered, CopiesInv, CopyInv
    <2>2. z.uid < y.uid /\ z.rv < y.rv
      BY <1>2, <1>5, <2>1
    <2>3. z.key \in Keys
      BY <2>1, CRFields DEF Keys
    <2>4. ~z.finalizer
      BY <1>1, <1>5, <1>8, <2>1 DEF CopyInv
    <2>5. z.uid <= y.uid /\ z.uid # y.uid /\ z.rv <= y.rv /\ z.rv # y.rv
      BY <1>5, <1>2, <2>1, <2>2
    <2> QED BY <1>5, <1>7, <2>3, <2>4, <2>5 DEF CopyOf
  <1>9. /\ cr' \in [Resources -> CR \cup {None}] /\ queue' \in Seq(CR) /\ version' \in Nat
        /\ CrInv' /\ OwnerInv' /\ CopiesInv' /\ OrderInv'
    <2>1. y \in {y, None} /\ y # None
      BY <1>5, CRFields
    <2>2. y.uid <= version + 1 /\ y.observed <= y.generation
      BY <1>2, <1>5
    <2>3. \A t \in Resources \ {y.key} : cr[t] # None => cr[t].uid # y.uid
      BY <1>6
    <2>4. \A k \in Keys, i \in 1..4 : objs[k][i] # None /\ objs[k][i].owner = y.uid => k = y.key
      BY <1>7
    <2>5. \A z \in Copies : z.key = y.key =>
               /\ z.uid <= y.uid /\ (z.uid = y.uid => z.generation <= y.generation)
               /\ CopyOf(z, y) /\ (z.finalizer => y.uid = z.uid /\ y.finalizer)
      BY <1>8
    <2>6. /\ Ordered /\ version' = version + 1 /\ objs' = objs /\ work' = work
          /\ cr' = [cr EXCEPT ![y.key] = y]
          /\ queue' = queue \/ queue' = Append(queue, y)
      BY <1>1, <1>5 DEF IInv
    <2> QED BY <1>5, <2>1, <2>2, <2>3, <2>4, <2>5, <2>6, WriteKeeps
  <1>10. TypeOK'
    BY <1>1, <1>9 DEF IInv, Ordered, TypeOK
  <1>11. StageInv'
    BY <1>1, <1>2, <1>5, AsideStage DEF IInv, Held
  <1>12. ReadyMeansApplied'
    BY <1>1, <1>2, <1>5, OthersReady DEF IInv
  <1> QED BY <1>9, <1>10, <1>11, <1>12 DEF IInv, Ordered

\* What a resource that is there tells of itself.
LEMMA Existing ==
    ASSUME Ordered, NEW r \in Resources, cr[r] # None
    PROVE  /\ cr[r] \in CR /\ cr[r].key = r /\ cr[r].observed <= cr[r].generation
           /\ cr[r].generation \in Nat /\ cr[r].observed \in Nat
           /\ cr[r].deleting => cr[r].finalizer
           /\ \A z \in Copies : z.key = r =>
                  /\ z.uid = cr[r].uid => cr[r].observed <= z.generation
                  /\ z.uid # cr[r].uid => cr[r].condition # "Reconciled"
  <1>1. cr[r] \in CR /\ Copies \subseteq CR
    BY Typed DEF Ordered
  <1>2. \A z \in Copies : z.key = r => CopyOf(z, cr[r])
    BY DEF Ordered, CopiesInv, CopyInv
  <1> QED BY <1>1, <1>2, CRFields DEF Ordered, CrInv, CopyOf

\* Users and agents write what the copies are not ahead of.
LEMMA WritesIInv ==
    ASSUME IInv, NEW r \in Resources, NEW x \in CR, Put(x), cr[r] # None, x.key = r,
           UNCHANGED <<objs, phase, stage, step, work>>,
           {edits', patches', errors', restarts'} \subseteq Nat,
           x.uid = cr[r].uid, x.generation >= cr[r].generation, x.observed = cr[r].observed,
           cr[r].deleting => x.deleting, x.finalizer = cr[r].finalizer, x.deleting => x.finalizer,
           x.condition = "Reconciled" => x.condition = cr[r].condition,
           x.condition # "Reconciled" \/ x.observed # x.generation \/ x.deleting
    PROVE  IInv'
  <1>1. /\ cr[r] \in CR /\ cr[r].key = r /\ cr[r].observed <= cr[r].generation
        /\ cr[r].generation \in Nat /\ cr[r].observed \in Nat /\ x.generation \in Nat
        /\ \A z \in Copies : z.key = r =>
                  /\ z.uid = cr[r].uid => cr[r].observed <= z.generation
                  /\ z.uid # cr[r].uid => cr[r].condition # "Reconciled"
    BY Existing, CRFields DEF IInv
  <1>2. /\ cr' \in [Resources -> CR \cup {None}] /\ queue' \in Seq(CR) /\ version' \in Nat
        /\ CrInv' /\ OwnerInv' /\ CopiesInv' /\ OrderInv'
        /\ \A s \in Resources : cr'[s] = IF s = r THEN Written(x) ELSE cr[s]
    BY SMTT(60), <1>1, UpdateKeeps DEF IInv
  <1>3. /\ Written(x) \in CR /\ Written(x).uid = x.uid /\ Written(x).generation = x.generation
        /\ Written(x).condition = x.condition /\ Written(x).observed = x.observed
        /\ Written(x).deleting = x.deleting /\ Written(x).finalizer = x.finalizer
        /\ Written(x) # None
    BY PutEffect, CRFields DEF IInv
  <1>4. TypeOK'
    BY <1>2 DEF IInv, Ordered, TypeOK
  <1>5. StageInv'
    <2>1. ASSUME stage # "idle", Held(work) PROVE Held(work)'
      <3>1. work.key \in Resources
        <4>1. work \in CR
          BY <2>1, Typed DEF IInv, Ordered, StageInv
        <4> QED BY <4>1, CRFields
      <3> QED BY <1>2, <1>3, <2>1, <3>1 DEF Held
    <2> QED BY <2>1, AsideStage DEF IInv
  <1>6. ReadyMeansApplied'
    BY <1>2, <1>3, OthersReady DEF IInv
  <1> QED BY <1>2, <1>4, <1>5, <1>6 DEF IInv, Ordered

LEMMA EditedTyped ==
    ASSUME NEW c \in CR, NEW s \in Specs
    PROVE  LET x == [c EXCEPT !.spec = s, !.generation = @ + 1] IN
           /\ x \in CR /\ x.key = c.key /\ x.uid = c.uid /\ x.generation = c.generation + 1
           /\ x.observed = c.observed /\ x.condition = c.condition
           /\ x.deleting = c.deleting /\ x.finalizer = c.finalizer
  <1>1. c.generation + 1 \in Nat
    BY DEF CR
  <1> QED BY <1>1 DEF CR

LEMMA EditIInv == ASSUME IInv, NEW r \in Resources, NEW s \in Specs, UserEdits(r, s) PROVE IInv'
  <1> DEFINE x == [cr[r] EXCEPT !.spec = s, !.generation = @ + 1]
  <1>1. /\ cr[r] # None /\ ~cr[r].deleting /\ Put(x) /\ edits' = edits + 1
        /\ UNCHANGED <<objs, phase, stage, step, work, patches, errors, restarts>>
    BY DEF UserEdits
  <1>2. /\ cr[r] \in CR /\ cr[r].key = r /\ cr[r].observed <= cr[r].generation
        /\ cr[r].generation \in Nat /\ cr[r].observed \in Nat
    BY <1>1, Existing DEF IInv
  <1>3. /\ x \in CR /\ x.key = r /\ x.uid = cr[r].uid /\ x.generation = cr[r].generation + 1
        /\ x.observed = cr[r].observed /\ x.condition = cr[r].condition
        /\ x.deleting = cr[r].deleting /\ x.finalizer = cr[r].finalizer
    BY <1>2, EditedTyped
  <1> HIDE DEF x
  <1>4. {edits', patches', errors', restarts'} \subseteq Nat
    BY <1>1 DEF IInv, Ordered, TypeOK
  <1>5. x.generation >= cr[r].generation /\ x.observed # x.generation
    BY <1>2, <1>3
  <1> QED BY <1>1, <1>3, <1>4, <1>5, WritesIInv

LEMMA PatchIInv == ASSUME IInv, NEW r \in Resources, PatchHealth(r) PROVE IInv'
  <1> DEFINE x == [cr[r] EXCEPT !.condition = "Observing"]
  <1>1. /\ cr[r] # None /\ Put(x) /\ patches' = patches + 1
        /\ UNCHANGED <<objs, phase, stage, step, work, edits, errors, restarts>>
    BY DEF PatchHealth
  <1>2. /\ cr[r] \in CR /\ cr[r].key = r /\ cr[r].generation \in Nat
        /\ cr[r].deleting => cr[r].finalizer
    BY <1>1, Existing DEF IInv
  <1>3. /\ x \in CR /\ x.key = r /\ x.uid = cr[r].uid /\ x.generation = cr[r].generation
        /\ x.observed = cr[r].observed /\ x.condition = "Observing"
        /\ x.deleting = cr[r].deleting /\ x.finalizer = cr[r].finalizer
    BY <1>2 DEF CR
  <1> HIDE DEF x
  <1>4. {edits', patches', errors', restarts'} \subseteq Nat
    BY <1>1 DEF IInv, Ordered, TypeOK
  <1>5. x.generation >= cr[r].generation
    BY <1>2, <1>3
  <1> QED BY <1>1, <1>2, <1>3, <1>4, <1>5, WritesIInv

LEMMA DeleteIInv == ASSUME IInv, NEW r \in Resources, UserDeletes(r) PROVE IInv'
  <1>1. /\ cr[r] # None /\ ~cr[r].deleting /\ edits' = edits + 1
        /\ UNCHANGED <<objs, phase, stage, step, work, patches, errors, restarts>>
    BY DEF UserDeletes
  <1>2. /\ cr[r] \in CR /\ cr[r].key = r /\ cr[r].observed <= cr[r].generation
        /\ cr[r].generation \in Nat /\ cr[r].rv <= version /\ cr[r].uid <= version
        /\ \A s \in Resources \ {r} : cr[s] # None => cr[s].uid # cr[r].uid
    BY <1>1, Existing DEF IInv, Ordered, CrInv
  <1>3. {edits', patches', errors', restarts'} \subseteq Nat
    BY <1>1 DEF IInv, Ordered, TypeOK
  <1>4. CASE cr[r].finalizer
    <2> DEFINE x == [cr[r] EXCEPT !.deleting = TRUE]
    <2>1. Put(x)
      BY <1>4 DEF UserDeletes
    <2>2. /\ x \in CR /\ x.key = r /\ x.uid = cr[r].uid /\ x.generation = cr[r].generation
          /\ x.observed = cr[r].observed /\ x.condition = cr[r].condition
          /\ x.deleting /\ x.finalizer = cr[r].finalizer
      BY <1>2 DEF CR
    <2> HIDE DEF x
    <2>3. x.generation >= cr[r].generation
      BY <1>2, <2>2
    <2> QED BY <1>1, <1>3, <1>4, <2>1, <2>2, <2>3, WritesIInv
  <1>5. CASE ~cr[r].finalizer
    <2> DEFINE y == Written(cr[r])
    <2>1. /\ version' = version + 1 /\ cr' = [cr EXCEPT ![r] = None]
          /\ queue' = queue \/ queue' = Append(queue, y)
      BY <1>5 DEF UserDeletes, Notified, Written
    <2>2. /\ y \in CR /\ y.key = r /\ y.uid = cr[r].uid /\ y.rv = version + 1
          /\ y.generation = cr[r].generation /\ y.observed = cr[r].observed
          /\ ~y.finalizer
      BY <1>2, <1>5, PutEffect DEF IInv
    <2> HIDE DEF y
    <2>3. cr \in [Resources -> CR \cup {None}] /\ version \in Nat /\ Copies \subseteq CR
      BY Typed DEF IInv, Ordered
    <2>4. ASSUME NEW z \in Copies, z.key = r
          PROVE  /\ z.uid <= y.uid /\ (z.uid = y.uid => z.generation <= y.generation)
                 /\ ~z.finalizer
      <3>1. CopyInv(z) /\ CopyOf(z, cr[r])
        BY <1>1, <2>4 DEF IInv, Ordered, CopiesInv, CopyInv
      <3> QED BY <1>5, <2>2, <2>4, <3>1 DEF CopyInv, CopyOf
    <2>5. y.uid <= version + 1 /\ y.observed <= y.generation
      BY <1>2, <2>2, <2>3, CRFields
    <2>6. \A k \in Keys, i \in 1..4 : objs[k][i] # None /\ objs[k][i].owner = y.uid => k = y.key
      BY <1>1, <2>2 DEF IInv, Ordered, OwnerInv
    <2>7. /\ cr' \in [Resources -> CR \cup {None}] /\ queue' \in Seq(CR) /\ version' \in Nat
          /\ CrInv' /\ OwnerInv' /\ CopiesInv' /\ OrderInv'
      <3>1. \A z \in Copies : z.key = y.key =>
               /\ z.uid <= y.uid /\ (z.uid = y.uid => z.generation <= y.generation)
               /\ z \in Copies' => ~z.finalizer
        BY <2>2, <2>4
      <3>2. \A s \in Resources \ {y.key} : cr[s] # None => cr[s].uid # y.uid
        BY <1>2, <2>2
      <3>3. \A k \in Keys, i \in 1..4 : objs[k][i] # None /\ objs[k][i].owner = y.uid => k = y.key
        BY <2>2, <2>6
      <3>4. /\ Ordered /\ version' = version + 1 /\ objs' = objs /\ work' = work
            /\ cr' = [cr EXCEPT ![y.key] = None] /\ None \in {y, None}
            /\ queue' = queue \/ queue' = Append(queue, y)
        BY <1>1, <2>1, <2>2 DEF IInv
      <3> QED BY <2>2, <2>5, <3>1, <3>2, <3>3, <3>4, WriteKeeps
    <2>8. cr'[r] = None /\ \A s \in Resources \ {r} : cr'[s] = cr[s]
      BY <2>1, <2>3
    <2>9. TypeOK'
      BY <1>1, <1>3, <2>7 DEF IInv, Ordered, TypeOK
    <2>10. StageInv'
      <3>1. ASSUME stage # "idle", Held(work) PROVE Held(work)'
        <4>1. work \in CR
          BY <3>1, Typed DEF IInv, Ordered, StageInv
        <4>2. work.key \in Resources /\ work.key # r
          BY <1>5, <3>1, <4>1, CRFields DEF Held
        <4> QED BY <1>1, <2>8, <3>1, <4>2 DEF Held
      <3> QED BY <1>1, <3>1, AsideStage DEF IInv
    <2>11. ReadyMeansApplied'
      BY <1>1, <2>8, OthersReady DEF IInv
    <2> QED BY <2>7, <2>9, <2>10, <2>11 DEF IInv, Ordered
  <1> QED BY <1>4, <1>5

\* An object goes that no resource still wants.
LEMMA ObjectGoes ==
    ASSUME Ordered, ReadyMeansApplied, NEW k \in Keys, NEW i \in 1..4,
           objs' = [objs EXCEPT ![k][i] = None], UNCHANGED <<cr, queue, work, version>>,
           objs[k][i] # None => \A r \in Resources :
               cr[r] # None /\ cr[r].uid = objs[k][i].owner => cr[r].deleting
    PROVE  /\ objs' \in [Keys -> [1..4 -> Object \cup {None}]]
           /\ CrInv' /\ OwnerInv' /\ CopiesInv' /\ OrderInv' /\ ReadyMeansApplied'
           /\ \A m \in Keys, j \in 1..4 :
                  objs'[m][j] = IF m = k /\ j = i THEN None ELSE objs[m][j]
  <1>1. /\ objs \in [Keys -> [1..4 -> Object \cup {None}]] /\ Copies \subseteq CR /\ Copies' = Copies
        /\ \A r \in Resources : cr[r] # None => cr[r] \in CR
    BY Typed DEF Ordered, Copies
  <1>2. /\ objs' \in [Keys -> [1..4 -> Object \cup {None}]]
        /\ \A m \in Keys, j \in 1..4 :
                  objs'[m][j] = IF m = k /\ j = i THEN None ELSE objs[m][j]
    BY <1>1
  <1>3. CrInv' /\ OrderInv'
    BY DEF Ordered, CrInv, OrderInv, Older
  <1>4. OwnerInv'
    BY <1>2 DEF Ordered, OwnerInv
  <1>5. CopiesInv'
    <2>1. ASSUME NEW x \in Copies PROVE CopyInv(x)'
      <3>1. CopyInv(x) /\ x.key \in Keys
        BY <1>1, CRFields DEF Ordered, CopiesInv, Keys
      <3> QED BY <1>2, <3>1 DEF CopyInv, CopyOf
    <2> QED BY <1>1, <2>1 DEF CopiesInv
  <1>6. ReadyMeansApplied'
    <2> SUFFICES ASSUME NEW r \in Resources, Wanted(r), cr[r].condition = "Reconciled",
                        cr[r].observed = cr[r].generation, NEW j \in 1..4
                 PROVE  objs'[r][j] = [owner |-> cr[r].uid, generation |-> cr[r].generation]
      <3>1. \A r \in Resources : Wanted(r)' <=> Wanted(r)
        BY DEF Wanted, BuildDesired, WatchNamespace
      <3> QED BY <3>1 DEF ReadyMeansApplied, Applied
    <2>1. objs[r][j] = [owner |-> cr[r].uid, generation |-> cr[r].generation]
      BY DEF ReadyMeansApplied, Applied
    <2>2. objs[r][j] # None /\ r \in Keys /\ cr[r] \in CR
      <3>1. cr[r] \in CR
        BY <1>1 DEF Wanted
      <3>2. [owner |-> cr[r].uid, generation |-> cr[r].generation] \in Object
        BY <3>1 DEF Object, CR
      <3> QED BY <2>1, <3>1, <3>2, OperatorAssumption DEF Keys
    <2>3. ~(r = k /\ j = i)
      BY <2>1, <2>2 DEF Wanted
    <2> QED BY <1>2, <2>1, <2>2, <2>3
  <1> QED BY <1>2, <1>3, <1>4, <1>5, <1>6

LEMMA CollectIInv ==
    ASSUME IInv, NEW k \in Keys, NEW i \in 1..4, CollectGarbage(k, i) PROVE IInv'
  <1>1. /\ objs[k][i] # None /\ ~Live(objs[k][i].owner) /\ objs' = [objs EXCEPT ![k][i] = None]
        /\ UNCHANGED <<cr, operator, version, bounds>>
    BY DEF CollectGarbage
  <1>2. UNCHANGED <<cr, queue, work, version, phase, stage, step, edits, patches, errors, restarts>>
    BY <1>1 DEF operator, bounds
  <1>3. /\ objs' \in [Keys -> [1..4 -> Object \cup {None}]]
        /\ CrInv' /\ OwnerInv' /\ CopiesInv' /\ OrderInv' /\ ReadyMeansApplied'
        /\ \A m \in Keys, j \in 1..4 :
                  objs'[m][j] = IF m = k /\ j = i THEN None ELSE objs[m][j]
    BY ZenonT(60), <1>1, <1>2, ObjectGoes DEF IInv, Live
  <1>4. TypeOK'
    BY <1>2, <1>3 DEF IInv, Ordered, TypeOK
  <1>5. StageInv'
    <2>1. ASSUME Held(work), work # None, NEW j \in 1..4, objs[work.key][j] = Made(work)
          PROVE  objs'[work.key][j] = Made(work)
      <3>1. work \in CR
        BY <2>1, Typed DEF IInv, Ordered
      <3>2. work.key \in Keys /\ work.key \in Resources
        BY <3>1, CRFields DEF Keys
      <3>3. ~(work.key = k /\ j = i)
        BY <1>1, <2>1, <3>2 DEF Live, Held, Made
      <3> QED BY <1>3, <2>1, <3>2, <3>3
    <2> QED BY <1>2, <2>1 DEF IInv, StageInv, Held, Made
  <1> QED BY <1>3, <1>4, <1>5 DEF IInv, Ordered

\* Nothing but the copies in hand changes, and none comes up.
LEMMA CopiesStay ==
    ASSUME Ordered, UNCHANGED <<cr, objs, version>>, Copies' \subseteq Copies
    PROVE  CrInv' /\ OwnerInv' /\ CopiesInv'
  BY DEF Ordered, CrInv, OwnerInv, CopiesInv, CopyInv, CopyOf

LEMMA ReadyStays ==
    ASSUME ReadyMeansApplied, UNCHANGED <<cr, objs>> PROVE ReadyMeansApplied'
  BY DEF ReadyMeansApplied, Wanted, Applied, BuildDesired, WatchNamespace

\* The end of a reconcile that changed nothing else.
LEMMA IdleIInv ==
    ASSUME IInv, UNCHANGED <<cr, objs, queue, version>>,
           phase' \in {"start", "all", "watch"},
           {edits', patches', errors', restarts'} \subseteq Nat,
           stage' = "idle", step' = 0, work' = None
    PROVE  IInv'
  <1>1. Copies' \subseteq Copies
    BY DEF Copies
  <1>2. OrderInv'
    BY DEF IInv, Ordered, OrderInv, Older
  <1>3. TypeOK'
    BY DEF IInv, Ordered, TypeOK, Stages
  <1>4. StageInv'
    BY DEF StageInv
  <1> QED BY <1>1, <1>2, <1>3, <1>4, CopiesStay, ReadyStays DEF IInv, Ordered

LEMMA RestartIInv == ASSUME IInv, Restart PROVE IInv'
  <1>1. /\ queue' = <<>> /\ stage' = "idle" /\ step' = 0 /\ work' = None /\ phase' = "start"
        /\ restarts' = restarts + 1
        /\ UNCHANGED <<cr, objs, version, edits, patches, errors>>
    BY DEF Restart
  <1>2. Copies' \subseteq Copies /\ OrderInv'
    BY <1>1 DEF Copies, OrderInv
  <1>3. TypeOK'
    BY <1>1 DEF IInv, Ordered, TypeOK, Stages
  <1>4. StageInv'
    BY <1>1 DEF StageInv
  <1> QED BY <1>1, <1>2, <1>3, <1>4, CopiesStay, ReadyStays DEF IInv, Ordered

\* A list has each resource once, as it is.
LEMMA ListingOf ==
    ASSUME Ordered, NEW q \in Listings
    PROVE  /\ q \in Seq(CR)
           /\ \A i \in DOMAIN q : \E r \in Resources : cr[r] # None /\ q[i] = cr[r] /\ q[i].key = r
           /\ \A i, j \in DOMAIN q : q[i] = q[j] => i = j
  <1> DEFINE A == {cr[r] : r \in Resources}
             S == A \ {None}
  <1>1. IsFiniteSet(A)
    <2>1. IsFiniteSet(Resources)
      BY OperatorAssumption
    <2>2. cr \in Surjection(Resources, A)
      BY Typed DEF Ordered, Surjection
    <2> QED BY <2>1, <2>2, FS_Surjection
  <1>2. IsFiniteSet(S)
    BY <1>1, FS_Subset
  <1>3. Cardinality(S) \in Nat
    BY <1>2, FS_CardinalityType
  <1>4. q \in [1..Cardinality(S) -> S] /\ \A i, j \in DOMAIN q : q[i] = q[j] => i = j
    BY DEF Listings
  <1>5. \A x \in S : \E r \in Resources : cr[r] # None /\ x = cr[r] /\ x.key = r
    BY DEF Ordered, CrInv
  <1>6. S \subseteq CR
    BY Typed DEF Ordered
  <1> HIDE DEF S
  <1> QED BY <1>3, <1>4, <1>5, <1>6

LEMMA ListingIInv ==
    ASSUME IInv, stage = "idle", NEW q \in Listings, queue' = q, phase' \in {"start", "all", "watch"},
           UNCHANGED <<cr, objs, stage, step, work, version, bounds>>
    PROVE  IInv'
  <1>1. /\ q \in Seq(CR)
        /\ \A i \in DOMAIN q : \E r \in Resources : cr[r] # None /\ q[i] = cr[r] /\ q[i].key = r
        /\ \A i, j \in DOMAIN q : q[i] = q[j] => i = j
    BY ListingOf DEF IInv
  <1>2. work = None /\ work' = None
    BY DEF IInv, StageInv
  <1>3. CrInv' /\ OwnerInv'
    BY DEF IInv, Ordered, CrInv, OwnerInv
  <1>4. CopiesInv'
    <2>1. ASSUME NEW r \in Resources, cr[r] # None PROVE CopyInv(cr[r])'
      <3>1. /\ cr[r].key = r /\ cr[r].rv <= version /\ cr[r].uid <= version
            /\ cr[r].observed <= cr[r].generation
        BY <2>1 DEF IInv, Ordered, CrInv
      <3>2. cr[r].rv <= cr[r].rv /\ cr[r].uid <= cr[r].uid /\ cr[r].generation <= cr[r].generation
        BY <2>1, Typed, CRFields DEF IInv, Ordered
      <3> QED BY <2>1, <3>1, <3>2 DEF CopyInv, CopyOf
    <2>2. \A x \in Copies' : \E r \in Resources : cr[r] # None /\ x = cr[r]
      BY <1>1, <1>2 DEF Copies
    <2> QED BY <2>1, <2>2 DEF CopiesInv
  <1>5. OrderInv'
    <2>1. ASSUME NEW i \in DOMAIN q, NEW j \in DOMAIN q, i < j PROVE Older(q[i], q[j])
      <3>1. q[i].key # q[j].key
        <4>1. q[i] # q[j]
          BY <1>1, <2>1
        <4> QED BY <1>1, <4>1
      <3> QED BY <3>1 DEF Older
    <2> QED BY <1>2, <2>1 DEF OrderInv
  <1>6. TypeOK'
    BY <1>1 DEF IInv, Ordered, TypeOK, bounds
  <1>7. StageInv'
    BY AsideStage DEF IInv, StageInv
  <1> QED BY <1>3, <1>4, <1>5, <1>6, <1>7, ReadyStays DEF IInv, Ordered

\* Nothing is in hand before the first list.
StartInv == phase = "start" => queue = <<>> /\ stage = "idle"

LEMMA StepStart == ASSUME StartInv, [Next]_vars PROVE StartInv'
  <1> USE DEF StartInv, Notified, Put, Update, Done, operator
  <1>1. ASSUME NEW r \in Resources, NEW s \in Specs, UserCreates(r, s) \/ UserEdits(r, s) PROVE StartInv'
    BY <1>1 DEF UserCreates, UserEdits
  <1>2. ASSUME NEW r \in Resources, UserDeletes(r) \/ PatchHealth(r) PROVE StartInv'
    BY <1>2 DEF UserDeletes, PatchHealth
  <1>3. CASE CallFails
    BY <1>3 DEF CallFails, NextDelete
  <1>4. CASE Restart
    BY <1>4 DEF Restart
  <1>5. CASE Collect
    BY <1>5 DEF Collect, CollectGarbage
  <1>6. CASE ListAll \/ StartWatch
    BY <1>6 DEF ListAll, StartWatch
  <1>7. CASE Take
    BY <1>7 DEF Take
  <1>8. CASE ensureFinalizer
    BY <1>8 DEF ensureFinalizer
  <1>9. CASE Build \/ Apply \/ cleanup
    BY <1>9 DEF Build, Apply, cleanup, NextDelete
  <1>10. CASE patchCondition
    BY <1>10 DEF patchCondition
  <1>11. CASE removeFinalizer
    BY <1>11 DEF removeFinalizer
  <1>12. CASE UNCHANGED vars
    BY <1>12 DEF vars
  <1> QED BY <1>1, <1>2, <1>3, <1>4, <1>5, <1>6, <1>7, <1>8, <1>9, <1>10, <1>11, <1>12
          DEF Next, Run, Reconcile, Environment

LEMMA TakeIInv == ASSUME IInv, Take PROVE IInv'
  <1>1. /\ stage = "idle" /\ queue # <<>> /\ work' = Head(queue) /\ queue' = Tail(queue)
        /\ UNCHANGED <<cr, objs, phase, version, bounds>>
        /\ work'.deleting => stage' = "delete" /\ step' = 4
        /\ ~work'.deleting => stage' = "finalizer" /\ step' = 1
    BY DEF Take, ToBeCleaned
  <1>2. queue \in Seq(CR)
    BY Typed DEF IInv, Ordered
  <1>3. /\ Head(queue) \in CR /\ Head(queue) = queue[1] /\ 1 \in DOMAIN queue
        /\ Tail(queue) \in Seq(CR)
        /\ \A i \in DOMAIN Tail(queue) : /\ i + 1 \in DOMAIN queue /\ Tail(queue)[i] = queue[i + 1]
                                         /\ i \in Nat /\ 1 < i + 1
        /\ DOMAIN Tail(queue) \subseteq Nat
    BY <1>1, <1>2
  <1>4. Copies' \subseteq Copies
    BY <1>1, <1>3 DEF Copies
  <1>5. OrderInv'
    <2>1. ASSUME NEW i \in DOMAIN queue', NEW j \in DOMAIN queue', i < j
          PROVE  Older(queue'[i], queue'[j])
      <3>1. i + 1 < j + 1
        BY <1>1, <1>3, <2>1
      <3>2. Older(queue[i + 1], queue[j + 1])
        BY <1>1, <1>3, <2>1, <3>1 DEF IInv, Ordered, OrderInv
      <3> QED BY <1>1, <1>3, <2>1, <3>2
    <2>2. ASSUME NEW i \in DOMAIN queue' PROVE Older(work', queue'[i])
      BY <1>1, <1>3, <2>2 DEF IInv, Ordered, OrderInv
    <2> QED BY <2>1, <2>2 DEF OrderInv
  <1>6. TypeOK'
    BY <1>1, <1>3 DEF IInv, Ordered, TypeOK, Stages, bounds
  <1>7. StageInv'
    <2>1. work' # None
      BY <1>1, <1>3, CRFields
    <2> QED BY <1>1, <2>1 DEF StageInv
  <1> QED BY <1>1, <1>4, <1>5, <1>6, <1>7, CopiesStay, ReadyStays DEF IInv, Ordered

\* The copy at work is of its resource as it is, or as it was before.
LEMMA AtWork ==
    ASSUME IInv, stage # "idle"
    PROVE  /\ work \in CR /\ work # None /\ work \in Copies /\ CopyInv(work) /\ work.key \in Resources
           /\ work.key \in Keys
           /\ cr[work.key] # None => CopyOf(work, cr[work.key]) /\ cr[work.key] \in CR
           /\ Current(work) => cr[work.key] = work
  <1>1. work \in CR /\ work # None /\ work \in Copies /\ CopyInv(work)
    BY Typed DEF IInv, Ordered, StageInv, CopiesInv, Copies
  <1>2. work.key \in Resources /\ work.key \in Keys
    BY <1>1, CRFields DEF Keys
  <1>3. cr[work.key] # None => CopyOf(work, cr[work.key]) /\ cr[work.key] \in CR
    BY <1>1, <1>2, Typed DEF IInv, Ordered, CopyInv
  <1>4. Current(work) => cr[work.key] = work
    BY <1>3 DEF Current, CopyOf
  <1> QED BY <1>1, <1>2, <1>3, <1>4

\* As long as it is held, no copy is of another resource of the name.
LEMMA Foremost ==
    ASSUME IInv, stage # "idle", Held(work)
    PROVE  /\ cr[work.key].observed <= work.generation /\ work.generation <= cr[work.key].generation
           /\ \A z \in Copies : z.key = work.key =>
                  z.uid = cr[work.key].uid /\ work.generation <= z.generation
  <1>1. /\ work \in CR /\ CopyOf(work, cr[work.key]) /\ cr[work.key] \in CR
        /\ cr[work.key].uid = work.uid
    BY AtWork DEF Held
  <1>2. cr[work.key].observed <= work.generation /\ work.generation <= cr[work.key].generation
    BY <1>1 DEF CopyOf
  <1>3. ASSUME NEW z \in Copies, z.key = work.key
        PROVE  z.uid = cr[work.key].uid /\ work.generation <= z.generation
    <2>1. CASE z = work
      BY <1>1, <2>1, CRFields
    <2>2. CASE z # work
      <3>1. Older(work, z)
        BY <1>1, <2>2, AtWork DEF Copies, IInv, Ordered, OrderInv
      <3>2. work.uid <= z.uid /\ (work.uid = z.uid => work.generation <= z.generation)
        BY <1>3, <3>1 DEF Older
      <3>3. z \in CR /\ z.uid <= cr[work.key].uid
        BY <1>3, Typed DEF Held, IInv, Ordered, CopiesInv, CopyInv, CopyOf
      <3> QED BY <1>1, <3>2, <3>3, CRFields
    <2> QED BY <2>1, <2>2
  <1> QED BY <1>2, <1>3

LEMMA FinalizedTyped ==
    ASSUME NEW c \in CR
    PROVE  LET x == [c EXCEPT !.finalizer = TRUE] IN
           /\ x \in CR /\ x.key = c.key /\ x.uid = c.uid /\ x.rv = c.rv /\ x.generation = c.generation
           /\ x.spec = c.spec /\ x.observed = c.observed /\ x.condition = c.condition
           /\ x.deleting = c.deleting /\ x.finalizer
  BY DEF CR

LEMMA FinalizerIInv == ASSUME IInv, ensureFinalizer PROVE IInv'
  <1>1. stage = "finalizer" /\ UNCHANGED <<objs, bounds>>
    BY DEF ensureFinalizer
  <1>2. /\ work \in CR /\ work # None /\ CopyInv(work) /\ work.key \in Resources
        /\ Current(work) => cr[work.key] = work
    BY <1>1, AtWork
  <1>3. CASE work.finalizer
    <2>1. stage' = "build" /\ UNCHANGED <<cr, objs, queue, version, phase, step, work, bounds>>
      BY <1>1, <1>3 DEF ensureFinalizer
    <2>2. TypeOK'
      BY <2>1 DEF IInv, Ordered, TypeOK, Stages, bounds
    <2>3. Copies' = Copies /\ OrderInv'
      BY <2>1 DEF Copies, IInv, Ordered, OrderInv, Older
    <2>4. StageInv'
      BY <1>1, <1>2, <1>3, <2>1 DEF IInv, StageInv, Held, CopyInv
    <2> QED BY <2>1, <2>2, <2>3, <2>4, CopiesStay, ReadyStays DEF IInv, Ordered
  <1>4. CASE ~work.finalizer /\ ~Current(work)
    <2> DEFINE x == [work EXCEPT !.finalizer = TRUE]
    <2>1. ~Current(x)
      BY <1>2, <1>4, FinalizedTyped DEF Current
    <2>2. Update(x) /\ Done
      BY <1>4 DEF ensureFinalizer
    <2>3. UNCHANGED <<cr, objs, queue, version, phase, bounds>> /\ stage' = "idle" /\ step' = 0 /\ work' = None
      BY <1>1, <2>1, <2>2 DEF Update, Done
    <2>4. phase' \in {"start", "all", "watch"} /\ {edits', patches', errors', restarts'} \subseteq Nat
      BY <2>3 DEF IInv, Ordered, TypeOK, bounds
    <2> QED BY <2>3, <2>4, IdleIInv
  <1>5. CASE ~work.finalizer /\ Current(work)
    <2> DEFINE x == [work EXCEPT !.finalizer = TRUE]
               k == work.key
    <2>1. /\ x \in CR /\ x.key = k /\ x.uid = work.uid /\ x.generation = work.generation
          /\ x.spec = work.spec /\ x.observed = work.observed /\ x.condition = work.condition
          /\ x.deleting = work.deleting /\ x.finalizer /\ Current(x)
      BY <1>2, <1>5, FinalizedTyped DEF Current
    <2>2. Update(x) /\ stage' = "build" /\ UNCHANGED <<phase, step, work>>
      BY <1>5 DEF ensureFinalizer
    <2>3. Put(x)
      BY <2>1, <2>2 DEF Update
    <2> HIDE DEF x
    <2>4. cr[k] = work /\ k \in Resources
      BY <1>2, <1>5
    <2> HIDE DEF k
    <2>5. /\ work.observed <= work.generation /\ work.generation \in Nat
          /\ \A z \in Copies : z.key = k =>
                  /\ z.uid = work.uid => work.observed <= z.generation
                  /\ z.uid # work.uid => work.condition # "Reconciled"
      BY <1>2, <2>4, Existing DEF IInv
    <2>6. x.generation >= cr[k].generation
      BY <2>1, <2>4, <2>5
    <2>7. /\ cr' \in [Resources -> CR \cup {None}] /\ queue' \in Seq(CR) /\ version' \in Nat
          /\ CrInv' /\ OwnerInv' /\ CopiesInv' /\ OrderInv'
          /\ \A s \in Resources : cr'[s] = IF s = k THEN Written(x) ELSE cr[s]
      <3>1. Ordered /\ objs' = objs /\ work' = work /\ cr[x.key] # None /\ cr[x.key] = work
        BY <1>1, <1>2, <2>1, <2>2, <2>4 DEF IInv
      <3>2. /\ \A z \in Copies : z.key = x.key /\ z.uid = x.uid => x.observed <= z.generation
            /\ \A z \in Copies : z.key = x.key /\ z.uid # x.uid => x.condition # "Reconciled"
        BY <2>1, <2>5
      <3>3. x.generation >= cr[x.key].generation /\ x.observed <= x.generation
        BY <2>1, <2>4, <2>5, <2>6
      <3> QED BY <2>1, <2>3, <3>1, <3>2, <3>3, UpdateKeeps
    <2>8. /\ Written(x).key = k /\ Written(x).uid = work.uid /\ Written(x).generation = work.generation
          /\ Written(x).spec = work.spec /\ Written(x).condition = work.condition
          /\ Written(x).observed = work.observed /\ Written(x).deleting = work.deleting
          /\ Written(x).finalizer /\ Written(x) # None
      BY <2>1, PutEffect, CRFields DEF IInv
    <2>9. TypeOK'
      BY <1>1, <2>2, <2>7 DEF IInv, Ordered, TypeOK, Stages, bounds
    <2>10. StageInv'
      <3>1. Held(work)'
        BY <1>2, <2>2, <2>4, <2>7, <2>8 DEF Held, k
      <3> QED BY <1>1, <1>2, <2>2, <3>1 DEF IInv, StageInv
    <2>11. ReadyMeansApplied'
      <3>1. ASSUME NEW s \in Resources, Wanted(s)'
            PROVE  /\ Wanted(s) /\ cr'[s].condition = cr[s].condition
                   /\ cr'[s].observed = cr[s].observed /\ cr'[s].generation = cr[s].generation
                   /\ cr'[s].uid = cr[s].uid
        <4>1. CASE s # k
          BY <2>7, <3>1, <4>1 DEF Wanted, BuildDesired, WatchNamespace
        <4>2. CASE s = k
          <5>1. cr'[s] = Written(x) /\ cr[s] = work /\ work.key = k
            BY <2>4, <2>7, <4>2 DEF k
          <5> QED BY <1>2, <2>8, <3>1, <5>1 DEF Wanted, BuildDesired, WatchNamespace
        <4> QED BY <4>1, <4>2
      <3> QED BY <1>1, <3>1 DEF IInv, ReadyMeansApplied, Applied
    <2> QED BY <2>7, <2>9, <2>10, <2>11 DEF IInv, Ordered
  <1> QED BY <1>3, <1>4, <1>5

LEMMA BuildIInv == ASSUME IInv, Build PROVE IInv'
  <1>1. /\ stage = "build" /\ UNCHANGED <<cr, objs, phase, queue, step, work, version, bounds>>
        /\ (stage' = "apply" /\ BuildDesired(work)) \/ stage' = "fail"
    BY DEF Build
  <1>2. TypeOK'
    BY <1>1 DEF IInv, Ordered, TypeOK, Stages, bounds
  <1>3. Copies' = Copies /\ OrderInv'
    BY <1>1 DEF Copies, IInv, Ordered, OrderInv, Older
  <1>4. StageInv'
    <2>1. step = 1 /\ step' = 1 /\ work # None /\ work' = work
      BY <1>1 DEF IInv, StageInv
    <2>2. Held(work) /\ Held(work)' /\ (BuildDesired(work) => BuildDesired(work)')
      BY <1>1 DEF IInv, StageInv, Held, BuildDesired, WatchNamespace
    <2> QED BY <1>1, <2>1, <2>2 DEF StageInv
  <1> QED BY <1>1, <1>2, <1>3, <1>4, CopiesStay, ReadyStays DEF IInv, Ordered

\* The object is made, and made again, of a copy the resource is not past.
LEMMA ReplaceKeeps ==
    ASSUME IInv, stage = "apply", Replace, UNCHANGED <<cr, queue, work, version>>
    PROVE  /\ objs' \in [Keys -> [1..4 -> Object \cup {None}]]
           /\ CrInv' /\ OwnerInv' /\ CopiesInv' /\ OrderInv' /\ ReadyMeansApplied'
           /\ \A m \in Keys, j \in 1..4 :
                  objs'[m][j] = IF m = work.key /\ j = step THEN Made(work) ELSE objs[m][j]
  <1> DEFINE k == work.key
  <1>1. /\ work \in CR /\ work # None /\ k \in Resources /\ k \in Keys
        /\ Held(work) /\ BuildDesired(work) /\ step \in 1..4
    BY AtWork DEF IInv, StageInv
  <1>2. /\ cr[k] # None /\ cr[k].uid = work.uid /\ cr[k] \in CR
        /\ cr[k].observed <= work.generation /\ work.generation <= cr[k].generation
        /\ \A z \in Copies : z.key = k => z.uid = work.uid
    BY <1>1, Foremost, AtWork DEF Held
  <1>3. ResourceKey(work) = k
    BY <1>1, ObjectKeys
  <1>4. objs' = [objs EXCEPT ![k][step] = Made(work)]
    BY <1>3 DEF Replace, Made, OwnerRef
  <1>5. /\ objs \in [Keys -> [1..4 -> Object \cup {None}]] /\ Copies \subseteq CR /\ Copies' = Copies
        /\ \A r \in Resources : cr[r] # None => cr[r] \in CR
    BY Typed DEF IInv, Ordered, Copies
  <1>6. Made(work) \in Object /\ Made(work).owner = work.uid /\ Made(work).generation = work.generation
    BY <1>1 DEF Made, Object, CR
  <1> HIDE DEF k
  <1>7. /\ objs' \in [Keys -> [1..4 -> Object \cup {None}]]
        /\ \A m \in Keys, j \in 1..4 :
                  objs'[m][j] = IF m = k /\ j = step THEN Made(work) ELSE objs[m][j]
    BY <1>1, <1>4, <1>5, <1>6
  <1>8. CrInv' /\ OrderInv'
    BY DEF IInv, Ordered, CrInv, OrderInv, Older
  <1>9. OwnerInv'
    <2>1. \A r \in Resources : cr[r] # None /\ cr[r].uid = work.uid => r = k
      BY <1>1, <1>2 DEF IInv, Ordered, CrInv
    <2>2. work.uid <= version
      BY <1>1, <1>2 DEF IInv, Ordered, CrInv
    <2>3. ASSUME NEW m \in Keys, NEW j \in 1..4, objs'[m][j] # None
          PROVE  /\ objs'[m][j].owner <= version
                 /\ \A r \in Resources : cr[r] # None /\ cr[r].uid = objs'[m][j].owner => r = m
      <3>1. CASE m = k /\ j = step
        BY <1>6, <1>7, <2>1, <2>2, <3>1
      <3>2. CASE ~(m = k /\ j = step)
        BY <1>7, <2>3, <3>2 DEF IInv, Ordered, OwnerInv
      <3> QED BY <3>1, <3>2
    <2> QED BY <2>3 DEF OwnerInv
  <1>10. CopiesInv'
    <2>1. ASSUME NEW x \in Copies PROVE CopyInv(x)'
      <3>1. CopyInv(x) /\ x.key \in Keys
        BY <1>5, CRFields DEF IInv, Ordered, CopiesInv, Keys
      <3>2. CASE x.key = k
        BY <1>2, <3>1, <3>2 DEF CopyInv, CopyOf
      <3>3. CASE x.key # k
        BY <1>7, <3>1, <3>3 DEF CopyInv, CopyOf
      <3> QED BY <3>2, <3>3
    <2> QED BY <1>5, <2>1 DEF CopiesInv
  <1>11. ReadyMeansApplied'
    <2> SUFFICES ASSUME NEW r \in Resources, Wanted(r), cr[r].condition = "Reconciled",
                        cr[r].observed = cr[r].generation, NEW j \in 1..4
                 PROVE  objs'[r][j] = [owner |-> cr[r].uid, generation |-> cr[r].generation]
      <3>1. \A r \in Resources : Wanted(r)' <=> Wanted(r)
        BY DEF Wanted, BuildDesired, WatchNamespace
      <3> QED BY <3>1 DEF ReadyMeansApplied, Applied
    <2>1. objs[r][j] = [owner |-> cr[r].uid, generation |-> cr[r].generation] /\ r \in Keys
      BY DEF IInv, ReadyMeansApplied, Applied, Keys
    <2>2. CASE r = k
      <3>1. work.generation = cr[r].generation /\ work.uid = cr[r].uid
        BY <1>1, <1>2, <2>2, CRFields
      <3> QED BY <1>7, <2>1, <3>1 DEF Made
    <2>3. CASE r # k
      BY <1>7, <2>1, <2>3
    <2> QED BY <2>2, <2>3
  <1> QED BY <1>7, <1>8, <1>9, <1>10, <1>11 DEF k

LEMMA ApplyIInv == ASSUME IInv, Apply PROVE IInv'
  <1>1. /\ stage = "apply" /\ Replace /\ UNCHANGED <<cr, phase, queue, work, version, bounds>>
        /\ step = 4 => stage' = "ready" /\ step' = step
        /\ step # 4 => stage' = "apply" /\ step' = step + 1
    BY DEF Apply
  <1>2. /\ objs' \in [Keys -> [1..4 -> Object \cup {None}]]
        /\ CrInv' /\ OwnerInv' /\ CopiesInv' /\ OrderInv' /\ ReadyMeansApplied'
        /\ \A m \in Keys, j \in 1..4 :
               objs'[m][j] = IF m = work.key /\ j = step THEN Made(work) ELSE objs[m][j]
    BY <1>1, ReplaceKeeps
  <1>3. step \in 1..4 /\ step' \in 1..4 /\ stage' \in {"apply", "ready"}
    BY <1>1 DEF IInv, StageInv
  <1>4. TypeOK'
    BY <1>1, <1>2, <1>3 DEF IInv, Ordered, TypeOK, Stages, bounds
  <1>5. StageInv'
    <2>1. work # None /\ work.key \in Keys /\ work' = work
      BY <1>1, AtWork
    <2>2. Held(work)' /\ BuildDesired(work)'
      BY <1>1 DEF IInv, StageInv, Held, BuildDesired, WatchNamespace
    <2>3. \A j \in 1..4 : j <= step => objs'[work.key][j] = Made(work)
      BY <1>1, <1>2, <1>3, <2>1 DEF IInv, StageInv
    <2>4. Made(work)' = Made(work)
      BY <2>1 DEF Made
    <2> QED BY <1>1, <1>3, <2>1, <2>2, <2>3, <2>4 DEF StageInv
  <1> QED BY <1>2, <1>4, <1>5 DEF IInv, Ordered

LEMMA FailsIInv == ASSUME IInv, CallFails PROVE IInv'
  <1>1. /\ UNCHANGED <<cr, queue, version>>
        /\ {edits', patches', errors', restarts'} \subseteq Nat
    BY DEF CallFails, IInv, Ordered, TypeOK
  <1>2. CASE stage = "apply" /\ stage' = "fail" /\ (Replace \/ UNCHANGED objs) /\ UNCHANGED <<step, work, phase>>
    <2>1. /\ objs' \in [Keys -> [1..4 -> Object \cup {None}]]
          /\ CrInv' /\ OwnerInv' /\ CopiesInv' /\ OrderInv' /\ ReadyMeansApplied'
      <3>1. CASE Replace
        BY <1>1, <1>2, <3>1, ReplaceKeeps
      <3>2. CASE UNCHANGED objs
        <4>1. Copies' = Copies /\ OrderInv'
          BY <1>1, <1>2 DEF Copies, IInv, Ordered, OrderInv, Older
        <4>2. objs' \in [Keys -> [1..4 -> Object \cup {None}]]
          BY <3>2, Typed DEF IInv, Ordered
        <4> QED BY <1>1, <3>2, <4>1, <4>2, CopiesStay, ReadyStays DEF IInv, Ordered
      <3> QED BY <1>2, <3>1, <3>2
    <2>2. TypeOK'
      BY <1>1, <1>2, <2>1 DEF IInv, Ordered, TypeOK, Stages
    <2>3. StageInv'
      BY <1>1, <1>2 DEF IInv, StageInv, Held
    <2> QED BY <2>1, <2>2, <2>3 DEF IInv, Ordered
  <1>3. CASE stage = "delete" /\ NextDelete /\ UNCHANGED <<objs, work, phase>>
    <2>0. work # None /\ work.deleting /\ step \in 1..4
      BY <1>3, AtWork DEF IInv, StageInv
    <2>1. \/ stage' = "release" /\ step' = step
          \/ step # 1 /\ step' = step - 1 /\ stage' = "delete"
      BY <1>3 DEF NextDelete
    <2>2. Copies' = Copies /\ OrderInv'
      BY <1>1, <1>3 DEF Copies, IInv, Ordered, OrderInv, Older
    <2>3. TypeOK'
      BY SMTT(60), <1>1, <1>3, <2>0, <2>1 DEF IInv, Ordered, TypeOK, Stages
    <2>4. StageInv'
      BY <1>3, <2>0, <2>1 DEF StageInv
    <2> QED BY <1>1, <1>3, <2>2, <2>3, <2>4, CopiesStay, ReadyStays DEF IInv, Ordered
  <1>4. CASE Done /\ UNCHANGED objs
    <2>1. stage' = "idle" /\ step' = 0 /\ work' = None /\ phase' \in {"start", "all", "watch"}
      BY <1>4 DEF Done, IInv, Ordered, TypeOK
    <2> QED BY <1>1, <1>4, <2>1, IdleIInv
  <1> QED BY <1>2, <1>3, <1>4 DEF CallFails

LEMMA ConditionIInv == ASSUME IInv, patchCondition PROVE IInv'
  <1> DEFINE k == work.key
             w == IF stage = "ready" THEN "Reconciled" ELSE "NotReady"
             x == [cr[k] EXCEPT !.condition = w, !.observed = work.generation]
  <1>1. stage \in {"ready", "fail"} /\ Done /\ UNCHANGED <<objs, bounds>>
    BY DEF patchCondition
  <1>2. Held(work) /\ work \in CR /\ k \in Resources /\ k \in Keys
    BY <1>1, AtWork DEF IInv, StageInv
  <1>3. /\ cr[k] # None /\ cr[k] \in CR /\ cr[k].key = k /\ cr[k].uid = work.uid /\ cr[k].finalizer
        /\ work.generation <= cr[k].generation
        /\ \A z \in Copies : z.key = k => z.uid = cr[k].uid /\ work.generation <= z.generation
    BY <1>1, <1>2, Foremost, AtWork DEF Held, IInv, Ordered, CrInv
  <1>4. /\ stage' = "idle" /\ step' = 0 /\ work' = None /\ phase' \in {"start", "all", "watch"}
        /\ {edits', patches', errors', restarts'} \subseteq Nat
    BY <1>1 DEF Done, IInv, Ordered, TypeOK, bounds
  <1>5. UNCHANGED <<cr, queue, version>> \/ Put(x)
    BY <1>2, <1>3 DEF patchCondition, ObservedGeneration
  <1>6. CASE UNCHANGED <<cr, queue, version>>
    BY <1>1, <1>4, <1>6, IdleIInv
  <1>7. CASE Put(x)
    <2>1. /\ x \in CR /\ x.key = k /\ x.uid = cr[k].uid /\ x.generation = cr[k].generation
          /\ x.spec = cr[k].spec /\ x.observed = work.generation /\ x.condition = w
          /\ x.deleting = cr[k].deleting /\ x.finalizer = cr[k].finalizer
      <3>1. w \in {"Reconciled", "NotReady"} /\ work.generation \in Nat
        BY <1>2, CRFields
      <3> HIDE DEF w
      <3>2. cr[k] \in CR /\ cr[k].key = k
        BY <1>3
      <3> HIDE DEF k
      <3> QED BY <3>1, <3>2 DEF CR
    <2> HIDE DEF x, w, k
    <2>2. /\ cr' \in [Resources -> CR \cup {None}] /\ queue' \in Seq(CR) /\ version' \in Nat
          /\ CrInv' /\ OwnerInv' /\ CopiesInv' /\ OrderInv'
          /\ \A s \in Resources : cr'[s] = IF s = k THEN Written(x) ELSE cr[s]
      <3>1. Ordered /\ objs' = objs /\ work' = None /\ cr[x.key] # None
        BY <1>1, <1>3, <1>4, <2>1 DEF IInv
      <3>2. /\ \A z \in Copies : z.key = x.key /\ z.uid = x.uid => x.observed <= z.generation
            /\ \A z \in Copies : z.key = x.key /\ z.uid # x.uid => x.condition # "Reconciled"
        BY <1>3, <2>1
      <3>3. x.generation >= cr[x.key].generation /\ x.observed <= x.generation
        BY <1>3, <2>1, CRFields
      <3> QED BY ZenonT(60), <1>3, <1>7, <2>1, <3>1, <3>2, <3>3, UpdateKeeps
    <2>3. /\ Written(x).key = k /\ Written(x).uid = cr[k].uid /\ Written(x).generation = cr[k].generation
          /\ Written(x).spec = cr[k].spec /\ Written(x).condition = w
          /\ Written(x).observed = work.generation /\ Written(x).deleting = cr[k].deleting
      BY <2>1, PutEffect DEF IInv
    <2>4. TypeOK'
      BY <1>1, <1>4, <2>2 DEF IInv, Ordered, TypeOK, Stages
    <2>5. StageInv'
      BY <1>4 DEF StageInv
    <2>6. ReadyMeansApplied'
      <3>1. ASSUME NEW s \in Resources, Wanted(s)', cr'[s].condition = "Reconciled",
                   cr'[s].observed = cr'[s].generation, NEW j \in 1..4
            PROVE  objs'[s][j] = [owner |-> cr'[s].uid, generation |-> cr'[s].generation]
        <4>1. CASE s = k
          <5>1. cr'[s] = Written(x)
            BY <2>2, <4>1
          <5>2. stage = "ready" /\ work.generation = cr[k].generation
            BY <1>1, <2>3, <3>1, <5>1 DEF w
          <5>3. objs[k][j] = Made(work)
            BY <5>2 DEF IInv, StageInv, k
          <5> QED BY <1>1, <1>3, <2>3, <4>1, <5>1, <5>2, <5>3 DEF Made
        <4>2. CASE s # k
          <5>1. cr'[s] = cr[s]
            BY <2>2, <4>2
          <5>2. Wanted(s)
            BY <3>1, <5>1 DEF Wanted, BuildDesired, WatchNamespace
          <5> QED BY <1>1, <3>1, <5>1, <5>2 DEF IInv, ReadyMeansApplied, Applied
        <4> QED BY <4>1, <4>2
      <3> QED BY <3>1 DEF ReadyMeansApplied, Applied
    <2> QED BY <2>2, <2>4, <2>5, <2>6 DEF IInv, Ordered
  <1> QED BY <1>5, <1>6, <1>7

\* What cleanup deletes no resource still wants.
LEMMA CleanedGo ==
    ASSUME IInv, NoNamesakes, stage = "delete", NEW r \in Resources, cr[r] # None,
           objs[ResourceKey(work)][step] # None, cr[r].uid = objs[ResourceKey(work)][step].owner
    PROVE  cr[r].deleting
  <1>1. work \in CR /\ work.deleting /\ step \in 1..4
    BY AtWork DEF IInv, StageInv
  <1>2. ResourceKey(work) \in Keys
    BY <1>1, ObjectKeys
  <1>3. r = ResourceKey(work)
    BY <1>1, <1>2 DEF IInv, Ordered, OwnerInv
  <1>4. r = work.key
    BY <1>1, <1>3, ObjectKeys
  <1>5. CopyOf(work, cr[r])
    BY <1>4, AtWork
  <1> QED BY <1>1, <1>3, <1>4, <1>5 DEF CopyOf

LEMMA CleanupIInv == ASSUME IInv, NoNamesakes, cleanup PROVE IInv'
  <1> DEFINE k == ResourceKey(work)
  <1>1. /\ stage = "delete" /\ objs' = [objs EXCEPT ![k][step] = None] /\ NextDelete
        /\ UNCHANGED <<cr, phase, queue, work, version, bounds>>
    BY DEF cleanup, Delete
  <1>2. work # None /\ work \in CR /\ work.deleting /\ step \in 1..4
    BY <1>1, AtWork DEF IInv, StageInv
  <1>3. \/ stage' = "release" /\ step' = step
        \/ step # 1 /\ step' = step - 1 /\ stage' = "delete"
    BY <1>1 DEF NextDelete
  <1>4. k \in Keys
    BY <1>2, ObjectKeys
  <1>5. objs[k][step] # None => \A r \in Resources :
               cr[r] # None /\ cr[r].uid = objs[k][step].owner => cr[r].deleting
    BY <1>1, CleanedGo
  <1> HIDE DEF k
  <1>6. /\ objs' \in [Keys -> [1..4 -> Object \cup {None}]]
        /\ CrInv' /\ OwnerInv' /\ CopiesInv' /\ OrderInv' /\ ReadyMeansApplied'
    BY <1>1, <1>2, <1>4, <1>5, ObjectGoes DEF IInv
  <1>7. TypeOK'
    BY SMTT(60), <1>1, <1>2, <1>3, <1>6 DEF IInv, Ordered, TypeOK, Stages, bounds
  <1>8. StageInv'
    BY <1>1, <1>2, <1>3 DEF StageInv
  <1> QED BY <1>6, <1>7, <1>8 DEF IInv, Ordered

LEMMA ReleasedTyped ==
    ASSUME NEW c \in CR
    PROVE  LET x == Released(c) IN
           /\ x \in CR /\ x.key = c.key /\ x.uid = c.uid /\ x.rv = c.rv /\ x.generation = c.generation
           /\ x.observed = c.observed /\ x.deleting = c.deleting /\ ~x.finalizer
  BY DEF CR, Released

LEMMA ReleaseIInv == ASSUME IInv, removeFinalizer PROVE IInv'
  <1> DEFINE k == work.key
             x == Released(work)
             y == Written(x)
  <1>1. stage = "release" /\ Update(x) /\ Done /\ UNCHANGED <<objs, bounds>>
    BY DEF removeFinalizer
  <1>2. /\ work \in CR /\ work # None /\ work.deleting /\ k \in Resources
        /\ Current(work) => cr[k] = work
    BY <1>1, AtWork DEF IInv, StageInv
  <1>3. /\ x \in CR /\ x.key = k /\ x.uid = work.uid /\ x.rv = work.rv /\ x.generation = work.generation
        /\ x.observed = work.observed /\ x.deleting = work.deleting /\ ~x.finalizer
    BY <1>2, ReleasedTyped
  <1>4. /\ stage' = "idle" /\ step' = 0 /\ work' = None /\ phase' \in {"start", "all", "watch"}
        /\ {edits', patches', errors', restarts'} \subseteq Nat
    BY <1>1 DEF Done, IInv, Ordered, TypeOK, bounds
  <1> HIDE DEF x
  <1>5. CASE ~Current(x)
    <2>1. UNCHANGED <<cr, queue, version>>
      BY <1>1, <1>5 DEF Update
    <2> QED BY <1>1, <1>4, <2>1, IdleIInv
  <1>6. CASE Current(x)
    <2>1. Put(x) /\ cr[k] = work
      BY <1>1, <1>2, <1>3, <1>6 DEF Update, Current
    <2>2. /\ y \in CR /\ y.key = k /\ y.uid = work.uid /\ y.rv = version + 1
          /\ y.generation = work.generation /\ y.observed = work.observed /\ ~y.finalizer
          /\ version' = version + 1 /\ cr' = [cr EXCEPT ![k] = None]
          /\ queue' = queue \/ queue' = Append(queue, y)
      BY <1>2, <1>3, <2>1, PutEffect DEF IInv, Left
    <2> HIDE DEF y, k
    <2>3. /\ work.rv <= version /\ work.uid <= version /\ work.observed <= work.generation
          /\ \A s \in Resources \ {k} : cr[s] # None => cr[s].uid # work.uid
      BY <1>2, <2>1 DEF IInv, Ordered, CrInv
    <2>4. cr \in [Resources -> CR \cup {None}] /\ version \in Nat /\ Copies \subseteq CR /\ queue \in Seq(CR)
      BY Typed DEF IInv, Ordered
    <2>5. ASSUME NEW z \in Copies, z.key = k
          PROVE  /\ z.uid <= y.uid /\ (z.uid = y.uid => z.generation <= y.generation)
                 /\ z \in Copies' => ~z.finalizer
      <3>1. CopyOf(z, work)
        BY <1>2, <2>1, <2>5 DEF IInv, Ordered, CopiesInv, CopyInv
      <3>2. ASSUME z \in Copies', z # y PROVE FALSE
        <4>1. PICK i \in DOMAIN queue : z = queue[i]
          <5>1. CASE queue' = queue
            BY <1>4, <3>2, <5>1 DEF Copies
          <5>2. CASE queue' = Append(queue, y)
            <6>1. \A i \in DOMAIN queue' : queue'[i] = y \/ (i \in DOMAIN queue /\ queue'[i] = queue[i])
              BY <2>4, <5>2
            <6> QED BY <1>4, <3>2, <6>1 DEF Copies
          <5> QED BY <2>2, <5>1, <5>2
        <4>2. Older(work, z)
          BY <1>2, <4>1 DEF IInv, Ordered, OrderInv
        <4>3. work.rv < z.rv /\ z.rv <= work.rv
          BY <2>5, <3>1, <4>2 DEF Older, CopyOf, k
        <4> QED BY <1>2, <2>4, <4>3, CRFields
      <3> QED BY <2>2, <3>1, <3>2 DEF CopyOf
    <2>6. /\ cr' \in [Resources -> CR \cup {None}] /\ queue' \in Seq(CR) /\ version' \in Nat
          /\ CrInv' /\ OwnerInv' /\ CopiesInv' /\ OrderInv'
      <3>1. \A z \in Copies : z.key = y.key =>
               /\ z.uid <= y.uid /\ (z.uid = y.uid => z.generation <= y.generation)
               /\ z \in Copies' => ~z.finalizer
        BY <2>2, <2>5
      <3>2. \A s \in Resources \ {y.key} : cr[s] # None => cr[s].uid # y.uid
        BY <2>2, <2>3
      <3>3. \A m \in Keys, i \in 1..4 : objs[m][i] # None /\ objs[m][i].owner = y.uid => m = y.key
        BY <1>2, <2>1, <2>2 DEF IInv, Ordered, OwnerInv, k
      <3>4. /\ Ordered /\ version' = version + 1 /\ objs' = objs /\ work' = None
            /\ cr' = [cr EXCEPT ![y.key] = None] /\ None \in {y, None}
            /\ queue' = queue \/ queue' = Append(queue, y)
        BY <1>1, <1>4, <2>2 DEF IInv
      <3>5. y.uid <= version + 1 /\ y.observed <= y.generation
        BY <1>2, <2>2, <2>3, <2>4, CRFields
      <3> QED BY <2>2, <3>1, <3>2, <3>3, <3>4, <3>5, WriteKeeps
    <2>7. cr'[k] = None /\ \A s \in Resources \ {k} : cr'[s] = cr[s]
      BY <1>2, <2>2, <2>4 DEF k
    <2>8. TypeOK'
      BY <1>1, <1>4, <2>6 DEF IInv, Ordered, TypeOK, Stages
    <2>9. StageInv'
      BY <1>4 DEF StageInv
    <2>10. ReadyMeansApplied'
      BY <1>1, <1>2, <2>7, OthersReady DEF IInv, k
    <2> QED BY <2>6, <2>8, <2>9, <2>10 DEF IInv, Ordered
  <1> QED BY <1>5, <1>6

LEMMA StepIInv == ASSUME NoNamesakes, IInv, StartInv, [Next]_vars PROVE IInv'
  <1>1. ASSUME NEW r \in Resources, NEW s \in Specs, UserCreates(r, s) \/ UserEdits(r, s) PROVE IInv'
    BY <1>1, CreateIInv, EditIInv
  <1>2. ASSUME NEW r \in Resources, UserDeletes(r) \/ PatchHealth(r) PROVE IInv'
    BY <1>2, DeleteIInv, PatchIInv
  <1>3. CASE CallFails \/ Restart
    BY <1>3, FailsIInv, RestartIInv
  <1>4. CASE Collect
    BY <1>4, CollectIInv DEF Collect
  <1>5. CASE ListAll
    <2>1. PICK q \in Listings : queue' = q
      BY <1>5 DEF ListAll
    <2>2. stage = "idle" /\ phase' = "all" /\ UNCHANGED <<cr, objs, stage, step, work, version, bounds>>
      BY <1>5 DEF ListAll, StartInv
    <2> QED BY <2>1, <2>2, ListingIInv
  <1>6. CASE StartWatch
    <2>1. PICK q \in Listings : queue' = q
      BY <1>6 DEF StartWatch, WatchListings
    <2>2. stage = "idle" /\ phase' = "watch" /\ UNCHANGED <<cr, objs, stage, step, work, version, bounds>>
      BY <1>6 DEF StartWatch
    <2> QED BY <2>1, <2>2, ListingIInv
  <1>7. CASE Reconcile
    BY <1>7, TakeIInv, FinalizerIInv, BuildIInv, ApplyIInv, ConditionIInv, CleanupIInv, ReleaseIInv
       DEF Reconcile
  <1>8. CASE UNCHANGED vars
    <2>1. UNCHANGED <<cr, objs, phase, queue, stage, step, work, version, edits, patches, errors, restarts>>
      BY <1>8 DEF vars, operator, bounds
    <2>2. Copies' = Copies /\ OrderInv'
      BY <2>1 DEF Copies, IInv, Ordered, OrderInv, Older
    <2>3. TypeOK'
      BY <2>1 DEF IInv, Ordered, TypeOK
    <2>4. StageInv'
      BY <2>1, AsideStage DEF IInv, Held
    <2> QED BY <2>1, <2>2, <2>3, <2>4, CopiesStay, ReadyStays DEF IInv, Ordered
  <1> QED BY <1>1, <1>2, <1>3, <1>4, <1>5, <1>6, <1>7, <1>8 DEF Next, Run, Environment

LEMMA AlwaysIInv == ASSUME NoNamesakes PROVE Spec => [](IInv /\ StartInv)
  <1>1. Init => IInv /\ StartInv
    BY InitIInv DEF Init, StartInv
  <1>2. IInv /\ StartInv /\ [Next]_vars => (IInv /\ StartInv)'
    BY StepIInv, StepStart
  <1> QED BY <1>1, <1>2, PTL DEF Spec

(* The status of a resource tells the truth: one called reconciled in its    *)
(* present generation has its four objects, made from that generation and    *)
(* owned by it, whichever old copies the operator worked from, whatever call *)
(* failed and however often it restarted (reconcile.go:116).                 *)
THEOREM StatusIsTruthful == ASSUME NoNamesakes PROVE Spec => []StatusTruthful
  <1>1. IInv /\ StartInv => StatusTruthful
    BY DEF IInv, Ordered, StatusTruthful
  <1> QED BY <1>1, AlwaysIInv, PTL

LEMMA StepCleans ==
    ASSUME NoNamesakes, IInv, [Next]_vars, NEW k \in Keys, NEW i \in 1..4,
           objs[k][i] # None, objs'[k][i] = None, NEW r \in Resources,
           cr[r] # None, cr[r].uid = objs[k][i].owner
    PROVE  cr[r].deleting
  <1>1. /\ objs \in [Keys -> [1..4 -> Object \cup {None}]] /\ objs' # objs
    BY Typed DEF IInv, Ordered
  <1>2. CASE cleanup
    <2>1. stage = "delete" /\ objs' = [objs EXCEPT ![ResourceKey(work)][step] = None]
      BY <1>2 DEF cleanup, Delete
    <2>2. k = ResourceKey(work) /\ i = step
      BY <1>1, <2>1
    <2> QED BY <2>1, <2>2, CleanedGo
  <1>3. ASSUME NEW m \in Keys, NEW j \in 1..4, CollectGarbage(m, j) PROVE FALSE
    <2>1. ~Live(objs[m][j].owner) /\ objs' = [objs EXCEPT ![m][j] = None]
      BY <1>3 DEF CollectGarbage
    <2>2. m = k /\ j = i
      BY <1>1, <2>1
    <2> QED BY <2>1, <2>2 DEF Live
  <1>4. CASE stage = "apply" /\ Replace
    <2>1. work \in CR /\ BuildDesired(work)
      BY <1>4, AtWork DEF IInv, StageInv
    <2>2. /\ ResourceKey(work) \in Keys /\ step \in 1..4
          /\ objs' = [objs EXCEPT ![ResourceKey(work)][step] = Made(work)]
      BY <1>4, <2>1, ObjectKeys DEF Replace, Made, OwnerRef, IInv, StageInv
    <2>3. Made(work) # None
      <3>1. Made(work) \in Object
        BY <2>1 DEF Made, Object, CR
      <3> QED BY <3>1, OperatorAssumption
    <2> QED BY <1>1, <2>2, <2>3
  <1>5. \/ cleanup \/ Collect \/ (stage = "apply" /\ Replace) \/ objs' = objs
    <2>1. CASE Environment
      BY <2>1 DEF Environment, UserCreates, UserEdits, UserDeletes, PatchHealth, CallFails, Restart
    <2>2. CASE Run
      BY <2>2 DEF Run, Reconcile, ListAll, StartWatch, Take, ensureFinalizer, Build, Apply,
                  patchCondition, removeFinalizer
    <2>3. CASE UNCHANGED vars
      BY <2>3 DEF vars
    <2> QED BY <2>1, <2>2, <2>3 DEF Next
  <1> QED BY <1>1, <1>2, <1>3, <1>4, <1>5 DEF Collect

(* Clean-up and the garbage collector take no object whose owner exists and  *)
(* is not to be deleted, whichever old copy of a resource cleanup works      *)
(* from (reconcile.go:70).                                                   *)
THEOREM OnlyDeletedIsCleaned == ASSUME NoNamesakes PROVE Spec => CleansOnlyDeleted
  <1>1. IInv /\ StartInv /\ [Next]_vars =>
            [\A k \in Keys, i \in 1..4 : objs[k][i] # None /\ objs'[k][i] = None =>
                ~\E r \in Resources : cr[r] # None /\ cr[r].uid = objs[k][i].owner /\ ~cr[r].deleting]_vars
    BY StepCleans
  <1> QED BY <1>1, AlwaysIInv, PTL DEF Spec, CleansOnlyDeleted
==================================================================================
