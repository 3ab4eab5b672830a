---------------------------- MODULE Effects_proofs ----------------------------
(***************************************************************************)
(* Theorems about what carrying out a plan does: to a cluster (Executor),  *)
(* and to what the agent knows (Learning).  The two share no state; each   *)
(* has its part here.                                                      *)
(*                                                                         *)
(* Executor, for any plans, processes, users and faults.  Three things     *)
(* carry the argument.  A version that has not moved since the read        *)
(* vouches for the copy, although not for what was listed after it.  What  *)
(* a controller publishes it has done: the generation it says it has       *)
(* observed is one it has seen, and pods that are all there have run.  And *)
(* the newest revision counts the roll-outs, so that of the revisions      *)
(* below it the greatest belongs to the one before.                        *)
(***************************************************************************)
EXTENDS Executor, Learning, FiniteSetTheorems, WellFoundedInduction, TLAPS

\* The replica sets of a Deployment, against the templates rolled out.
Numbering(s, r) ==
    /\ \A t \in Templates : s[t] <= Len(r)
    /\ Len(r) > 0 => s[r[Len(r)]] = Len(r)
    /\ Len(r) > 1 => s[r[Len(r) - 1]] = Len(r) - 1
    /\ \A t, u \in Templates : s[t] = s[u] /\ s[t] # 0 => t = u

\* As a listing shows them that may have been made before the last roll-out.
Listing(s, r) ==
    /\ \A t \in Templates : s[t] <= Len(r)
    /\ Len(r) > 1 => s[r[Len(r) - 1]] = Len(r) - 1
    /\ \A t, u \in Templates : s[t] = s[u] /\ s[t] # 0 => t = u

\* What a controller has done and published of object o.
Followed(o) ==
    /\ Ran(ctl[o]) => ran[o] = ctl[o].generation
    /\ obj[o] = Absent => ctl[o].generation = 0
    /\ obj[o] # Absent =>
        /\ ctl[o].generation <= obj[o].generation /\ obj[o].observed <= ctl[o].generation
        /\ Kind[o] \in Workloads /\ Seen(o) => ctl[o].replicas = Desired(o, obj[o].replicas)
        /\ Kind[o] \in Workloads /\ Complete(o, obj[o]) => ran[o] >= obj[o].generation

Numbers(o) ==
    IF Kind[o] = "Deployment" THEN Numbering(rs[o], rolled[o]) ELSE rs[o] = NoSets

ClusterType ==
    /\ obj \in [Objects -> ObjectType \cup {Absent}]
    /\ version \in [Objects -> Nat]
    /\ rs \in [Objects -> SetType]
    /\ ctl \in [Objects -> CtlType]
    /\ rolled \in [Objects -> Seq(Templates)]
    /\ ran \in [Objects -> Nat]

ClusterInv == ClusterType /\ \A o \in Objects : Followed(o) /\ Numbers(o)

\* How far process p is in its plan.
Progress(p) ==
    /\ wrote[p] = [i \in 1..Len(wrote[p]) |-> i]
    /\ proc[p].at \in {"act", "list", "update", "create"} =>
           proc[p].n <= Len(proc[p].plan) /\ Len(wrote[p]) = proc[p].n - 1
    /\ proc[p].at \in {"wait", "verify"} \/ proc[p].result \in {"ok", "pending", "failed"} =>
           Len(wrote[p]) = Len(proc[p].plan)
    /\ proc[p].at # "done" => proc[p].result = "none"

\* What the version a process has read vouches for.
Vouched(p) ==
    proc[p].at \in {"list", "update"} =>
        /\ proc[p].copy # Absent /\ proc[p].ver <= version[On(p)] /\ Act(p).op # "delete"
        /\ Current(p) => proc[p].copy = obj[On(p)]
        /\ Current(p) /\ proc[p].at = "update" /\ Act(p).op = "rollback" =>
               IF Kind[On(p)] # "Deployment" THEN proc[p].rs = NoSets
               ELSE IF Seen(On(p)) THEN Listing(proc[p].rs, rolled[On(p)])
               ELSE proc[p].rs = rs[On(p)]

ProcInv(p) ==
    proc[p] \in ProcType /\ wrote[p] \in Seq(Nat) /\ Progress(p) /\ Vouched(p)

ProcsInv ==
    /\ proc \in [Processes -> ProcType] /\ wrote \in [Processes -> Seq(Nat)]
    /\ \A p \in Processes : ProcInv(p)

IInv == ClusterInv /\ ProcsInv /\ edits \in 0..MaxEdits

--------------------------------------------------------------------------------

LEMMA ObjectFields ==
    ASSUME NEW x \in ObjectType
    PROVE  /\ x.generation \in Nat /\ x.template \in Templates /\ x.replicas \in Nat
           /\ x.revision \in Nat /\ x.uid \in Nat /\ x.observed \in Nat /\ x.updated \in Nat
           /\ x.total \in Nat /\ x.desired \in Nat /\ x # Absent
  BY SizesAssumption DEF ObjectType

LEMMA PlanFields ==
    ASSUME NEW f \in ProcType
    PROVE  /\ f.plan \in Seq(ActionType) /\ Len(f.plan) \in Nat \ {0} /\ f.n \in Nat \ {0}
           /\ f.n <= Len(f.plan) => f.plan[f.n] \in ActionType /\ f.plan[f.n].obj \in Objects
  <1>1. f.plan \in PlanType /\ f.n \in Nat \ {0}
    BY DEF ProcType
  <1>2. f.plan \in Seq(ActionType) /\ f.plan # <<>>
    BY <1>1 DEF PlanType
  <1>3. Len(f.plan) \in Nat \ {0}
    BY <1>2
  <1>4. f.n <= Len(f.plan) => f.plan[f.n] \in ActionType
    BY <1>1, <1>2, <1>3
  <1>5. \A a \in ActionType : a.obj \in Objects
    BY DEF ActionType
  <1> QED BY <1>1, <1>2, <1>3, <1>4, <1>5

LEMMA MaxIs ==
    ASSUME NEW S \in SUBSET Nat, NEW x \in S, \A y \in S : y <= x
    PROVE  Max(S) = x
  <1>1. \A y \in S : x >= y
    OBVIOUS
  <1>2. Max(S) \in S /\ \A y \in S : Max(S) >= y
    BY <1>1 DEF Max
  <1> HIDE DEF Max
  <1>3. Max(S) \in Nat /\ x \in Nat
    BY <1>2
  <1> QED BY <1>2, <1>3

LEMMA Largest ==
    ASSUME NEW n \in Nat, NEW T \in SUBSET (0..n), T # {}
    PROVE  \E x \in T : \A y \in T : y <= x
  <1> DEFINE D == {n - x : x \in T}
             R == OpToRel(<, Nat)
  <1>1. D \subseteq Nat /\ D # {}
    <2>1. \A x \in T : n - x \in Nat
      OBVIOUS
    <2> QED BY <2>1
  <1>2. PICK d \in D : \A y \in D : ~(<<y, d>> \in R)
    <2>1. IsWellFoundedOn(R, Nat)
      BY NatLessThanWellFounded
    <2> HIDE DEF D, R
    <2> QED BY <1>1, <2>1, WFMin
  <1>3. \A y \in D : ~(y < d)
    BY <1>1, <1>2 DEF OpToRel
  <1>4. PICK x \in T : d = n - x
    BY <1>2
  <1>5. \A y \in T : ~(n - y < n - x)
    BY <1>3, <1>4
  <1> QED BY <1>5

\* The newest revision is the number of templates rolled out.
LEMMA NewestCounts ==
    ASSUME NEW s \in SetType, NEW r \in Seq(Templates), Numbering(s, r)
    PROVE  Newest(s) = Len(r)
  <1> DEFINE S == {s[t] : t \in Templates}
  <1>1. S \subseteq Nat /\ \A y \in S : y <= Len(r)
    BY DEF SetType, Numbering
  <1>2. Len(r) \in S
    <2>1. CASE Len(r) > 0
      <3>1. r[Len(r)] \in Templates
        BY <2>1
      <3> QED BY <2>1, <3>1 DEF Numbering
    <2>2. CASE Len(r) = 0
      <3>1. PICK t \in Templates : TRUE
        BY SizesAssumption
      <3>2. s[t] \in Nat /\ s[t] <= 0
        BY <2>2 DEF SetType, Numbering
      <3>3. s[t] = 0
        BY <3>2
      <3> QED BY <2>2, <3>3
    <2> QED BY <2>1, <2>2
  <1> HIDE DEF S
  <1>3. Max(S) = Len(r)
    BY <1>1, <1>2, MaxIs
  <1> QED BY <1>3 DEF S, Newest

\* A template that is rolled out gets the number of the roll-out.
LEMMA NumberedKeeps ==
    ASSUME NEW s \in SetType, NEW r \in Seq(Templates), Numbering(s, r), NEW t \in Templates,
           NEW q, q = IF r # <<>> /\ r[Len(r)] = t THEN r ELSE Append(r, t)
    PROVE  /\ Numbered(s, t) \in SetType /\ q \in Seq(Templates)
           /\ Numbering(Numbered(s, t), q) /\ Listing(s, q)
  <1>1. Newest(s) = Len(r) /\ Len(r) \in Nat /\ \A u \in Templates : s[u] \in Nat
    BY NewestCounts DEF SetType
  <1>2. CASE r # <<>> /\ r[Len(r)] = t
    <2>1. s[t] = Len(r) /\ Len(r) # 0 /\ q = r
      BY <1>1, <1>2 DEF Numbering
    <2>2. Numbered(s, t) = s
      BY <1>1, <2>1 DEF Numbered
    <2> QED BY <2>1, <2>2 DEF Numbering, Listing
  <1>3. CASE ~(r # <<>> /\ r[Len(r)] = t)
    <2>1. /\ q = Append(r, t) /\ Len(q) = Len(r) + 1 /\ q[Len(r) + 1] = t
          /\ \A i \in 1..Len(r) : q[i] = r[i] /\ r[i] \in Templates
      BY <1>1, <1>3
    <2>2. ~(s[t] # 0 /\ s[t] = Len(r))
      <3>1. CASE Len(r) = 0
        BY <3>1
      <3>2. CASE Len(r) > 0
        <4>1. r[Len(r)] \in Templates /\ s[r[Len(r)]] = Len(r) /\ r[Len(r)] # t
          BY <1>1, <1>3, <2>1, <3>2 DEF Numbering
        <4> QED BY <3>2, <4>1 DEF Numbering
      <3> QED BY <1>1, <3>1, <3>2
    <2> DEFINE z == [s EXCEPT ![t] = Len(r) + 1]
    <2>3. Numbered(s, t) = z
      BY <1>1, <2>2 DEF Numbered
    <2>4. z \in SetType /\ \A u \in Templates : z[u] = IF u = t THEN Len(r) + 1 ELSE s[u]
      BY <1>1 DEF SetType
    <2>5. \A u \in Templates : z[u] \in Nat /\ z[u] <= Len(r) + 1 /\ s[u] <= Len(r) /\ s[u] <= Len(r) + 1
      BY <1>1, <2>4 DEF Numbering
    <2>6. Len(r) > 0 => z[q[Len(r)]] = Len(r) /\ s[q[Len(r)]] = Len(r)
      <3> SUFFICES ASSUME Len(r) > 0 PROVE z[q[Len(r)]] = Len(r) /\ s[q[Len(r)]] = Len(r)
        OBVIOUS
      <3>1. q[Len(r)] = r[Len(r)] /\ r[Len(r)] \in Templates /\ s[r[Len(r)]] = Len(r) /\ r[Len(r)] # t
        BY <1>1, <1>3, <2>1 DEF Numbering
      <3> QED BY <2>4, <3>1
    <2>7. ASSUME NEW u \in Templates, NEW v \in Templates, z[u] = z[v], z[u] # 0 PROVE u = v
      BY <1>1, <2>4, <2>5, <2>7 DEF Numbering
    <2>8. (Len(r) + 1) - 1 = Len(r) /\ (Len(r) + 1 > 1 => Len(r) > 0)
      BY <1>1
    <2>9. Numbering(z, q)
      BY <1>1, <2>1, <2>4, <2>5, <2>6, <2>7, <2>8 DEF Numbering
    <2>10. Listing(s, q)
      BY <1>1, <2>1, <2>5, <2>6, <2>8 DEF Listing, Numbering
    <2> QED BY <2>1, <2>3, <2>4, <2>9, <2>10
  <1> QED BY <1>2, <1>3

\* Every object is as it was, as far as a version that has not moved can tell.
Moves ==
    \A o \in Objects :
        /\ version'[o] \in Nat /\ version'[o] >= version[o]
        /\ version'[o] = version[o] =>
               /\ obj'[o] = obj[o] /\ rs'[o] = rs[o] /\ rolled'[o] = rolled[o]
               /\ ctl'[o].generation = ctl[o].generation

\* What Put stores.
Stored(o, new) ==
    [new EXCEPT !.generation = IF SpecOf(new) = SpecOf(obj[o]) THEN @ ELSE @ + 1]

LEMMA StoredFields ==
    ASSUME NEW o \in Objects, NEW new \in ObjectType
    PROVE  LET x == Stored(o, new) IN
           /\ x \in ObjectType /\ x.template = new.template /\ x.replicas = new.replicas
           /\ x.revision = new.revision /\ x.uid = new.uid /\ x.terminating = new.terminating
           /\ x.observed = new.observed /\ x.updated = new.updated /\ x.total = new.total
           /\ x.desired = new.desired
           /\ x.generation = IF SpecOf(new) = SpecOf(obj[o]) THEN new.generation ELSE new.generation + 1
  <1>1. new.generation \in Nat /\ new.generation + 1 \in Nat
    BY DEF ObjectType
  <1> QED BY <1>1 DEF ObjectType, Stored

\* A write that is not ahead of the controller keeps what the controller did.
LEMMA PutCluster ==
    ASSUME ClusterInv, NEW o \in Objects, obj[o] # Absent, NEW new \in ObjectType, Put(o, new),
           UNCHANGED <<rs, ctl, rolled, ran>>,
           new.generation = obj[o].generation, new.observed <= ctl[o].generation,
           Kind[o] \in Workloads /\ SpecOf(new) = SpecOf(obj[o]) /\ Complete(o, new) =>
               ran[o] >= obj[o].generation
    PROVE  /\ ClusterInv' /\ Moves
           /\ obj' = [obj EXCEPT ![o] = Stored(o, new)]
  <1> DEFINE x == Stored(o, new)
  <1>1. /\ obj' = [obj EXCEPT ![o] = x]
        /\ version' = [version EXCEPT ![o] = IF new = obj[o] THEN @ ELSE @ + 1]
    BY DEF Put, Stored
  <1>2. ClusterType /\ obj[o] \in ObjectType
    BY DEF ClusterInv, ClusterType
  <1>3. /\ x \in ObjectType /\ x # Absent /\ x.replicas = new.replicas /\ x.observed = new.observed
        /\ x.updated = new.updated /\ x.total = new.total /\ x.desired = new.desired
        /\ x.generation = IF SpecOf(new) = SpecOf(obj[o]) THEN new.generation ELSE new.generation + 1
    BY StoredFields, ObjectFields
  <1>4. new = obj[o] => x = obj[o]
    BY <1>2 DEF Stored, ObjectType
  <1> HIDE DEF x
  <1>5. /\ obj' \in [Objects -> ObjectType \cup {Absent}] /\ version' \in [Objects -> Nat]
        /\ \A m \in Objects : obj'[m] = IF m = o THEN x ELSE obj[m]
        /\ \A m \in Objects : version'[m] = IF m = o /\ new # obj[o] THEN version[m] + 1 ELSE version[m]
    BY <1>1, <1>2, <1>3 DEF ClusterType
  <1>6. ClusterType'
    BY <1>2, <1>5 DEF ClusterType
  <1>7. Moves
    <2>1. \A m \in Objects : version[m] \in Nat
      BY <1>2 DEF ClusterType
    <2> QED BY <1>4, <1>5, <2>1 DEF Moves
  <1>8. Followed(o)'
    <2>1. Followed(o) /\ ctl[o].generation \in Nat /\ obj[o].generation \in Nat
      BY <1>2 DEF ClusterInv, ClusterType, CtlType, ObjectType
    <2>2. obj'[o] = x /\ ctl' = ctl /\ ran' = ran
      BY <1>5
    <2>3. ctl[o].generation <= x.generation /\ x.observed <= ctl[o].generation
      BY <1>3, <2>1 DEF Followed
    <2>4. CASE SpecOf(new) = SpecOf(obj[o])
      <3>1. x.generation = obj[o].generation /\ x.replicas = obj[o].replicas
        BY <1>3, <2>4 DEF SpecOf
      <3>2. Complete(o, x) <=> Complete(o, new)
        BY <1>3, <2>4 DEF Complete, PodsFollow
      <3> QED BY <1>3, <2>1, <2>2, <2>3, <2>4, <3>1, <3>2
              DEF Followed, Seen, Ran, Complete, PodsFollow, Desired
    <2>5. CASE SpecOf(new) # SpecOf(obj[o])
      <3>1. x.generation = obj[o].generation + 1 /\ x.observed \in Nat
        BY <1>3, <2>5, ObjectFields
      <3>2. ctl[o].generation < x.generation /\ x.observed < x.generation
        BY <2>1, <2>3, <3>1 DEF Followed
      <3>3. ctl[o].generation # x.generation /\ ~(x.observed >= x.generation)
        BY <2>1, <3>1, <3>2
      <3> QED BY <1>3, <2>1, <2>2, <2>3, <3>3 DEF Followed, Seen, Ran, Complete
    <2> QED BY <2>4, <2>5
  <1>9. ASSUME NEW m \in Objects PROVE Followed(m)' /\ Numbers(m)'
    <2>1. Numbers(m)'
      BY DEF ClusterInv, Numbers
    <2>2. CASE m # o
      BY <1>5, <2>1, <2>2 DEF ClusterInv, Followed, Seen, Ran, Complete, PodsFollow, Desired
    <2> QED BY <1>8, <2>1, <2>2
  <1> QED BY <1>1, <1>6, <1>7, <1>9 DEF ClusterInv, x

\* A write by a user or a process leaves the status alone.
LEMMA PutSpec ==
    ASSUME ClusterInv, NEW o \in Objects, obj[o] # Absent, NEW new \in ObjectType, Put(o, new),
           UNCHANGED <<rs, ctl, rolled, ran>>,
           new.generation = obj[o].generation, new.observed = obj[o].observed,
           new.updated = obj[o].updated, new.total = obj[o].total, new.desired = obj[o].desired
    PROVE  /\ ClusterInv' /\ Moves
           /\ obj' = [obj EXCEPT ![o] = Stored(o, new)]
  <1>1. Followed(o)
    BY DEF ClusterInv
  <1>2. new.observed <= ctl[o].generation
    BY <1>1 DEF Followed
  <1>3. Kind[o] \in Workloads /\ SpecOf(new) = SpecOf(obj[o]) /\ Complete(o, new) =>
               ran[o] >= obj[o].generation
    BY <1>1 DEF Followed, Complete, PodsFollow, SpecOf
  <1> QED BY <1>2, <1>3, PutCluster

LEMMA CreateCluster ==
    ASSUME ClusterInv, NEW o \in Objects, obj[o] = Absent,
           NEW t \in Templates, NEW n \in Nat, NEW k \in Nat,
           obj' = [obj EXCEPT ![o] = Object(t, n, k, version[o] + 1)],
           version' = [version EXCEPT ![o] = @ + 1], UNCHANGED <<rs, ctl, rolled, ran>>
    PROVE  ClusterInv' /\ Moves
  <1> DEFINE x == Object(t, n, k, version[o] + 1)
  <1>1. ClusterType /\ version[o] + 1 \in Nat
    BY DEF ClusterInv, ClusterType
  <1>2. x \in ObjectType /\ x.generation = 1 /\ x.observed = 0
    BY <1>1 DEF ObjectType, Object
  <1>3. x # Absent
    BY <1>2, ObjectFields
  <1> HIDE DEF x
  <1>4. /\ obj' \in [Objects -> ObjectType \cup {Absent}] /\ version' \in [Objects -> Nat]
        /\ \A m \in Objects : obj'[m] = IF m = o THEN x ELSE obj[m]
        /\ \A m \in Objects : version'[m] = IF m = o THEN version[m] + 1 ELSE version[m]
    BY <1>1, <1>2 DEF ClusterType, x
  <1>5. ClusterType'
    BY <1>1, <1>4 DEF ClusterType
  <1>6. Moves
    <2>1. \A m \in Objects : version[m] \in Nat
      BY <1>1 DEF ClusterType
    <2> QED BY <1>4, <2>1 DEF Moves
  <1>7. ASSUME NEW m \in Objects PROVE Followed(m)' /\ Numbers(m)'
    <2>1. Numbers(m)' /\ Followed(m)
      BY DEF ClusterInv, Numbers
    <2>2. CASE m # o
      BY <1>4, <2>1, <2>2 DEF Followed, Seen, Ran, Complete, PodsFollow, Desired
    <2>3. CASE m = o
      <3>1. obj'[o] = x /\ ctl[o].generation = 0 /\ ctl' = ctl /\ ran' = ran
        BY <1>4, <2>1, <2>3 DEF Followed
      <3> QED BY <1>2, <1>3, <2>1, <2>3, <3>1 DEF Followed, Seen, Ran, Complete
    <2> QED BY <2>1, <2>2, <2>3
  <1> QED BY <1>5, <1>6, <1>7 DEF ClusterInv

LEMMA RemoveCluster ==
    ASSUME ClusterInv, NEW o \in Objects, Remove(o)
    PROVE  ClusterInv' /\ Moves
  <1> DEFINE c == Unseen(ctl[o].template)
  <1>1. ClusterType /\ ctl[o].template \in Templates
    BY DEF ClusterInv, ClusterType, CtlType
  <1>2. c \in CtlType /\ c.generation = 0 /\ Ran(c)
    BY <1>1 DEF CtlType, Unseen, Ran
  <1> HIDE DEF c
  <1>3. NoSets \in SetType /\ <<>> \in Seq(Templates)
    BY DEF NoSets, SetType
  <1> HIDE DEF NoSets
  <1>4. /\ \A m \in Objects : obj'[m] = IF m = o THEN Absent ELSE obj[m]
        /\ \A m \in Objects : version'[m] = IF m = o THEN version[m] + 1 ELSE version[m]
        /\ \A m \in Objects : rs'[m] = IF m = o THEN NoSets ELSE rs[m]
        /\ \A m \in Objects : ctl'[m] = IF m = o THEN c ELSE ctl[m]
        /\ \A m \in Objects : rolled'[m] = IF m = o THEN <<>> ELSE rolled[m]
        /\ \A m \in Objects : ran'[m] = IF m = o THEN 0 ELSE ran[m]
    BY <1>1 DEF ClusterType, Remove, c
  <1>5. ClusterType'
    BY <1>1, <1>2, <1>3 DEF ClusterType, Remove, c
  <1>6. Moves
    <2>1. \A m \in Objects : version[m] \in Nat
      BY <1>1 DEF ClusterType
    <2> QED BY <1>4, <2>1 DEF Moves
  <1>7. ASSUME NEW m \in Objects PROVE Followed(m)' /\ Numbers(m)'
    <2>1. CASE m # o
      BY <1>4, <2>1 DEF ClusterInv, Numbers, Followed, Seen, Ran, Complete, PodsFollow, Desired
    <2>2. CASE m = o
      <3>1. Followed(o)'
        BY <1>2, <1>4 DEF Followed, Ran
      <3>2. Numbering(NoSets, <<>>)
        BY DEF Numbering, NoSets
      <3> QED BY <1>4, <2>2, <3>1, <3>2 DEF Numbers
    <2> QED BY <2>1, <2>2
  <1> QED BY <1>5, <1>6, <1>7 DEF ClusterInv

\* What a controller works on changes, and is noted once all pods ran it.
LEMMA RolledEffect ==
    ASSUME ClusterType, NEW o \in Objects, NEW c \in CtlType, Rolled(o, c)
    PROVE  /\ ctl' \in [Objects -> CtlType] /\ ran' \in [Objects -> Nat]
           /\ \A m \in Objects : ctl'[m] = IF m = o THEN c ELSE ctl[m]
           /\ \A m \in Objects : ran'[m] = IF m = o /\ Ran(c) THEN c.generation ELSE ran[m]
  <1>1. c.generation \in Nat
    BY DEF CtlType
  <1> QED BY <1>1 DEF ClusterType, Rolled

LEMMA CtlFields ==
    ASSUME NEW c \in CtlType
    PROVE  /\ c.generation \in Nat /\ c.template \in Templates /\ c.replicas \in Nat
           /\ c.new \in Nat /\ c.old \in Nat
  BY DEF CtlType

LEMMA ObserveCluster ==
    ASSUME ClusterInv, NEW o \in Objects, Observe(o)
    PROVE  /\ ClusterInv' /\ UNCHANGED <<obj, version, proc, edits, wrote>>
           /\ ~Seen(o)
           /\ Numbering(rs[o], rolled[o]) => Listing(rs[o], rolled'[o])
           /\ \A m \in Objects \ {o} : rs'[m] = rs[m] /\ rolled'[m] = rolled[m] /\ ctl'[m] = ctl[m]
  <1> DEFINE same == obj[o].template = ctl[o].template
             c == [generation |-> obj[o].generation, template |-> obj[o].template,
                   replicas |-> Desired(o, obj[o].replicas),
                   new |-> IF same THEN ctl[o].new ELSE 0,
                   old |-> IF same THEN ctl[o].old ELSE ctl[o].old + ctl[o].new]
             q == IF rolled[o] # <<>> /\ rolled[o][Len(rolled[o])] = obj[o].template THEN rolled[o]
                  ELSE Append(rolled[o], obj[o].template)
             z == IF Kind[o] = "Deployment" THEN Numbered(rs[o], obj[o].template) ELSE rs[o]
  <1>1. /\ ClusterType /\ obj[o] \in ObjectType /\ ctl[o] \in CtlType /\ rs[o] \in SetType
        /\ rolled[o] \in Seq(Templates) /\ obj[o].template \in Templates
    BY ObjectFields DEF ClusterInv, ClusterType, Observe
  <1>2. /\ obj[o] # Absent /\ Kind[o] \in Workloads /\ ctl[o].generation < obj[o].generation
        /\ Rolled(o, c) /\ rs' = [rs EXCEPT ![o] = z] /\ rolled' = [rolled EXCEPT ![o] = q]
        /\ UNCHANGED <<obj, version, proc, edits, wrote>>
    BY <1>1 DEF Observe, ClusterType
  <1>3. c \in CtlType /\ c.generation = obj[o].generation /\ c.replicas = Desired(o, obj[o].replicas)
    <2>1. Desired(o, obj[o].replicas) \in Nat
      BY <1>1, SizesAssumption, ObjectFields DEF Desired
    <2>2. /\ ctl[o].new \in Nat /\ ctl[o].old \in Nat /\ ctl[o].old + ctl[o].new \in Nat
          /\ obj[o].generation \in Nat
      BY <1>1, CtlFields, ObjectFields
    <2> QED BY <1>1, <2>1, <2>2 DEF CtlType
  <1> HIDE DEF c
  <1>4. /\ ctl' \in [Objects -> CtlType] /\ ran' \in [Objects -> Nat]
        /\ \A m \in Objects : ctl'[m] = IF m = o THEN c ELSE ctl[m]
        /\ \A m \in Objects : ran'[m] = IF m = o /\ Ran(c) THEN c.generation ELSE ran[m]
    BY <1>1, <1>2, <1>3, RolledEffect
  <1>5. q \in Seq(Templates)
    BY <1>1
  <1>6. /\ Kind[o] = "Deployment" => Numbering(z, q) /\ Listing(rs[o], q)
        /\ Numbering(rs[o], rolled[o]) => Listing(rs[o], q)
        /\ z \in SetType
    <2>1. ASSUME Numbering(rs[o], rolled[o])
          PROVE  /\ Numbered(rs[o], obj[o].template) \in SetType
                 /\ Numbering(Numbered(rs[o], obj[o].template), q) /\ Listing(rs[o], q)
      BY <1>1, <2>1, NumberedKeeps
    <2> HIDE DEF q
    <2> QED BY <1>1, <2>1 DEF ClusterInv, Numbers
  <1> HIDE DEF q, z
  <1>7. /\ \A m \in Objects : rs'[m] = IF m = o THEN z ELSE rs[m]
        /\ \A m \in Objects : rolled'[m] = IF m = o THEN q ELSE rolled[m]
        /\ rs' \in [Objects -> SetType] /\ rolled' \in [Objects -> Seq(Templates)]
    BY <1>1, <1>2, <1>5, <1>6 DEF ClusterType
  <1>8. ClusterType'
    BY <1>1, <1>2, <1>4, <1>7 DEF ClusterType
  <1>9. ASSUME NEW m \in Objects PROVE Followed(m)' /\ Numbers(m)'
    <2>1. CASE m # o
      BY ZenonT(60), <1>2, <1>4, <1>7, <2>1 DEF ClusterInv, Numbers, Followed, Seen, Ran, Complete, PodsFollow, Desired
    <2>2. CASE m = o
      <3>1. Followed(o) /\ obj[o].generation \in Nat /\ obj[o].observed \in Nat /\ ctl[o].generation \in Nat
        BY <1>1, ObjectFields, CtlFields DEF ClusterInv
      <3>2. obj[o].observed < obj[o].generation
        BY <1>2, <3>1 DEF Followed
      <3>3. Followed(o)'
        <4>1. ctl'[o] = c /\ obj' = obj /\ (Ran(c) => ran'[o] = c.generation)
          BY <1>2, <1>4
        <4>2. ~Complete(o, obj[o])
          BY <3>1, <3>2 DEF Complete
        <4>3. obj[o].generation <= obj[o].generation /\ obj[o].observed <= obj[o].generation
          BY <3>1, <3>2
        <4> QED BY <1>2, <1>3, <4>1, <4>2, <4>3 DEF Followed, Complete, PodsFollow, Desired, Ran
      <3>4. Numbers(o)'
        BY <1>1, <1>6, <1>7 DEF ClusterInv, Numbers, z
      <3> QED BY <2>2, <3>3, <3>4
    <2> QED BY <2>1, <2>2
  <1>10. ~Seen(o)
    <2>1. obj[o].generation \in Nat /\ ctl[o].generation \in Nat
      BY <1>1, ObjectFields, CtlFields
    <2> QED BY <1>2, <2>1 DEF Seen
  <1> QED BY <1>2, <1>4, <1>6, <1>7, <1>8, <1>9, <1>10 DEF ClusterInv

LEMMA RollCluster ==
    ASSUME ClusterInv, NEW o \in Objects, Roll(o)
    PROVE  ClusterInv' /\ Moves /\ UNCHANGED <<proc, edits, wrote>>
  <1>1. ClusterType /\ ctl[o] \in CtlType /\ obj[o] # Absent /\ obj[o] \in ObjectType
    BY DEF ClusterInv, ClusterType, Roll
  <1>2. /\ \E c \in CtlType : c.generation = ctl[o].generation /\ c.replicas = ctl[o].replicas /\ Rolled(o, c)
        /\ UNCHANGED <<obj, version, rs, rolled, proc, edits, wrote>>
    <2>1. CASE ctl[o].new < ctl[o].replicas /\ Rolled(o, [ctl[o] EXCEPT !.new = @ + 1])
      <3>1. [ctl[o] EXCEPT !.new = @ + 1] \in CtlType
        BY <1>1 DEF CtlType
      <3> QED BY <1>1, <2>1, <3>1 DEF Roll, CtlType
    <2>2. CASE ctl[o].new > ctl[o].replicas /\ Rolled(o, [ctl[o] EXCEPT !.new = @ - 1])
      <3>1. [ctl[o] EXCEPT !.new = @ - 1] \in CtlType
        <4>1. ctl[o].new - 1 \in Nat
          BY <1>1, <2>2, CtlFields
        <4> QED BY <1>1, <4>1 DEF CtlType
      <3> QED BY <1>1, <2>2, <3>1 DEF Roll, CtlType
    <2>3. CASE ctl[o].old > 0 /\ Rolled(o, [ctl[o] EXCEPT !.old = @ - 1])
      <3>1. [ctl[o] EXCEPT !.old = @ - 1] \in CtlType
        <4>1. ctl[o].old - 1 \in Nat
          BY <1>1, <2>3, CtlFields
        <4> QED BY <1>1, <4>1 DEF CtlType
      <3> QED BY <1>1, <2>3, <3>1 DEF Roll, CtlType
    <2> QED BY <2>1, <2>2, <2>3 DEF Roll
  <1>3. PICK c \in CtlType : c.generation = ctl[o].generation /\ c.replicas = ctl[o].replicas /\ Rolled(o, c)
    BY <1>2
  <1>4. /\ ctl' \in [Objects -> CtlType] /\ ran' \in [Objects -> Nat]
        /\ \A m \in Objects : ctl'[m] = IF m = o THEN c ELSE ctl[m]
        /\ \A m \in Objects : ran'[m] = IF m = o /\ Ran(c) THEN c.generation ELSE ran[m]
    BY <1>1, <1>3, RolledEffect
  <1>5. ClusterType'
    BY <1>1, <1>2, <1>4 DEF ClusterType
  <1>6. Moves
    <2>1. \A m \in Objects : version[m] \in Nat
      BY <1>1 DEF ClusterType
    <2> QED BY <1>2, <1>3, <1>4, <2>1 DEF Moves
  <1>7. ASSUME NEW m \in Objects PROVE Followed(m)' /\ Numbers(m)'
    <2>1. Numbers(m)'
      BY <1>2 DEF ClusterInv, Numbers
    <2>2. CASE m # o
      <3>1. ctl'[m] = ctl[m] /\ ran'[m] = ran[m] /\ obj' = obj
        BY <1>2, <1>4, <2>2
      <3>2. Followed(m)
        BY DEF ClusterInv
      <3> QED BY <2>1, <3>1, <3>2 DEF Followed, Seen, Ran, Complete, PodsFollow, Desired
    <2>3. CASE m = o
      <3>1. /\ Followed(o) /\ obj[o].generation \in Nat /\ obj[o].observed \in Nat
            /\ ctl[o].generation \in Nat
        BY <1>1, ObjectFields, CtlFields DEF ClusterInv
      <3>2. /\ ctl'[o] = c /\ obj' = obj /\ (Ran(c) => ran'[o] = c.generation)
            /\ (~Ran(c) => ran'[o] = ran[o])
        BY <1>2, <1>4
      <3>3. Kind[o] \in Workloads /\ Complete(o, obj[o]) =>
                ran[o] >= obj[o].generation /\ ctl[o].generation >= obj[o].generation
        BY <1>1, <3>1 DEF Followed, Complete
      <3>4. /\ ctl[o].generation <= obj[o].generation /\ obj[o].observed <= ctl[o].generation
            /\ Kind[o] \in Workloads /\ Seen(o) => ctl[o].replicas = Desired(o, obj[o].replicas)
        BY <1>1, <3>1 DEF Followed
      <3>5. Followed(o)'
        BY <1>1, <1>3, <3>2, <3>3, <3>4 DEF Followed, Seen, Complete, PodsFollow, Desired, Ran
      <3> QED BY <2>1, <2>3, <3>5
    <2> QED BY <2>2, <2>3, <2>1
  <1> QED BY <1>2, <1>5, <1>6, <1>7 DEF ClusterInv

LEMMA AnnotateCluster ==
    ASSUME ClusterInv, NEW o \in Objects, Annotate(o)
    PROVE  ClusterInv' /\ Moves /\ UNCHANGED <<proc, edits, wrote>>
  <1> DEFINE x == [obj[o] EXCEPT !.revision = Newest(rs[o])]
  <1>1. /\ obj[o] # Absent /\ obj[o] \in ObjectType /\ Put(o, x)
        /\ UNCHANGED <<rs, ctl, rolled, ran, proc, edits, wrote>>
    BY DEF Annotate, Seen, ClusterInv, ClusterType
  <1>2. Kind[o] = "Deployment"
    BY DEF Annotate, Annotated
  <1>3. Newest(rs[o]) \in Nat
    <2>1. rs[o] \in SetType /\ rolled[o] \in Seq(Templates) /\ Numbering(rs[o], rolled[o])
      BY <1>2 DEF ClusterInv, ClusterType, Numbers
    <2> QED BY <2>1, NewestCounts
  <1>4. /\ x \in ObjectType /\ x.generation = obj[o].generation /\ x.observed = obj[o].observed
        /\ x.updated = obj[o].updated /\ x.total = obj[o].total /\ x.desired = obj[o].desired
    BY <1>1, <1>3 DEF ObjectType
  <1> HIDE DEF x
  <1> QED BY <1>1, <1>4, PutSpec

LEMMA PublishCluster ==
    ASSUME ClusterInv, NEW o \in Objects, Publish(o)
    PROVE  ClusterInv' /\ Moves /\ UNCHANGED <<proc, edits, wrote>>
  <1> DEFINE d == IF Kind[o] = "DaemonSet" THEN Nodes ELSE obj[o].desired
             x == [obj[o] EXCEPT !.observed = ctl[o].generation, !.updated = ctl[o].new,
                                 !.total = ctl[o].new + ctl[o].old, !.desired = d]
  <1>1. /\ obj[o] # Absent /\ obj[o] \in ObjectType /\ ctl[o] \in CtlType
        /\ Seen(o) /\ Kind[o] \in Workloads
        /\ UNCHANGED <<rs, ctl, rolled, ran, proc, edits, wrote>>
    BY DEF Publish, Seen, ClusterInv, ClusterType
  <1>2. /\ ctl[o].generation \in Nat /\ ctl[o].new \in Nat /\ ctl[o].old \in Nat
        /\ ctl[o].new + ctl[o].old \in Nat /\ d \in Nat /\ ctl[o].replicas \in Nat
    BY <1>1, CtlFields, ObjectFields, SizesAssumption
  <1>3. Put(o, x)
    <2>1. x = [obj[o] EXCEPT !.observed = ctl[o].generation, !.updated = ctl[o].new,
                             !.total = ctl[o].new + ctl[o].old,
                             !.desired = IF Kind[o] = "DaemonSet" THEN Nodes ELSE @]
      BY <1>1 DEF ObjectType
    <2> HIDE DEF x
    <2> QED BY <2>1 DEF Publish
  <1> HIDE DEF d
  <1>4. /\ x \in ObjectType /\ x.generation = obj[o].generation /\ x.observed = ctl[o].generation
        /\ x.updated = ctl[o].new /\ x.total = ctl[o].new + ctl[o].old /\ x.desired = d
        /\ x.replicas = obj[o].replicas
    BY <1>1, <1>2 DEF ObjectType
  <1> HIDE DEF x
  <1>5. Followed(o) /\ ctl[o].generation = obj[o].generation /\ ctl[o].generation <= ctl[o].generation
    BY <1>1, <1>2 DEF ClusterInv, Seen
  <1>6. ASSUME Complete(o, x) PROVE ran[o] >= obj[o].generation
    <2>1. x.updated = Desired(o, obj[o].replicas) /\ x.total = Desired(o, obj[o].replicas)
      BY <1>4, <1>6 DEF Complete, PodsFollow, Desired, d
    <2>2. ctl[o].replicas = Desired(o, obj[o].replicas)
      BY <1>1, <1>5 DEF Followed
    <2>3. ctl[o].new = ctl[o].replicas /\ ctl[o].old = 0
      BY <1>2, <1>4, <2>1, <2>2
    <2> QED BY <1>2, <1>5, <2>3 DEF Followed, Ran
  <1> QED BY <1>1, <1>3, <1>4, <1>5, <1>6, PutCluster

LEMMA InitCluster == Init => ClusterInv
  <1> SUFFICES ASSUME Init PROVE ClusterInv
    OBVIOUS
  <1> DEFINE n(o) == Len(History[o])
             now(o) == History[o][n(o)]
             running(o) == Desired(o, 1)
             number(o, t) == Max({0} \cup {i \in 1..n(o) : History[o][i] = t})
             made(o) == [Object(now(o), 1, IF Kind[o] = "Deployment" THEN n(o) ELSE 0, 1)
                           EXCEPT !.observed = 1, !.updated = running(o), !.total = running(o),
                                  !.desired = running(o)]
             works(o) == [generation |-> 1, template |-> now(o), replicas |-> running(o),
                          new |-> running(o), old |-> 0]
             some == CHOOSE t \in Templates : TRUE
  <1>1. /\ obj = [o \in Objects |-> IF n(o) = 0 THEN Absent ELSE made(o)]
        /\ ctl = [o \in Objects |-> IF n(o) = 0 THEN Unseen(some) ELSE works(o)]
        /\ rs = [o \in Objects |-> IF Kind[o] # "Deployment" THEN NoSets
                                   ELSE [t \in Templates |-> number(o, t)]]
        /\ ran = [o \in Objects |-> IF n(o) = 0 THEN 0 ELSE 1]
        /\ version = [o \in Objects |-> 1] /\ rolled = History
    BY DEF Init
  <1>2. ASSUME NEW o \in Objects
        PROVE  /\ History[o] \in Seq(Templates) /\ n(o) \in Nat /\ running(o) \in Nat
               /\ n(o) # 0 => now(o) \in Templates
    BY HistoryAssumption, SizesAssumption DEF Desired
  <1>3. some \in Templates
    BY SizesAssumption
  <1>4. ASSUME NEW o \in Objects, NEW t \in Templates
        PROVE  /\ number(o, t) \in 0..n(o)
               /\ \A i \in 1..n(o) : History[o][i] = t => i <= number(o, t)
               /\ number(o, t) # 0 => History[o][number(o, t)] = t
    <2> DEFINE T == {0} \cup {i \in 1..n(o) : History[o][i] = t}
    <2>1. T \in SUBSET (0..n(o)) /\ T # {} /\ n(o) \in Nat
      BY <1>2
    <2>2. PICK x \in T : \A y \in T : y <= x
      <3> HIDE DEF T
      <3> QED BY <2>1, Largest
    <2>3. Max(T) = x
      <3>1. T \in SUBSET Nat
        BY <2>1
      <3> HIDE DEF T
      <3> QED BY <2>2, <3>1, MaxIs
    <2>4. number(o, t) = x
      BY <2>3
    <2>5. x \in 0..n(o) /\ (x # 0 => History[o][x] = t)
      BY <2>1, <2>2
    <2>6. \A i \in 1..n(o) : History[o][i] = t => i <= x
      BY <2>2
    <2> HIDE DEF number
    <2> QED BY <2>4, <2>5, <2>6
  <1> HIDE DEF number
  <1>5. ASSUME NEW o \in Objects, n(o) # 0
        PROVE  /\ made(o) \in ObjectType /\ made(o).generation = 1 /\ made(o).observed = 1
               /\ made(o).replicas = 1 /\ works(o) \in CtlType
    BY <1>2, <1>5 DEF ObjectType, Object, CtlType
  <1>6. Unseen(some) \in CtlType /\ Unseen(some).generation = 0
    BY <1>3 DEF Unseen, CtlType
  <1>7. ClusterType
    <2>1. \A o \in Objects : [t \in Templates |-> number(o, t)] \in SetType
      BY <1>2, <1>4 DEF SetType
    <2>2. NoSets \in SetType
      BY DEF SetType, NoSets
    <2>3. rs \in [Objects -> SetType]
      BY <1>1, <2>1, <2>2
    <2>4. obj \in [Objects -> ObjectType \cup {Absent}]
      <3> HIDE DEF made, n
      <3> QED BY <1>1, <1>5
    <2>5. ctl \in [Objects -> CtlType]
      <3> HIDE DEF works, some, n
      <3> QED BY <1>1, <1>5, <1>6
    <2>6. ran \in [Objects -> Nat] /\ version \in [Objects -> Nat]
      BY <1>1
    <2> QED BY <1>1, <2>3, <2>4, <2>5, <2>6, HistoryAssumption DEF ClusterType
  <1>8. ASSUME NEW o \in Objects PROVE Numbers(o)
    <2>1. CASE Kind[o] # "Deployment"
      BY <1>1, <2>1 DEF Numbers
    <2>2. CASE Kind[o] = "Deployment"
      <3>1. \A t \in Templates : rs[o][t] = number(o, t)
        BY <1>1, <2>2
      <3>2. \A t \in Templates : rs[o][t] \in 0..n(o)
        BY <1>4, <3>1
      <3>3. ASSUME NEW t \in Templates, NEW u \in Templates, rs[o][t] = rs[o][u], rs[o][t] # 0 PROVE t = u
        BY <1>4, <3>1, <3>3
      <3>4. n(o) > 0 => rs[o][now(o)] = n(o)
        <4> SUFFICES ASSUME n(o) > 0 PROVE rs[o][now(o)] = n(o)
          OBVIOUS
        <4>1. now(o) \in Templates /\ n(o) \in 1..n(o) /\ History[o][n(o)] = now(o)
          BY <1>2
        <4>2. number(o, now(o)) \in 0..n(o) /\ n(o) <= number(o, now(o))
          BY <1>4, <4>1
        <4> QED BY <1>2, <3>1, <4>1, <4>2
      <3>5. n(o) > 1 => rs[o][History[o][n(o) - 1]] = n(o) - 1
        <4> SUFFICES ASSUME n(o) > 1 PROVE rs[o][History[o][n(o) - 1]] = n(o) - 1
          OBVIOUS
        <4> DEFINE t == History[o][n(o) - 1]
        <4>1. n(o) - 1 \in 1..n(o) /\ n(o) - 1 \in 1..(n(o) - 1) /\ t \in Templates
          BY <1>2
        <4>2. t # History[o][n(o)]
          BY <1>2, <4>1, HistoryAssumption
        <4>3. number(o, t) \in 0..n(o) /\ n(o) - 1 <= number(o, t) /\ number(o, t) # n(o)
          <5> HIDE DEF t
          <5>1. History[o][n(o) - 1] = t
            BY DEF t
          <5> QED BY SMTT(60), <1>2, <1>4, <4>1, <4>2, <5>1
        <4> QED BY <1>2, <3>1, <4>1, <4>3
      <3>6. \A t \in Templates : rs[o][t] <= n(o)
        BY <1>2, <3>2
      <3> QED BY <1>1, <2>2, <3>3, <3>4, <3>5, <3>6 DEF Numbers, Numbering
    <2> QED BY <2>1, <2>2
  <1>9. ASSUME NEW o \in Objects PROVE Followed(o)
    <2>1. CASE n(o) = 0
      BY <1>1, <1>6, <2>1 DEF Followed, Unseen
    <2>2. CASE n(o) # 0
      <3>1. ran[o] = 1 /\ ctl[o] = works(o) /\ obj[o] = made(o) /\ ctl[o].generation = 1
            /\ ctl[o].replicas = running(o)
        BY <1>1, <2>2
      <3>2. obj[o].generation = 1 /\ obj[o].observed = 1 /\ obj[o].replicas = 1 /\ obj[o] # Absent
        BY <1>5, <2>2, <3>1, ObjectFields
      <3> QED BY <3>1, <3>2 DEF Followed
    <2> QED BY <2>1, <2>2
  <1> QED BY <1>7, <1>8, <1>9 DEF ClusterInv

--------------------------------------------------------------------------------

\* What a process is at, as long as it acts.
LEMMA Acting ==
    ASSUME NEW p, proc[p] \in ProcType, Progress(p), proc[p].at \in {"act", "list", "update", "create"}
    PROVE  /\ Act(p) \in ActionType /\ On(p) \in Objects
           /\ proc[p].n \in Nat \ {0} /\ Len(proc[p].plan) \in Nat /\ proc[p].n <= Len(proc[p].plan)
  BY PlanFields DEF Progress, Act, On

\* A process that does nothing keeps what it knows.
LEMMA OthersStay ==
    ASSUME ClusterInv, Moves, NEW q \in Processes, ProcInv(q),
           proc'[q] = proc[q], wrote'[q] = wrote[q]
    PROVE  ProcInv(q)'
  <1>1. proc'[q] \in ProcType /\ wrote'[q] \in Seq(Nat) /\ Progress(q)'
    BY DEF ProcInv, Progress
  <1>2. Vouched(q)'
    <2> SUFFICES ASSUME proc[q].at \in {"list", "update"} PROVE Vouched(q)'
      BY DEF Vouched
    <2>0. On(q) \in Objects /\ Act(q)' = Act(q) /\ On(q)' = On(q)
      BY Acting DEF ProcInv, Act, On
    <2> PICK o \in Objects : o = On(q)
      BY <2>0
    <2>1. Act(q)' = Act(q) /\ On(q)' = o /\ On(q) = o
      BY <2>0
    <2>2. /\ version[o] \in Nat /\ proc[q].ver \in Nat /\ version'[o] >= version[o]
          /\ proc[q].ver <= version[o] /\ proc[q].copy # Absent /\ Act(q).op # "delete"
      BY <2>1 DEF ClusterInv, ClusterType, ProcInv, ProcType, Moves, Vouched
    <2>4. proc[q].ver <= version'[o]
      BY <2>2 DEF Moves
    <2>5. ASSUME Current(q)'
          PROVE  /\ Current(q) /\ obj'[o] = obj[o] /\ rs'[o] = rs[o] /\ rolled'[o] = rolled[o]
                 /\ Seen(o)' <=> Seen(o)
      <3>1. version'[o] = proc[q].ver /\ obj'[o] # Absent
        BY <2>1, <2>5 DEF Current
      <3>2. version'[o] = version[o]
        BY <2>2, <3>1
      <3>3. /\ obj'[o] = obj[o] /\ rs'[o] = rs[o] /\ rolled'[o] = rolled[o]
            /\ ctl'[o].generation = ctl[o].generation
        BY <2>1, <3>2 DEF Moves
      <3> QED BY <3>1, <3>2, <3>3 DEF Current, Seen
    <2>6. CASE Current(q)'
      BY <2>1, <2>2, <2>4, <2>5, <2>6 DEF ProcInv, Vouched
    <2>7. CASE ~Current(q)'
      BY <2>1, <2>2, <2>4, <2>7 DEF Vouched
    <2> QED BY <2>6, <2>7
  <1> QED BY <1>1, <1>2 DEF ProcInv

\* A process whose listing a roll-out overtakes can still tell the one before.
LEMMA ObserveStays ==
    ASSUME ClusterInv, NEW o \in Objects, Observe(o), NEW q \in Processes, ProcInv(q)
    PROVE  ProcInv(q)'
  <1>1. /\ UNCHANGED <<obj, version, proc, edits, wrote>> /\ ~Seen(o)
        /\ Numbering(rs[o], rolled[o]) => Listing(rs[o], rolled'[o])
        /\ \A m \in Objects \ {o} : rs'[m] = rs[m] /\ rolled'[m] = rolled[m] /\ ctl'[m] = ctl[m]
    BY ObserveCluster
  <1>2. proc'[q] \in ProcType /\ wrote'[q] \in Seq(Nat) /\ Progress(q)'
    BY <1>1 DEF ProcInv, Progress
  <1>3. Vouched(q)'
    <2> SUFFICES ASSUME proc[q].at \in {"list", "update"} PROVE Vouched(q)'
      BY <1>1 DEF Vouched
    <2>1. On(q) \in Objects /\ Act(q)' = Act(q) /\ On(q)' = On(q) /\ (Current(q)' <=> Current(q))
      BY <1>1, Acting DEF ProcInv, Act, On, Current
    <2>2. CASE On(q) # o
      <3>1. Seen(On(q))' <=> Seen(On(q))
        BY <1>1, <2>1, <2>2 DEF Seen
      <3> QED BY <1>1, <2>1, <2>2, <3>1 DEF ProcInv, Vouched
    <2>3. CASE On(q) = o
      <3>1. ASSUME Current(q), proc[q].at = "update", Act(q).op = "rollback"
            PROVE  IF Kind[o] # "Deployment" THEN proc[q].rs = NoSets
                   ELSE proc[q].rs = rs[o] /\ Listing(proc[q].rs, rolled'[o])
        BY <1>1, <2>3, <3>1 DEF ProcInv, Vouched, ClusterInv, Numbers
      <3>2. Seen(o)'
        <4>1. obj[o].generation \in Nat
          BY ObjectFields DEF Observe, ClusterInv, ClusterType
        <4>2. ctl[o] \in CtlType
          BY DEF ClusterInv, ClusterType
        <4>3. ctl' = [ctl EXCEPT ![o] = [generation |-> obj[o].generation, template |-> obj[o].template,
                      replicas |-> Desired(o, obj[o].replicas),
                      new |-> IF obj[o].template = ctl[o].template THEN ctl[o].new ELSE 0,
                      old |-> IF obj[o].template = ctl[o].template THEN ctl[o].old
                              ELSE ctl[o].old + ctl[o].new]] /\ obj[o] # Absent
          BY DEF Observe, Rolled
        <4>4. ctl'[o].generation = obj[o].generation
          BY <4>3 DEF ClusterInv, ClusterType
        <4> QED BY <1>1, <4>3, <4>4 DEF Seen
      <3> QED BY <1>1, <2>1, <2>3, <3>1, <3>2 DEF ProcInv, Vouched
    <2> QED BY <2>2, <2>3
  <1> QED BY <1>2, <1>3 DEF ProcInv

LEMMA OwnStep ==
    ASSUME ClusterInv, Moves, ProcsInv, NEW p \in Processes, NEW f \in ProcType, NEW l \in Nat,
           proc' = [proc EXCEPT ![p] = f],
           \/ wrote' = wrote /\ l = Len(wrote[p])
           \/ Wrote(p) /\ l = proc[p].n /\ proc[p].n = Len(wrote[p]) + 1,
           f.at \in {"act", "list", "update", "create"} => f.n <= Len(f.plan) /\ l = f.n - 1,
           f.at \in {"wait", "verify"} \/ f.result \in {"ok", "pending", "failed"} => l = Len(f.plan),
           f.at # "done" => f.result = "none",
           Vouched(p)'
    PROVE  ProcsInv'
  <1>1. /\ DOMAIN proc' = Processes /\ proc'[p] = f /\ \A q \in Processes \ {p} : proc'[q] = proc[q]
        /\ DOMAIN wrote' = Processes /\ \A q \in Processes \ {p} : wrote'[q] = wrote[q]
    BY DEF ProcsInv, Wrote
  <1>2. wrote[p] \in Seq(Nat) /\ wrote[p] = [i \in 1..Len(wrote[p]) |-> i] /\ Len(wrote[p]) \in Nat
    BY DEF ProcsInv, ProcInv, Progress
  <1>3. wrote'[p] \in Seq(Nat) /\ Len(wrote'[p]) = l /\ wrote'[p] = [i \in 1..l |-> i]
    <2>1. CASE wrote' = wrote /\ l = Len(wrote[p])
      BY <1>2, <2>1
    <2>2. CASE Wrote(p) /\ l = proc[p].n /\ proc[p].n = Len(wrote[p]) + 1
      <3>1. wrote'[p] = Append(wrote[p], l)
        BY <2>2 DEF Wrote, ProcsInv
      <3>2. wrote'[p] \in Seq(Nat) /\ Len(wrote'[p]) = l
        BY <1>2, <2>2, <3>1
      <3>3. \A i \in 1..l : wrote'[p][i] = i
        BY <1>2, <2>2, <3>1
      <3> QED BY <3>2, <3>3
    <2> QED BY <2>1, <2>2
  <1>4. Progress(p)'
    BY <1>1, <1>3 DEF Progress
  <1>5. ASSUME NEW q \in Processes, q # p PROVE ProcInv(q)'
    BY <1>1, <1>5, OthersStay DEF ProcsInv
  <1>6. proc' \in [Processes -> ProcType] /\ wrote' \in [Processes -> Seq(Nat)]
    <2>1. CASE wrote' = wrote
      BY <2>1 DEF ProcsInv
    <2>2. CASE Wrote(p) /\ proc[p].n = l
      <3>1. \A q \in Processes : Append(wrote[p], l) \in Seq(Nat)
        BY <1>2
      <3> QED BY <2>2, <3>1 DEF ProcsInv, Wrote
    <2> QED BY <2>1, <2>2 DEF ProcsInv
  <1> QED BY <1>1, <1>3, <1>4, <1>5, <1>6 DEF ProcsInv, ProcInv

LEMMA ForgetsFields ==
    ASSUME NEW f \in ProcType
    PROVE  /\ Forgets(f) \in ProcType /\ Forgets(f).plan = f.plan /\ Forgets(f).wait = f.wait
           /\ Forgets(f).at = f.at /\ Forgets(f).n = f.n /\ Forgets(f).result = f.result
  <1>1. NoSets \in SetType /\ 1 \in 1..MaxTries
    BY SizesAssumption DEF NoSets, SetType
  <1> HIDE DEF NoSets
  <1> QED BY <1>1 DEF Forgets, ProcType

LEMMA EndsStep ==
    ASSUME ClusterInv, Moves, ProcsInv, NEW p \in Processes, NEW w \in Checks \cup {"error"}, NEW l \in Nat,
           Ends(p, w),
           \/ wrote' = wrote /\ l = Len(wrote[p])
           \/ Wrote(p) /\ l = proc[p].n /\ proc[p].n = Len(wrote[p]) + 1,
           w # "error" => l = Len(proc[p].plan)
    PROVE  ProcsInv'
  <1> DEFINE g == Forgets(proc[p])
             f == [g EXCEPT !.at = "done", !.checks = {}, !.result = w]
  <1>1. /\ g \in ProcType /\ g.plan = proc[p].plan /\ g.n = proc[p].n
        /\ DOMAIN proc = Processes
    BY ForgetsFields DEF ProcsInv, ProcInv
  <1> HIDE DEF g
  <1>2. /\ f \in ProcType /\ f.at = "done" /\ f.result = w /\ f.plan = proc[p].plan
    BY <1>1 DEF ProcType, Points
  <1>3. proc' = [proc EXCEPT ![p] = f]
    BY DEF Ends, g
  <1> HIDE DEF f
  <1>4. Vouched(p)'
    BY <1>1, <1>2, <1>3 DEF Vouched
  <1>5. w \in {"ok", "pending", "failed"} => w # "error"
    OBVIOUS
  <1> QED BY <1>2, <1>3, <1>4, <1>5, OwnStep

LEMMA ProceedStep ==
    ASSUME ClusterInv, Moves, ProcsInv, NEW p \in Processes, Proceed(p), Wrote(p),
           proc[p].at \in {"act", "update", "create"}
    PROVE  ProcsInv'
  <1> DEFINE g == Forgets(proc[p])
  <1>1. /\ g \in ProcType /\ g.plan = proc[p].plan /\ g.n = proc[p].n /\ g.result = proc[p].result
        /\ DOMAIN proc = Processes /\ proc[p] \in ProcType /\ wrote[p] \in Seq(Nat)
    BY ForgetsFields DEF ProcsInv, ProcInv
  <1>2. /\ g.n \in Nat \ {0} /\ Len(g.plan) \in Nat /\ g.n <= Len(g.plan)
        /\ Len(wrote[p]) = g.n - 1 /\ Len(wrote[p]) \in Nat /\ proc[p].result = "none"
    BY <1>1, Acting DEF ProcsInv, ProcInv, Progress
  <1> HIDE DEF g
  <1>3. CASE g.n < Len(g.plan)
    <2> DEFINE k == g.n + 1
               f == [g EXCEPT !.at = "act", !.n = k]
    <2>1. proc' = [proc EXCEPT ![p] = f]
      <3>1. f = [g EXCEPT !.n = @ + 1, !.at = "act"]
        BY <1>1 DEF ProcType
      <3> HIDE DEF f
      <3> QED BY <1>3, <3>1 DEF Proceed, g
    <2>2. f \in ProcType /\ f.at = "act" /\ f.n = g.n + 1 /\ f.plan = g.plan /\ f.result = g.result
      <3>1. k \in Nat \ {0} /\ k = g.n + 1
        BY <1>2
      <3> HIDE DEF k
      <3> QED BY <1>1, <3>1 DEF ProcType, Points
    <2> HIDE DEF f
    <2>3. Vouched(p)'
      BY <1>1, <2>1, <2>2 DEF Vouched
    <2>4. f.n <= Len(f.plan) /\ g.n = f.n - 1 /\ proc[p].n = g.n /\ proc[p].n = Len(wrote[p]) + 1 /\ g.n \in Nat
      BY <1>1, <1>2, <1>3, <2>2
    <2>5. /\ f.at \in {"act", "list", "update", "create"} => f.n <= Len(f.plan) /\ g.n = f.n - 1
          /\ ~(f.at \in {"wait", "verify"} \/ f.result \in {"ok", "pending", "failed"})
          /\ f.at # "done" => f.result = "none"
      BY <1>1, <1>2, <2>2, <2>4
    <2> QED BY <2>1, <2>2, <2>3, <2>4, <2>5, OwnStep
  <1>4. CASE ~(g.n < Len(g.plan))
    <2> DEFINE a == IF g.wait THEN "wait" ELSE "verify"
               f == [g EXCEPT !.at = a, !.n = 1]
    <2>1. proc' = [proc EXCEPT ![p] = f]
      <3>1. f = [g EXCEPT !.n = 1, !.at = IF g.wait THEN "wait" ELSE "verify"]
        BY <1>1 DEF ProcType
      <3> HIDE DEF f
      <3> QED BY <1>4, <3>1 DEF Proceed, g
    <2>2. a \in {"wait", "verify"} /\ a \in Points /\ 1 \in Nat \ {0}
      BY DEF Points
    <2> HIDE DEF a
    <2>3. f \in ProcType /\ f.at = a /\ f.plan = g.plan /\ f.result = g.result
      BY <1>1, <2>2 DEF ProcType
    <2> HIDE DEF f
    <2>4. Vouched(p)'
      BY <1>1, <2>1, <2>2, <2>3 DEF Vouched
    <2>5. proc[p].n = g.n /\ proc[p].n = Len(wrote[p]) + 1 /\ g.n \in Nat /\ g.n = Len(f.plan)
      BY <1>1, <1>2, <1>4, <2>3
    <2>6. /\ ~(f.at \in {"act", "list", "update", "create"}) /\ (f.at # "done" => f.result = "none")
      BY <1>1, <1>2, <2>2, <2>3
    <2> QED BY <2>1, <2>3, <2>4, <2>5, <2>6, OwnStep
  <1> QED BY <1>3, <1>4

\* A step of a process that does nothing to the cluster.
LEMMA ClusterStays ==
    ASSUME ClusterInv, UNCHANGED cluster
    PROVE  ClusterInv' /\ Moves
  <1>1. UNCHANGED <<obj, version, rs, ctl, rolled, ran>>
    BY DEF cluster
  <1>2. \A o \in Objects : version[o] \in Nat
    BY DEF ClusterInv, ClusterType
  <1>3. Moves
    BY <1>1, <1>2 DEF Moves
  <1>4. ClusterInv'
    BY <1>1 DEF ClusterInv, ClusterType, Followed, Numbers, Ran, Seen, Complete, PodsFollow
  <1> QED BY <1>3, <1>4

\* What a process is at in its plan.
LEMMA InPlan ==
    ASSUME ProcsInv, NEW p \in Processes
    PROVE  /\ proc[p] \in ProcType /\ wrote[p] \in Seq(Nat) /\ Len(wrote[p]) \in Nat
           /\ Vouched(p) /\ Progress(p) /\ DOMAIN proc = Processes /\ DOMAIN wrote = Processes
           /\ proc[p].n \in Nat \ {0} /\ Len(proc[p].plan) \in Nat
           /\ proc[p].at \in {"act", "list", "update", "create"} =>
                  /\ Act(p) \in ActionType /\ On(p) \in Objects
                  /\ proc[p].n = Len(wrote[p]) + 1 /\ proc[p].n <= Len(proc[p].plan)
                  /\ proc[p].result = "none"
           /\ proc[p].at \in {"wait", "verify"} =>
                  Len(wrote[p]) = Len(proc[p].plan) /\ proc[p].result = "none"
  <1>1. proc[p] \in ProcType /\ wrote[p] \in Seq(Nat) /\ Vouched(p) /\ Progress(p)
        /\ DOMAIN proc = Processes /\ DOMAIN wrote = Processes
    BY DEF ProcsInv, ProcInv
  <1>2. proc[p].n \in Nat \ {0} /\ Len(proc[p].plan) \in Nat /\ Len(wrote[p]) \in Nat
    BY <1>1, PlanFields
  <1>3. ASSUME proc[p].at \in {"act", "list", "update", "create"}
        PROVE  /\ Act(p) \in ActionType /\ On(p) \in Objects
               /\ proc[p].n = Len(wrote[p]) + 1 /\ proc[p].n <= Len(proc[p].plan)
               /\ proc[p].result = "none"
    BY <1>1, <1>2, <1>3, Acting DEF Progress
  <1>4. proc[p].at \in {"wait", "verify"} =>
            Len(wrote[p]) = Len(proc[p].plan) /\ proc[p].result = "none"
    BY <1>1 DEF Progress
  <1> QED BY <1>1, <1>2, <1>3, <1>4

\* What is written is the object as it is, but for what the action is about.
LEMMA ChangedFields ==
    ASSUME ClusterInv, ProcsInv, NEW p \in Processes, At(p, "update"), Current(p), NEW new \in Changed(p)
    PROVE  /\ proc[p].copy = obj[On(p)] /\ obj[On(p)] # Absent /\ obj[On(p)] \in ObjectType
           /\ new \in ObjectType /\ new.generation = obj[On(p)].generation
           /\ new.observed = obj[On(p)].observed /\ new.updated = obj[On(p)].updated
           /\ new.total = obj[On(p)].total /\ new.desired = obj[On(p)].desired
           /\ Act(p).op = "scale" => new = [obj[On(p)] EXCEPT !.replicas = Act(p).replicas]
           /\ Act(p).op = "rollback" =>
                  \E t \in findRollbackRS(p) : new = [obj[On(p)] EXCEPT !.template = t]
  <1> DEFINE x == obj[On(p)]
             a == Act(p)
  <1>1. proc[p].at = "update" /\ a \in ActionType /\ On(p) \in Objects /\ Vouched(p)
    BY InPlan DEF At
  <1>2. x # Absent /\ proc[p].copy = x /\ a.op # "delete"
    BY <1>1 DEF Vouched, Current
  <1>3. x \in ObjectType
    BY <1>1, <1>2 DEF ClusterInv, ClusterType
  <1>4. /\ a.op \in Operations /\ a.template \in Templates /\ a.replicas \in Nat /\ a.revision \in Nat
    BY <1>1 DEF ActionType
  <1> HIDE DEF x
  <1>5. CASE a.op = "scale"
    <2>1. new = [x EXCEPT !.replicas = a.replicas]
      BY <1>2, <1>5 DEF Changed
    <2> HIDE DEF a
    <2> QED BY <1>2, <1>3, <1>4, <1>5, <2>1 DEF ObjectType, x, a
  <1>6. CASE a.op = "rollback"
    <2>1. PICK t \in findRollbackRS(p) : new = [x EXCEPT !.template = t]
      BY <1>2, <1>6 DEF Changed
    <2>2. t \in Templates
      BY DEF findRollbackRS
    <2> HIDE DEF a
    <2> QED BY <1>2, <1>3, <1>4, <1>6, <2>1, <2>2 DEF ObjectType, x, a
  <1>7. CASE a.op = "apply"
    <2>1. new = [x EXCEPT !.template = a.template, !.replicas = a.replicas, !.revision = a.revision]
      BY <1>2, <1>7 DEF Changed
    <2> HIDE DEF a
    <2> QED BY <1>2, <1>3, <1>4, <1>7, <2>1 DEF ObjectType, x, a
  <1> QED BY <1>2, <1>4, <1>5, <1>6, <1>7 DEF Operations

LEMMA GetStep == ASSUME ClusterInv, ProcsInv, NEW p \in Processes, Get(p) PROVE ClusterInv' /\ ProcsInv'
  <1>1. /\ proc[p].at = "act" /\ Act(p).op # "delete" /\ UNCHANGED <<cluster, edits, wrote>>
    BY DEF Get, At
  <1>2. ClusterInv' /\ Moves /\ wrote' = wrote
    BY <1>1, ClusterStays
  <1>3. /\ proc[p] \in ProcType /\ Act(p) \in ActionType /\ On(p) \in Objects /\ DOMAIN proc = Processes
        /\ proc[p].n = Len(wrote[p]) + 1 /\ proc[p].n <= Len(proc[p].plan) /\ proc[p].result = "none"
        /\ Len(wrote[p]) \in Nat /\ proc[p].n \in Nat
    BY <1>1, InPlan
  <1>4. CASE obj[On(p)] # Absent
    <2> DEFINE o == On(p)
               a == IF Act(p).op = "rollback" THEN "list" ELSE "update"
               f == [proc[p] EXCEPT !.copy = obj[o], !.ver = version[o], !.at = a]
    <2>1. proc' = [proc EXCEPT ![p] = f]
      <3>1. proc' = [proc EXCEPT ![p].copy = obj[o], ![p].ver = version[o], ![p].at = a]
        BY <1>1, <1>4 DEF Get
      <3> HIDE DEF o, a
      <3> QED BY <1>3, <3>1 DEF ProcType
    <2>2. /\ obj[o] \in ObjectType /\ version[o] \in Nat /\ a \in {"list", "update"}
          /\ a = "update" => Act(p).op # "rollback"
      BY <1>3, <1>4 DEF ClusterInv, ClusterType
    <2>3. a \in Points
      BY DEF Points
    <2> HIDE DEF a
    <2>4. /\ f \in ProcType /\ f.at = a /\ f.plan = proc[p].plan /\ f.n = proc[p].n
          /\ f.result = proc[p].result /\ f.copy = obj[o] /\ f.ver = version[o]
      <3> HIDE DEF o
      <3> QED BY <1>3, <2>2, <2>3 DEF ProcType
    <2> HIDE DEF f
    <2>5. Vouched(p)'
      <3>1. proc'[p] = f /\ Act(p)' = Act(p) /\ On(p)' = o /\ UNCHANGED <<obj, version>>
        BY <1>1, <1>3, <2>1, <2>4 DEF Act, On, cluster
      <3>2. version[o] <= version[o]
        BY <2>2
      <3> QED BY <1>1, <1>4, <2>2, <2>4, <3>1, <3>2 DEF Vouched, Current
    <2>6. /\ f.n <= Len(f.plan) /\ Len(wrote[p]) = f.n - 1 /\ f.result = "none"
          /\ ~(f.at \in {"wait", "verify"} \/ f.result \in {"ok", "pending", "failed"})
      BY <1>3, <2>2, <2>4
    <2> QED BY <1>2, <1>3, <2>1, <2>4, <2>5, <2>6, OwnStep
  <1>5. CASE obj[On(p)] = Absent /\ Act(p).op = "apply"
    <2> DEFINE f == [proc[p] EXCEPT !.at = "create"]
    <2>1. proc' = [proc EXCEPT ![p] = f]
      BY <1>5 DEF Get
    <2>2. /\ f \in ProcType /\ f.at = "create" /\ f.plan = proc[p].plan /\ f.n = proc[p].n
          /\ f.result = proc[p].result
      BY <1>3 DEF ProcType, Points
    <2> HIDE DEF f
    <2>3. Vouched(p)'
      BY <1>3, <2>1, <2>2 DEF Vouched
    <2>4. /\ f.n <= Len(f.plan) /\ Len(wrote[p]) = f.n - 1 /\ f.result = "none"
          /\ ~(f.at \in {"wait", "verify"} \/ f.result \in {"ok", "pending", "failed"})
      BY <1>3, <2>2
    <2> QED BY <1>2, <1>3, <2>1, <2>2, <2>3, <2>4, OwnStep
  <1>6. CASE obj[On(p)] = Absent /\ Act(p).op # "apply"
    <2>1. Ends(p, "error")
      BY <1>6 DEF Get
    <2> QED BY <1>2, <1>3, <2>1, EndsStep
  <1> QED BY <1>4, <1>5, <1>6

LEMMA ListStep ==
    ASSUME ClusterInv, ProcsInv, NEW p \in Processes, ListReplicaSets(p) PROVE ClusterInv' /\ ProcsInv'
  <1> DEFINE s == ownedReplicaSets(p)
             o == On(p)
             f == [proc[p] EXCEPT !.rs = s, !.at = "update"]
  <1>1. /\ proc[p].at = "list" /\ UNCHANGED <<cluster, edits, wrote>>
        /\ proc' = [proc EXCEPT ![p].rs = s, ![p].at = "update"]
    BY DEF ListReplicaSets, At
  <1>2. ClusterInv' /\ Moves /\ wrote' = wrote
    BY <1>1, ClusterStays
  <1>3. /\ proc[p] \in ProcType /\ o \in Objects /\ DOMAIN proc = Processes /\ Vouched(p)
        /\ proc[p].n = Len(wrote[p]) + 1 /\ proc[p].n <= Len(proc[p].plan) /\ proc[p].result = "none"
        /\ Len(wrote[p]) \in Nat /\ proc[p].n \in Nat
    BY <1>1, InPlan
  <1>4. s \in SetType
    <2>1. NoSets \in SetType /\ rs[o] \in SetType
      BY <1>3 DEF NoSets, SetType, ClusterInv, ClusterType
    <2> QED BY <2>1 DEF ownedReplicaSets
  <1>5. proc[p].copy = obj[o] /\ obj[o] # Absent => s = rs[o]
    BY DEF ownedReplicaSets
  <1> HIDE DEF s
  <1>6. proc' = [proc EXCEPT ![p] = f]
    BY <1>1, <1>3 DEF ProcType
  <1>7. /\ f \in ProcType /\ f.at = "update" /\ f.plan = proc[p].plan /\ f.n = proc[p].n
        /\ f.result = proc[p].result /\ f.copy = proc[p].copy /\ f.ver = proc[p].ver /\ f.rs = s
    BY <1>3, <1>4 DEF ProcType, Points
  <1> HIDE DEF f
  <1>8. Vouched(p)'
    <2>1. /\ proc'[p] = f /\ Act(p)' = Act(p) /\ On(p)' = o /\ UNCHANGED <<obj, version, rs, ctl, rolled>>
      BY <1>1, <1>3, <1>6, <1>7 DEF Act, On, cluster
    <2>2. f.copy # Absent /\ f.ver <= version[o] /\ Act(p).op # "delete"
      BY <1>1, <1>3, <1>7 DEF Vouched
    <2>3. ASSUME Current(p)
          PROVE  /\ f.copy = obj[o]
                 /\ IF Kind[o] # "Deployment" THEN f.rs = NoSets
                    ELSE f.rs = rs[o] /\ Listing(f.rs, rolled[o])
      <3>1. f.copy = obj[o] /\ f.rs = rs[o]
        BY <1>1, <1>3, <1>5, <1>7, <2>3 DEF Vouched, Current
      <3>2. Numbers(o) /\ rolled[o] \in Seq(Templates) /\ (Numbering(rs[o], rolled[o]) => Listing(rs[o], rolled[o]))
        BY <1>3 DEF ClusterInv, ClusterType, Numbering, Listing
      <3> QED BY <3>1, <3>2 DEF Numbers
    <2>4. (Current(p)' <=> Current(p))
      BY <1>7, <2>1 DEF Current
    <2> QED BY <2>1, <2>2, <2>3, <2>4 DEF Vouched, Seen
  <1>9. /\ f.n <= Len(f.plan) /\ Len(wrote[p]) = f.n - 1 /\ f.result = "none"
        /\ ~(f.at \in {"wait", "verify"} \/ f.result \in {"ok", "pending", "failed"})
    BY <1>3, <1>7
  <1> QED BY <1>2, <1>3, <1>6, <1>7, <1>8, <1>9, OwnStep

\* A write of a process, whether its answer arrives or not.
LEMMA WriteCluster ==
    ASSUME ClusterInv, ProcsInv, NEW p \in Processes, At(p, "update"), Current(p),
           \E new \in Changed(p) : Put(On(p), new), UNCHANGED <<rs, ctl, rolled, ran>>
    PROVE  /\ ClusterInv' /\ Moves
           /\ proc[p].n = Len(wrote[p]) + 1 /\ proc[p].n \in Nat
  <1>1. PICK new \in Changed(p) : Put(On(p), new)
    OBVIOUS
  <1>2. /\ On(p) \in Objects /\ proc[p].n = Len(wrote[p]) + 1 /\ proc[p].n \in Nat
    BY InPlan DEF At
  <1>3. /\ obj[On(p)] # Absent /\ new \in ObjectType /\ new.generation = obj[On(p)].generation
        /\ new.observed = obj[On(p)].observed /\ new.updated = obj[On(p)].updated
        /\ new.total = obj[On(p)].total /\ new.desired = obj[On(p)].desired
    BY <1>1, ChangedFields
  <1>4. ClusterInv' /\ Moves
    <2> PICK o \in Objects : o = On(p)
      BY <1>2
    <2> QED BY <1>1, <1>3, PutSpec
  <1> QED BY <1>2, <1>4

LEMMA UpdateStep == ASSUME ClusterInv, ProcsInv, NEW p \in Processes, Update(p) PROVE ClusterInv' /\ ProcsInv'
  <1>1. /\ At(p, "update") /\ Current(p) /\ \E new \in Changed(p) : Put(On(p), new)
        /\ Wrote(p) /\ Proceed(p) /\ UNCHANGED <<rs, ctl, rolled, ran>> /\ proc[p].at = "update"
    BY DEF Update, At
  <1>2. ClusterInv' /\ Moves
    BY <1>1, WriteCluster
  <1> QED BY <1>1, <1>2, ProceedStep

LEMMA LostStep == ASSUME ClusterInv, ProcsInv, NEW p \in Processes, AnswerLost(p) PROVE ClusterInv' /\ ProcsInv'
  <1>1. /\ At(p, "update") /\ Current(p) /\ \E new \in Changed(p) : Put(On(p), new)
        /\ Wrote(p) /\ Ends(p, "error") /\ UNCHANGED <<rs, ctl, rolled, ran>>
    BY DEF AnswerLost
  <1>2. ClusterInv' /\ Moves /\ proc[p].n = Len(wrote[p]) + 1 /\ proc[p].n \in Nat
    BY <1>1, WriteCluster
  <1> QED BY <1>1, <1>2, EndsStep

LEMMA ConflictStep == ASSUME ClusterInv, ProcsInv, NEW p \in Processes, Conflict(p) PROVE ClusterInv' /\ ProcsInv'
  <1>1. proc[p].at = "update" /\ UNCHANGED <<cluster, edits, wrote>>
    BY DEF Conflict, At
  <1>2. ClusterInv' /\ Moves /\ wrote' = wrote
    BY <1>1, ClusterStays
  <1>3. /\ proc[p] \in ProcType /\ DOMAIN proc = Processes
        /\ proc[p].n = Len(wrote[p]) + 1 /\ proc[p].n <= Len(proc[p].plan) /\ proc[p].result = "none"
        /\ Len(wrote[p]) \in Nat /\ proc[p].n \in Nat
    BY <1>1, InPlan
  <1>4. CASE Act(p).op # "apply" /\ proc[p].tries < MaxTries
    <2> DEFINE g == Forgets(proc[p])
               k == proc[p].tries + 1
               f == [g EXCEPT !.tries = k, !.at = "act"]
    <2>1. proc' = [proc EXCEPT ![p] = f]
      BY <1>4 DEF Conflict
    <2>2. /\ g \in ProcType /\ g.plan = proc[p].plan /\ g.n = proc[p].n /\ g.result = proc[p].result
      BY <1>3, ForgetsFields
    <2>3. k \in 1..MaxTries
      BY <1>3, <1>4, SizesAssumption DEF ProcType
    <2> HIDE DEF g, k
    <2>4. /\ f \in ProcType /\ f.at = "act" /\ f.plan = proc[p].plan /\ f.n = proc[p].n
          /\ f.result = proc[p].result
      BY <2>2, <2>3 DEF ProcType, Points
    <2> HIDE DEF f
    <2>5. Vouched(p)'
      BY <1>3, <2>1, <2>4 DEF Vouched
    <2>6. /\ f.n <= Len(f.plan) /\ Len(wrote[p]) = f.n - 1 /\ f.result = "none"
          /\ ~(f.at \in {"wait", "verify"} \/ f.result \in {"ok", "pending", "failed"})
      BY <1>3, <2>4
    <2> QED BY <1>2, <1>3, <2>1, <2>4, <2>5, <2>6, OwnStep
  <1>5. CASE ~(Act(p).op # "apply" /\ proc[p].tries < MaxTries)
    <2>1. Ends(p, "error")
      BY <1>5 DEF Conflict
    <2> QED BY <1>2, <1>3, <2>1, EndsStep
  <1> QED BY <1>4, <1>5

\* A failure, at whatever call.
LEMMA FailsStep ==
    ASSUME ClusterInv, ProcsInv, NEW p \in Processes, UNCHANGED <<cluster, wrote>>,
           \/ Ends(p, "error")
           \/ Ends(p, "failed") /\ proc[p].at \in {"wait", "verify"}
    PROVE  ClusterInv' /\ ProcsInv'
  <1>1. ClusterInv' /\ Moves /\ wrote' = wrote
    BY ClusterStays
  <1>2. /\ Len(wrote[p]) \in Nat
        /\ proc[p].at \in {"wait", "verify"} => Len(wrote[p]) = Len(proc[p].plan)
    BY InPlan
  <1>3. CASE Ends(p, "error")
    BY <1>1, <1>2, <1>3, EndsStep
  <1>4. CASE Ends(p, "failed") /\ proc[p].at \in {"wait", "verify"}
    BY <1>1, <1>2, <1>4, EndsStep DEF Checks
  <1> QED BY <1>3, <1>4

LEMMA CreateStep == ASSUME ClusterInv, ProcsInv, NEW p \in Processes, Create(p) PROVE ClusterInv' /\ ProcsInv'
  <1>1. proc[p].at = "create" /\ UNCHANGED edits
    BY DEF Create, At
  <1>2. CASE obj[On(p)] # Absent
    <2>1. Ends(p, "error") /\ UNCHANGED <<cluster, wrote>>
      BY <1>2 DEF Create
    <2> QED BY <2>1, FailsStep
  <1>3. CASE obj[On(p)] = Absent
    <2>1. /\ Act(p) \in ActionType /\ On(p) \in Objects
      BY <1>1, InPlan
    <2>2. /\ Act(p).template \in Templates /\ Act(p).replicas \in Nat /\ Act(p).revision \in Nat
      BY <2>1 DEF ActionType
    <2>3. /\ obj' = [obj EXCEPT ![On(p)] =
                        Object(Act(p).template, Act(p).replicas, Act(p).revision, version[On(p)] + 1)]
          /\ version' = [version EXCEPT ![On(p)] = @ + 1]
          /\ Wrote(p) /\ Proceed(p) /\ UNCHANGED <<rs, ctl, rolled, ran>>
      BY <1>3 DEF Create
    <2>4. ClusterInv' /\ Moves
      <3> PICK o \in Objects : o = On(p)
        BY <2>1
      <3> PICK t \in Templates, n \in Nat, k \in Nat :
                t = Act(p).template /\ n = Act(p).replicas /\ k = Act(p).revision
        BY <2>2
      <3> QED BY <1>3, <2>3, CreateCluster
    <2> QED BY <1>1, <2>3, <2>4, ProceedStep
  <1> QED BY <1>2, <1>3

LEMMA DeleteStep == ASSUME ClusterInv, ProcsInv, NEW p \in Processes, Delete(p) PROVE ClusterInv' /\ ProcsInv'
  <1>1. proc[p].at = "act" /\ UNCHANGED edits
    BY DEF Delete, At
  <1>2. CASE obj[On(p)] = Absent
    <2>1. Ends(p, "error") /\ UNCHANGED <<cluster, wrote>>
      BY <1>2 DEF Delete
    <2> QED BY <2>1, FailsStep
  <1>3. CASE obj[On(p)] # Absent
    <2>1. On(p) \in Objects
      BY <1>1, InPlan
    <2> PICK o \in Objects : o = On(p)
      BY <2>1
    <2> DEFINE x == [obj[o] EXCEPT !.terminating = TRUE]
    <2>2. /\ \/ Remove(o)
             \/ Put(o, x) /\ UNCHANGED <<rs, ctl, rolled, ran>>
          /\ Wrote(p) /\ Proceed(p)
      BY <1>3 DEF Delete
    <2>3. obj[o] \in ObjectType
      BY <1>3 DEF ClusterInv, ClusterType
    <2>4. /\ x \in ObjectType /\ x.generation = obj[o].generation /\ x.observed = obj[o].observed
          /\ x.updated = obj[o].updated /\ x.total = obj[o].total /\ x.desired = obj[o].desired
      BY <2>3 DEF ObjectType
    <2> HIDE DEF x
    <2>5. ClusterInv' /\ Moves
      <3>1. CASE Remove(o)
        BY <3>1, RemoveCluster
      <3>2. CASE Put(o, x) /\ UNCHANGED <<rs, ctl, rolled, ran>>
        BY <1>3, <2>4, <3>2, PutSpec
      <3> QED BY <2>2, <3>1, <3>2
    <2> QED BY <1>1, <2>2, <2>5, ProceedStep
  <1> QED BY <1>2, <1>3

\* A step of the wait or the verification, which reads only.
LEMMA CheckStep ==
    ASSUME ClusterInv, ProcsInv, NEW p \in Processes, UNCHANGED <<cluster, wrote>>,
           proc[p].at \in {"wait", "verify"}, NEW f \in ProcType, proc' = [proc EXCEPT ![p] = f],
           f.plan = proc[p].plan, f.at \in {"wait", "verify"}, f.result = proc[p].result
    PROVE  ClusterInv' /\ ProcsInv'
  <1>1. ClusterInv' /\ Moves /\ wrote' = wrote
    BY ClusterStays
  <1>2. /\ Len(wrote[p]) \in Nat /\ Len(wrote[p]) = Len(proc[p].plan) /\ proc[p].result = "none"
        /\ DOMAIN proc = Processes
    BY InPlan
  <1>3. Vouched(p)'
    BY <1>2 DEF Vouched
  <1> QED BY <1>1, <1>2, <1>3, OwnStep

LEMMA WaitStep ==
    ASSUME ClusterInv, ProcsInv, NEW p \in Processes, WaitReady(p) \/ TimesOut(p) \/ WaitEnds(p)
    PROVE  ClusterInv' /\ ProcsInv'
  <1>1. proc[p].at = "wait" /\ UNCHANGED <<cluster, wrote>>
    BY DEF WaitReady, TimesOut, WaitEnds, At
  <1>2. proc[p] \in ProcType /\ proc[p].n \in Nat \ {0}
    BY InPlan
  <1>3. CASE Ends(p, "failed")
    BY <1>1, <1>3, FailsStep
  <1>4. CASE proc' = [proc EXCEPT ![p].n = @ + 1]
    <2> DEFINE k == proc[p].n + 1
               f == [proc[p] EXCEPT !.n = k]
    <2>1. k \in Nat \ {0}
      BY <1>2
    <2>2. proc' = [proc EXCEPT ![p] = f]
      BY <1>4
    <2> HIDE DEF k
    <2>3. f \in ProcType /\ f.plan = proc[p].plan /\ f.at = "wait" /\ f.result = proc[p].result
      BY <1>1, <1>2, <2>1 DEF ProcType
    <2> HIDE DEF f
    <2> QED BY <1>1, <2>2, <2>3, CheckStep
  <1>5. CASE proc' = [proc EXCEPT ![p].at = "verify", ![p].n = 1]
    <2> DEFINE f == [proc[p] EXCEPT !.at = "verify", !.n = 1]
    <2>1. proc' = [proc EXCEPT ![p] = f]
      BY <1>2, <1>5 DEF ProcType
    <2>2. f \in ProcType /\ f.plan = proc[p].plan /\ f.at = "verify" /\ f.result = proc[p].result
      <3>1. 1 \in Nat \ {0} /\ "verify" \in Points
        BY DEF Points
      <3> QED BY <1>2, <3>1 DEF ProcType
    <2> HIDE DEF f
    <2> QED BY <1>1, <2>1, <2>2, CheckStep
  <1> QED BY <1>3, <1>4, <1>5 DEF WaitReady, TimesOut, WaitEnds

LEMMA VerifyStep ==
    ASSUME ClusterInv, ProcsInv, NEW p \in Processes, Verify(p) PROVE ClusterInv' /\ ProcsInv'
  <1>1. proc[p].at = "verify" /\ UNCHANGED <<cluster, wrote>>
    BY DEF Verify, At
  <1>2. proc[p] \in ProcType /\ proc[p].n \in Nat \ {0} /\ proc[p].checks \in SUBSET Checks
    BY InPlan DEF ProcType
  <1>3. PICK s \in {verifyAction(Act(p))} \cup (IF "lost" \in Faults THEN {"failed"} ELSE {}) :
            proc' = [proc EXCEPT ![p].checks = @ \cup {s}, ![p].n = @ + 1]
    BY DEF Verify
  <1>4. s \in Checks
    BY <1>3 DEF verifyAction, Checks
  <1> DEFINE k == proc[p].n + 1
             c == proc[p].checks \cup {s}
             f == [proc[p] EXCEPT !.checks = c, !.n = k]
  <1>5. k \in Nat \ {0} /\ c \in SUBSET Checks
    BY <1>2, <1>4
  <1>6. proc' = [proc EXCEPT ![p] = f]
    <2>1. f = [proc[p] EXCEPT !.checks = @ \cup {s}, !.n = @ + 1]
      BY <1>2 DEF ProcType
    <2> HIDE DEF f
    <2> QED BY <1>2, <1>3, <2>1 DEF ProcType
  <1> HIDE DEF k, c
  <1>7. f \in ProcType /\ f.plan = proc[p].plan /\ f.at = "verify" /\ f.result = proc[p].result
    BY <1>1, <1>2, <1>5 DEF ProcType
  <1> HIDE DEF f
  <1> QED BY <1>1, <1>6, <1>7, CheckStep

LEMMA ReportStep ==
    ASSUME ClusterInv, ProcsInv, NEW p \in Processes, Report(p) PROVE ClusterInv' /\ ProcsInv'
  <1>1. proc[p].at = "verify" /\ UNCHANGED <<cluster, wrote>>
    BY DEF Report, At
  <1>2. ClusterInv' /\ Moves /\ wrote' = wrote
    BY <1>1, ClusterStays
  <1>3. Len(wrote[p]) \in Nat /\ Len(wrote[p]) = Len(proc[p].plan)
    BY <1>1, InPlan
  <1>4. PICK w \in Checks : w = rollup(proc[p].checks, proc[p].wait)
    BY DEF rollup, Checks
  <1>5. Ends(p, w)
    BY <1>4 DEF Report
  <1> QED BY <1>2, <1>3, <1>5, EndsStep

\* A step of the controllers or of another user.
LEMMA ElseStep ==
    ASSUME ClusterInv, Moves, ClusterInv', ProcsInv, UNCHANGED <<proc, wrote>>
    PROVE  ProcsInv'
  <1>1. ASSUME NEW q \in Processes PROVE ProcInv(q)'
    BY <1>1, OthersStay DEF ProcsInv
  <1> QED BY <1>1 DEF ProcsInv

LEMMA ControlStep ==
    ASSUME ClusterInv, ProcsInv, NEW o \in Objects, Control(o)
    PROVE  ClusterInv' /\ ProcsInv' /\ UNCHANGED <<proc, edits, wrote>>
  <1>1. CASE Observe(o)
    <2>1. ClusterInv' /\ UNCHANGED <<proc, edits, wrote>>
      BY <1>1, ObserveCluster
    <2>2. ASSUME NEW q \in Processes PROVE ProcInv(q)'
      BY <1>1, <2>2, ObserveStays DEF ProcsInv
    <2> QED BY <2>1, <2>2 DEF ProcsInv
  <1>2. CASE Roll(o)
    BY <1>2, RollCluster, ElseStep
  <1>3. CASE Annotate(o)
    BY <1>3, AnnotateCluster, ElseStep
  <1>4. CASE Publish(o)
    BY <1>4, PublishCluster, ElseStep
  <1>5. CASE Vanish(o)
    BY <1>5, RemoveCluster, ElseStep DEF Vanish
  <1> QED BY <1>1, <1>2, <1>3, <1>4, <1>5 DEF Control

LEMMA EditStep == ASSUME IInv, Edit PROVE IInv'
  <1>1. PICK o \in Edited, w \in Wanted :
            obj[o] # Absent /\ Put(o, [obj[o] EXCEPT !.template = w.template, !.replicas = w.replicas])
    BY DEF Edit
  <1> DEFINE x == [obj[o] EXCEPT !.template = w.template, !.replicas = w.replicas]
  <1>2. /\ o \in Objects /\ w.template \in Templates /\ w.replicas \in Nat
        /\ UNCHANGED <<rs, ctl, proc, rolled, ran, wrote>>
    BY EditedAssumption DEF Edit
  <1>3. obj[o] \in ObjectType
    BY <1>1, <1>2 DEF IInv, ClusterInv, ClusterType
  <1>4. /\ x \in ObjectType /\ x.generation = obj[o].generation /\ x.observed = obj[o].observed
        /\ x.updated = obj[o].updated /\ x.total = obj[o].total /\ x.desired = obj[o].desired
    BY <1>2, <1>3 DEF ObjectType
  <1> HIDE DEF x
  <1>5. ClusterInv' /\ Moves
    BY <1>1, <1>2, <1>4, PutSpec DEF IInv, x
  <1>6. ProcsInv'
    BY <1>2, <1>5, ElseStep DEF IInv
  <1>7. edits' \in 0..MaxEdits
    BY SizesAssumption DEF IInv, Edit
  <1> QED BY <1>5, <1>6, <1>7 DEF IInv

LEMMA ProcessStep ==
    ASSUME IInv, NEW p \in Processes, Apply(p) \/ Check(p)
    PROVE  IInv'
  <1>1. edits' = edits
    BY DEF Apply, Check, Get, ListReplicaSets, Update, Conflict, UpdateFails, Create, Delete, CallFails,
           AnswerLost, WaitReady, TimesOut, WaitEnds, Verify, Report
  <1>2. ClusterInv' /\ ProcsInv'
    <2> USE DEF IInv
    <2>1. CASE Get(p)
      BY <2>1, GetStep
    <2>2. CASE ListReplicaSets(p)
      BY <2>2, ListStep
    <2>3. CASE Update(p)
      BY <2>3, UpdateStep
    <2>4. CASE Conflict(p)
      BY <2>4, ConflictStep
    <2>5. CASE UpdateFails(p)
      BY <2>5, FailsStep DEF UpdateFails
    <2>6. CASE Create(p)
      BY <2>6, CreateStep
    <2>7. CASE Delete(p)
      BY <2>7, DeleteStep
    <2>8. CASE CallFails(p)
      BY <2>8, FailsStep DEF CallFails
    <2>9. CASE AnswerLost(p)
      BY <2>9, LostStep
    <2>10. CASE WaitReady(p) \/ TimesOut(p) \/ WaitEnds(p)
      BY <2>10, WaitStep
    <2>11. CASE Verify(p)
      BY <2>11, VerifyStep
    <2>12. CASE Report(p)
      BY <2>12, ReportStep
    <2> QED BY <2>1, <2>2, <2>3, <2>4, <2>5, <2>6, <2>7, <2>8, <2>9, <2>10, <2>11, <2>12 DEF Apply, Check
  <1> QED BY <1>1, <1>2 DEF IInv

LEMMA InitIInv == Init => IInv
  <1> SUFFICES ASSUME Init PROVE IInv
    OBVIOUS
  <1>1. PICK run \in Runs : proc = [p \in Processes |-> Begin(run[p])]
    BY DEF Init
  <1>2. ASSUME NEW p \in Processes PROVE ProcInv(p)
    <2>1. proc[p] = Begin(run[p]) /\ wrote[p] = <<>> /\ run[p].plan \in PlanType /\ run[p].wait \in BOOLEAN
      BY <1>1, RunsAssumption DEF Init
    <2>2. NoSets \in SetType /\ 1 \in 1..MaxTries
      BY SizesAssumption DEF NoSets, SetType
    <2>3. /\ Begin(run[p]) \in ProcType /\ Begin(run[p]).at = "act" /\ Begin(run[p]).n = 1
          /\ Begin(run[p]).plan = run[p].plan /\ Begin(run[p]).result = "none"
      <3> HIDE DEF NoSets
      <3> QED BY <2>1, <2>2 DEF Begin, ProcType, Points, Checks
    <2>4. Len(proc[p].plan) \in Nat \ {0}
      BY <2>1, <2>3, PlanFields
    <2>5. <<>> \in Seq(Nat) /\ Len(<<>>) = 0 /\ <<>> = [i \in 1..0 |-> i]
      OBVIOUS
    <2>6. Progress(p)
      BY <2>1, <2>3, <2>4, <2>5 DEF Progress
    <2> QED BY <2>1, <2>3, <2>5, <2>6 DEF ProcInv, Vouched
  <1>3. proc \in [Processes -> ProcType]
    BY <1>1, <1>2 DEF ProcInv
  <1>4. wrote \in [Processes -> Seq(Nat)] /\ edits = 0
    <2>1. wrote = [p \in Processes |-> <<>>] /\ edits = 0
      BY DEF Init
    <2>2. <<>> \in Seq(Nat)
      OBVIOUS
    <2> QED BY <2>1, <2>2
  <1>5. 0 \in 0..MaxEdits
    BY SizesAssumption
  <1> QED BY <1>2, <1>3, <1>4, <1>5, InitCluster DEF IInv, ProcsInv

LEMMA StepIInv == IInv /\ [Next]_vars => IInv'
  <1> SUFFICES ASSUME IInv, [Next]_vars PROVE IInv'
    OBVIOUS
  <1>1. CASE UNCHANGED vars
    <2>1. UNCHANGED cluster /\ UNCHANGED <<proc, edits, wrote>>
      BY <1>1 DEF vars
    <2> QED BY <2>1, ClusterStays, ElseStep DEF IInv
  <1>2. ASSUME NEW p \in Processes, Apply(p) \/ Check(p) PROVE IInv'
    BY <1>2, ProcessStep
  <1>3. ASSUME NEW o \in Objects, Control(o) PROVE IInv'
    BY <1>3, ControlStep DEF IInv
  <1>4. CASE Edit
    BY <1>4, EditStep
  <1> QED BY <1>1, <1>2, <1>3, <1>4 DEF Next

LEMMA AlwaysIInv == Spec => []IInv
  BY InitIInv, StepIInv, PTL DEF Spec

--------------------------------------------------------------------------------

\* A process writes down what it has written, and nobody else does.
LEMMA OnlyWrites ==
    ASSUME NEW q \in Processes, Apply(q) \/ Check(q)
    PROVE  \/ wrote' = wrote
           \/ Wrote(q) /\ (Update(q) \/ AnswerLost(q) \/ ~At(q, "update"))
  BY DEF Apply, Check, Get, ListReplicaSets, Update, Conflict, UpdateFails, Create, Delete, CallFails,
         AnswerLost, WaitReady, TimesOut, WaitEnds, Verify, Report, At

\* Who writes an object back does it over the version it has read.
LEMMA WritesUpdate ==
    ASSUME IInv, [Next]_vars, NEW p \in Processes, At(p, "update"), wrote'[p] # wrote[p]
    PROVE  /\ Current(p) /\ On(p) \in Objects
           /\ \E new \in Changed(p) : obj' = [obj EXCEPT ![On(p)] = Stored(On(p), new)]
  <1>1. wrote' # wrote
    OBVIOUS
  <1>2. PICK q \in Processes : Apply(q) \/ Check(q)
    BY <1>1 DEF Next, vars, Control, Observe, Roll, Annotate, Publish, Vanish, Edit
  <1>3. Wrote(q) /\ (Update(q) \/ AnswerLost(q) \/ ~At(q, "update"))
    BY <1>1, <1>2, OnlyWrites
  <1>4. q = p
    BY <1>3 DEF Wrote, IInv, ProcsInv
  <1>5. Current(p) /\ \E new \in Changed(p) : Put(On(p), new)
    BY <1>3, <1>4 DEF Update, AnswerLost
  <1>6. On(p) \in Objects
    BY InPlan DEF IInv, At
  <1> QED BY <1>5, <1>6 DEF Put, Stored

\* What a process wrote is its plan as far as it came, in order and each action
\* once: a lost answer is not followed by a second write, and what is waited for,
\* verified and reported is complete (Runner.Apply, executor.go:28).
THEOREM PlansAreCarriedOutOnce == Spec => []PlanCarriedOut
  <1>1. IInv => PlanCarriedOut
    <2> SUFFICES ASSUME IInv PROVE PlanCarriedOut
      OBVIOUS
    <2>1. TypeOK
      BY DEF TypeOK, IInv, ClusterInv, ClusterType, ProcsInv
    <2>2. CarriedOutOnce
      BY DEF IInv, ProcsInv, ProcInv, CarriedOutOnce, Progress
    <2> QED BY <2>1, <2>2 DEF PlanCarriedOut
  <1> QED BY <1>1, AlwaysIInv, PTL

\* A scaling that is written loses no edit of others: the object is the one they
\* left, with the number of replicas the plan asks for.
THEOREM ScalingLosesNoEdit == Spec => ScaleKeepsEdits
  <1>1. ASSUME IInv, [Next]_vars, NEW p \in Processes, Writes(p, "scale")
        PROVE  LET o == On(p)
               IN  /\ obj'[o].replicas = Act(p).replicas
                   /\ [obj'[o] EXCEPT !.replicas = obj[o].replicas, !.generation = obj[o].generation]
                        = obj[o]
    <2>1. /\ At(p, "update") /\ Act(p).op = "scale" /\ Current(p) /\ On(p) \in Objects
          /\ \E new \in Changed(p) : obj' = [obj EXCEPT ![On(p)] = Stored(On(p), new)]
      BY <1>1, WritesUpdate DEF Writes
    <2> PICK o \in Objects : o = On(p)
      BY <2>1
    <2>2. PICK new \in Changed(p) : obj' = [obj EXCEPT ![o] = Stored(o, new)]
      BY <2>1
    <2>3. /\ new \in ObjectType /\ obj[o] \in ObjectType /\ new = [obj[o] EXCEPT !.replicas = Act(p).replicas]
      BY <1>1, <2>1, <2>2, ChangedFields DEF IInv
    <2>4. obj'[o] = Stored(o, new) /\ Stored(o, new) \in ObjectType
      BY <1>1, <2>2, <2>3, StoredFields DEF IInv, ClusterInv, ClusterType
    <2>5. Act(p).replicas \in Nat /\ Stored(o, new).replicas = new.replicas
      BY ZenonT(60), <1>1, <2>1, <2>3, InPlan, StoredFields DEF IInv, At, ActionType
    <2>6. new.replicas = Act(p).replicas
      BY <2>3 DEF ObjectType
    <2>7. \A g \in Nat : [[new EXCEPT !.generation = g] EXCEPT !.replicas = obj[o].replicas,
                              !.generation = obj[o].generation] = obj[o]
      BY <2>3, <2>5 DEF ObjectType
    <2>8. \E g \in Nat : Stored(o, new) = [new EXCEPT !.generation = g]
      <3>1. new.generation \in Nat /\ new.generation + 1 \in Nat
        BY <2>3, ObjectFields
      <3> QED BY <3>1 DEF Stored
    <2> QED BY ZenonT(60), <2>4, <2>5, <2>6, <2>7, <2>8
  <1>2. IInv /\ [Next]_vars =>
          (\A p \in Processes : Writes(p, "scale") =>
            LET o == On(p)
            IN  /\ obj'[o].replicas = Act(p).replicas
                /\ [obj'[o] EXCEPT !.replicas = obj[o].replicas, !.generation = obj[o].generation]
                        = obj[o])
    BY <1>1
  <1> QED BY <1>2, AlwaysIInv, PTL DEF ScaleKeepsEdits, Spec

\* Once the controller has followed the last change, a rollback to "the previous
\* revision" brings back the template rolled out before the present one: whoever
\* wrote in between, however often the replica sets were numbered anew, and even
\* if the last roll-out came after they were listed (findRollbackRS).
THEOREM RollbackUndoesTheLastRollout == Spec => RollbackUndoes
  <1>1. ASSUME IInv, [Next]_vars, NEW p \in Processes, Writes(p, "rollback"),
               Act(p).revision = 0, Seen(On(p)), Annotated(On(p))
        PROVE  /\ Len(rolled[On(p)]) > 1
               /\ obj'[On(p)].template = rolled[On(p)][Len(rolled[On(p)]) - 1]
               /\ obj'[On(p)].replicas = obj[On(p)].replicas
    <2>1. /\ At(p, "update") /\ Act(p).op = "rollback" /\ Current(p) /\ On(p) \in Objects
          /\ \E new \in Changed(p) : obj' = [obj EXCEPT ![On(p)] = Stored(On(p), new)]
      BY <1>1, WritesUpdate DEF Writes
    <2> PICK o \in Objects : o = On(p)
      BY <2>1
    <2>2. PICK new \in Changed(p) : obj' = [obj EXCEPT ![o] = Stored(o, new)]
      BY <2>1
    <2>3. /\ new \in ObjectType /\ obj[o] \in ObjectType /\ proc[p].copy = obj[o]
          /\ \E t \in findRollbackRS(p) : new = [obj[o] EXCEPT !.template = t]
      BY <1>1, <2>1, <2>2, ChangedFields DEF IInv
    <2>4. PICK t \in findRollbackRS(p) : new = [obj[o] EXCEPT !.template = t]
      BY <2>3
    <2> DEFINE sets == proc[p].rs
               r    == rolled[o]
               n    == Len(r)
    <2>5. /\ t \in Templates /\ sets[t] \in 1..(obj[o].revision - 1)
          /\ \A u \in Templates : sets[u] \in 1..(obj[o].revision - 1) => sets[u] <= sets[t]
      BY <1>1, <2>3 DEF findRollbackRS
    <2>6. /\ IF Kind[o] # "Deployment" THEN sets = NoSets ELSE Listing(sets, r)
          /\ sets \in SetType
      BY <1>1, <2>1, InPlan DEF IInv, Vouched, At, ProcType
    <2>7. Kind[o] = "Deployment" /\ Listing(sets, r)
      BY <2>5, <2>6 DEF NoSets
    <2>8. r \in Seq(Templates) /\ rs[o] \in SetType /\ Numbering(rs[o], r)
      BY <1>1, <2>7 DEF IInv, ClusterInv, ClusterType, Numbers
    <2>9. obj[o].revision = n /\ n \in Nat
      BY <1>1, <2>7, <2>8, NewestCounts DEF Annotated
    <2>10. n > 1
      <3>1. sets[t] \in Nat /\ 1 <= sets[t] /\ sets[t] <= n - 1
        BY <2>5, <2>9
      <3> QED BY <2>9, <3>1
    <2>11. r[n - 1] \in Templates /\ sets[r[n - 1]] = n - 1
      BY <2>7, <2>8, <2>9, <2>10 DEF Listing
    <2>12. sets[t] = n - 1
      BY <2>5, <2>9, <2>10, <2>11
    <2>13. t = r[n - 1]
      <3>1. n - 1 # 0
        <4> HIDE DEF n
        <4> QED BY <2>9, <2>10
      <3> QED BY <2>5, <2>7, <2>11, <2>12, <3>1 DEF Listing
    <2>14. /\ obj'[o] = Stored(o, new) /\ Stored(o, new).template = new.template
           /\ Stored(o, new).replicas = new.replicas
      BY ZenonT(60), <1>1, <2>2, <2>3, StoredFields DEF IInv, ClusterInv, ClusterType
    <2>15. new.template = t /\ new.replicas = obj[o].replicas
      BY <2>3, <2>4 DEF ObjectType
    <2> QED BY <2>10, <2>13, <2>14, <2>15
  <1>2. IInv /\ [Next]_vars =>
          (\A p \in Processes : Writes(p, "rollback") =>
            LET o == On(p)
            IN  Act(p).revision = 0 /\ Seen(o) /\ Annotated(o) =>
                    /\ Len(rolled[o]) > 1
                    /\ obj'[o].template = rolled[o][Len(rolled[o]) - 1]
                    /\ obj'[o].replicas = obj[o].replicas)
    BY <1>1
  <1> QED BY <1>2, AlwaysIInv, PTL DEF RollbackUndoes, Spec

\* Who gets on in the wait does so at a workload that is complete.
LEMMA WaitGoesOn ==
    ASSUME IInv, [Next]_vars, NEW p \in Processes, At(p, "wait"), proc'[p].n > proc[p].n,
           On(p) \in Targets(proc[p].plan)
    PROVE  obj[On(p)] # Absent /\ Complete(On(p), obj[On(p)])
  <1>1. proc[p] \in ProcType /\ proc[p].n \in Nat \ {0} /\ DOMAIN proc = Processes
    BY InPlan DEF IInv
  <1>2. proc'[p] # proc[p]
    BY <1>1
  <1>3. PICK q \in Processes : Apply(q) \/ Check(q)
    BY <1>2 DEF Next, vars, Control, Observe, Roll, Annotate, Publish, Vanish, Edit
  <1>4. q = p
    <2>1. \A x \in Processes : x # q => proc'[x] = proc[x]
      <3>1. CASE \E w : Ends(q, w)
        BY <3>1 DEF Ends
      <3>2. CASE Proceed(q)
        BY <3>2 DEF Proceed
      <3>3. CASE Get(q) \/ ListReplicaSets(q)
        BY <1>1, <3>1, <3>3 DEF Get, ListReplicaSets
      <3>4. CASE Conflict(q) \/ WaitReady(q) \/ WaitEnds(q) \/ Verify(q)
        BY <1>1, <3>1, <3>4 DEF Conflict, WaitReady, WaitEnds, Verify
      <3> QED BY <1>3, <3>1, <3>2, <3>3, <3>4 DEF Apply, Check, Update, UpdateFails, Create, Delete,
               CallFails, AnswerLost, TimesOut, Report
    <2> QED BY <1>2, <2>1
  <1>5. ~Ends(p, "failed") /\ ~WaitEnds(p)
    <2>1. Ends(p, "failed") => proc'[p].n = proc[p].n
      <3>1. proc[p].n = [Forgets(proc[p]) EXCEPT !.at = "done", !.checks = {}, !.result = "failed"].n
        BY <1>1, ForgetsFields DEF ProcType
      <3> QED BY <1>1, <3>1 DEF Ends
    <2>2. WaitEnds(p) => proc'[p].n = 1
      BY <1>1 DEF WaitEnds, ProcType
    <2> QED BY <1>1, <2>1, <2>2
  <1>6. WaitReady(p)
    BY <1>3, <1>4, <1>5 DEF Apply, Check, Get, ListReplicaSets, Update, Conflict, UpdateFails, Create, Delete,
             CallFails, AnswerLost, TimesOut, Verify, Report, At
  <1> QED BY <1>5, <1>6 DEF WaitReady

\* What --wait waits for, and what verification calls a Deployment that is fine,
\* is the spec the object has: all pods have run it, not the one before it
\* (waiter.go, verify.Plan).
THEOREM ReadyIsTheLatestSpec == Spec => ReadyMeansRan
  <1>1. ASSUME IInv, [Next]_vars, NEW p \in Processes, Passes(p)
        PROVE  ran[On(p)] >= obj[On(p)].generation
    <2>1. On(p) \in Objects /\ Kind[On(p)] \in Workloads
      <3>1. PICK i \in DOMAIN proc[p].plan : On(p) = proc[p].plan[i].obj /\ Kind[proc[p].plan[i].obj] \in Workloads
        BY <1>1 DEF Passes, Targets
      <3>2. proc[p].plan \in Seq(ActionType)
        BY <1>1, InPlan, PlanFields DEF IInv
      <3>3. proc[p].plan[i] \in ActionType
        BY <3>1, <3>2
      <3> QED BY <3>1, <3>3 DEF ActionType
    <2> PICK o \in Objects : o = On(p)
      BY <2>1
    <2>2. obj[o] # Absent /\ Complete(o, obj[o])
      <3>1. CASE At(p, "wait")
        BY <1>1, <3>1, WaitGoesOn DEF Passes
      <3>2. CASE /\ Kind[o] = "Deployment" /\ Act(p).op # "delete"
                 /\ verifyAction(Act(p)) = "ok"
        <4>1. obj[o] # Absent
          BY <3>2 DEF verifyAction, On
        <4>2. RolledOut(o, obj[o])
          BY <3>2, <4>1 DEF verifyAction, On
        <4> QED BY <3>2, <4>1, <4>2 DEF RolledOut
      <3> QED BY <1>1, <3>1, <3>2 DEF Passes
    <2> QED BY <1>1, <2>1, <2>2 DEF IInv, ClusterInv, Followed
  <1>2. IInv /\ [Next]_vars => (\A p \in Processes : Passes(p) => ran[On(p)] >= obj[On(p)].generation)
    BY <1>1
  <1> QED BY <1>2, AlwaysIInv, PTL DEF ReadyMeansRan, Spec

-------------------------------------------------------------------------------
(***************************************************************************)
(* Learning, for any actors, signatures, libraries left by earlier runs,   *)
(* cap and faults.  A copy on its way back never claims more than was      *)
(* saved so far, because what was saved only grows; as long as nothing     *)
(* failed and no processes overlapped, whoever is between load and save    *)
(* holds the library as it is stored; and a confidence is above that of    *)
(* the analysis by no more than what had been seen at its match may lend.  *)
(***************************************************************************)

Busy(a) == stage[a] # "idle"

\* Who is busy has something to record; only loops analyse and apply.
WorkInv ==
    \A a \in Actors :
        /\ Busy(a) => work[a].sig \in Signatures /\ work[a].what \in Outcomes \cup {"fired"}
        /\ stage[a] \in {"match", "apply"} => a \in Loops

\* A confidence is above the analysis' own by at most what the recordings before
\* its match may lend; what is about to be applied reaches the floor.
LiftInv ==
    \A a \in Actors :
        /\ work[a].conf <= work[a].raw + LiftOf(work[a].prior)
        /\ stage[a] = "match" => work[a].conf = work[a].raw
        /\ stage[a] = "apply" => work[a].conf >= Floor

\* The mutex is held by the one in the agent that is between load and save.
HolderInv ==
    \A a \in InAgent : stage[a] = "save" <=> holder = a

\* Undisturbed, only one is between load and save, and holds what is stored.
FreshCopy ==
    ~disturbed =>
        \A a \in Actors : stage[a] = "save" =>
            /\ copy[a] = stored
            /\ \A b \in Actors : stage[b] = "save" => b = a

LearnedInv == LearningTypeOK /\ CountsHonest /\ WorkInv /\ LiftInv /\ LiftIsEarned

Kept == HolderInv /\ FreshCopy /\ NothingLost

-------------------------------------------------------------------------------

LEMMA BasisPointsAreNumbers == \A x \in BasisPoints : x \in Nat /\ x <= 10000
  BY DEF BasisPoints

\* What was recorded may lend more when more was recorded.
LEMMA LiftGrows ==
    /\ \A n \in Nat : LiftOf(n) \in Nat
    /\ \A m, n \in Nat : m <= n => LiftOf(m) <= LiftOf(n)
  BY DEF LiftOf

\* A pattern lends no more than its occurrences allow, however it is trusted.
LEMMA BoostRange ==
    ASSUME NEW p \in Pattern
    PROVE  EffectiveBoost(p) \in Nat /\ EffectiveBoost(p) <= LiftOf(p.count)
  <1> DEFINE base == IF p.count >= 5 THEN 1500 ELSE 1000
             trust == IF p.fps > p.confirmed /\ p.fps >= 2 THEN Lesser(WeightOf(p), 40)
                      ELSE WeightOf(p)
  <1>1. trust \in 0..100
    BY DEF Pattern, WeightOf, Lesser
  <1>2. p.count \in Nat
    BY DEF Pattern
  <1>3. EffectiveBoost(p) = IF p.count < 2 THEN 0 ELSE (base * trust) \div 100
    BY DEF EffectiveBoost, base, trust, MinPriorCount
  <1>4. CASE p.count < 2
    BY <1>2, <1>3, <1>4 DEF LiftOf
  <1>5. CASE p.count >= 5
    <2>1. base = 1500 /\ LiftOf(p.count) = 1500
      BY <1>5 DEF LiftOf
    <2>2. EffectiveBoost(p) = (1500 * trust) \div 100
      BY <1>2, <1>3, <1>5, <2>1
    <2> HIDE DEF base, trust
    <2> QED BY <1>1, <2>1, <2>2
  <1>6. CASE p.count >= 2 /\ p.count < 5
    <2>1. base = 1000 /\ LiftOf(p.count) = 1000
      BY <1>2, <1>6 DEF LiftOf
    <2>2. EffectiveBoost(p) = (1000 * trust) \div 100
      BY <1>2, <1>3, <1>6, <2>1
    <2> HIDE DEF base, trust
    <2> QED BY <1>1, <2>1, <2>2
  <1> QED BY <1>2, <1>4, <1>5, <1>6

\* An outcome makes a pattern of a pattern.
LEMMA OutcomeTyped ==
    ASSUME NEW p \in Pattern, NEW what \in Outcomes
    PROVE  /\ RecordOutcomeAction(p, what) \in Pattern
           /\ RecordOutcomeAction(p, what).count = p.count
           /\ RecordOutcomeAction(p, what).confirmed = IF what \in Good THEN p.confirmed + 1 ELSE p.confirmed
           /\ RecordOutcomeAction(p, what).fps = IF what = "false_positive" THEN p.fps + 1 ELSE p.fps
  <1>1. WeightOf(p) \in 20..100
    BY DEF WeightOf, Pattern
  <1>2. Weighed(WeightOf(p), what) \in 20..100
    <2>1. CASE what \in Good
      BY <1>1, <2>1 DEF Weighed, Lesser, Good
    <2>2. CASE what \in {"false_positive", "apply_failed", "apply_partial"}
      BY <1>1, <2>2 DEF Weighed, Greater, Good
    <2> QED BY <2>1, <2>2 DEF Outcomes, Applying, Good
  <1> DEFINE weight == Weighed(WeightOf(p), what)
             confirmed == IF what \in Good THEN p.confirmed + 1 ELSE p.confirmed
             fps == IF what = "false_positive" THEN p.fps + 1 ELSE p.fps
  <1>3. confirmed \in Nat /\ fps \in Nat
    BY DEF Pattern
  <1>4. RecordOutcomeAction(p, what) =
            [p EXCEPT !.weight = weight, !.confirmed = confirmed, !.fps = fps]
    BY DEF RecordOutcomeAction
  <1> HIDE DEF weight, confirmed, fps
  <1>5. /\ RecordOutcomeAction(p, what) \in Pattern
        /\ RecordOutcomeAction(p, what).count = p.count
        /\ RecordOutcomeAction(p, what).confirmed = confirmed
        /\ RecordOutcomeAction(p, what).fps = fps
    BY <1>2, <1>3, <1>4 DEF Pattern, weight
  <1> QED BY <1>5 DEF confirmed, fps

LEMMA FirstTyped == First(0) \in Pattern /\ First(100) \in Pattern
  BY DEF First, Pattern

\* What a recording makes of the pattern of its signature, before any cut.
Recorded(p, what) ==
    IF what = "fired" THEN IF p = None THEN First(0) ELSE [p EXCEPT !.count = @ + 1]
    ELSE RecordOutcomeAction(IF p = None THEN First(100) ELSE p, what)

LEMMA ChangedEffect ==
    ASSUME NEW p \in Pattern \cup {None}, NEW what \in Outcomes \cup {"fired"}
    PROVE  /\ Recorded(p, what) \in Pattern /\ Recorded(p, what) # None
           /\ Recorded(p, what).count =
                  IF what = "fired" \/ p = None THEN Account(p).seen + 1 ELSE Account(p).seen
           /\ Recorded(p, what).confirmed =
                  IF what \in Good THEN Account(p).good + 1 ELSE Account(p).good
           /\ Recorded(p, what).fps =
                  IF what = "false_positive" THEN Account(p).marked + 1 ELSE Account(p).marked
           /\ p # None => Recorded(p, what).count >= p.count
  <1>0. None \notin Pattern
    BY LearningAssumption
  <1>1. CASE what = "fired"
    BY <1>0, <1>1, FirstTyped DEF Recorded, First, Pattern, Account, Good
  <1>2. CASE what # "fired"
    <2>1. what \in Outcomes
      BY <1>2
    <2>2. CASE p = None
      BY <1>0, <1>2, <2>1, <2>2, FirstTyped, OutcomeTyped DEF Recorded, First, Account
    <2>3. CASE p # None
      BY <1>0, <1>2, <2>1, <2>3, OutcomeTyped DEF Recorded, Pattern, Account
    <2> QED BY <2>2, <2>3
  <1> QED BY <1>1, <1>2

\* A recording keeps a pattern as it is, changes the one of its signature, or
\* cuts one off.
LEMMA RecordEffect ==
    ASSUME NEW lib \in Library, NEW s \in Signatures, NEW what \in Outcomes \cup {"fired"},
           NEW new \in Record(lib, s, what)
    PROVE  /\ new \in Library
           /\ \A t \in Signatures :
                  new[t] \in {None, IF t = s THEN Recorded(lib[s], what) ELSE lib[t]}
  <1> DEFINE next == [lib EXCEPT ![s] = Recorded(lib[s], what)]
  <1>1. lib[s] \in Pattern \cup {None}
    BY DEF Library
  <1>2. Recorded(lib[s], what) \in Pattern
    BY <1>1, ChangedEffect
  <1>3. next \in Library /\ \A t \in Signatures : next[t] = IF t = s THEN Recorded(lib[s], what) ELSE lib[t]
    BY <1>2 DEF Library
  <1>4. CASE what = "fired"
    <2>1. new \in Cut(next)
      BY <1>4 DEF Record, Recorded
    <2>2. PICK kept \in SUBSET Present(next) :
              new = [t \in Signatures |-> IF t \in kept THEN next[t] ELSE None]
      BY <2>1 DEF Cut, Shortened
    <2> QED BY <1>3, <2>2 DEF Library
  <1>5. CASE what # "fired"
    BY <1>3, <1>5 DEF Record, Recorded
  <1> QED BY <1>4, <1>5

\* The account of a signature only grows.
LEMMA AccountedEffect ==
    ASSUME happened \in [Signatures -> Happened],
           NEW lib, NEW w, w.sig \in Signatures, NEW s \in Signatures
    PROVE  /\ Accounted(lib, w) \in [Signatures -> Happened]
           /\ Accounted(lib, w)[s].seen =
                  IF s = w.sig /\ (w.what = "fired" \/ lib[s] = None)
                  THEN happened[s].seen + 1 ELSE happened[s].seen
           /\ Accounted(lib, w)[s].good =
                  IF s = w.sig /\ w.what \in Good THEN happened[s].good + 1 ELSE happened[s].good
           /\ Accounted(lib, w)[s].marked =
                  IF s = w.sig /\ w.what = "false_positive"
                  THEN happened[s].marked + 1 ELSE happened[s].marked
  <1> DEFINE old == happened[w.sig]
             seen == IF w.what = "fired" \/ lib[w.sig] = None THEN old.seen + 1 ELSE old.seen
             good == IF w.what \in Good THEN old.good + 1 ELSE old.good
             marked == IF w.what = "false_positive" THEN old.marked + 1 ELSE old.marked
             more == [seen |-> seen, good |-> good, marked |-> marked]
  <1>1. old \in Happened
    OBVIOUS
  <1>2. seen \in Nat /\ good \in Nat /\ marked \in Nat
    BY <1>1 DEF Happened
  <1>3. Accounted(lib, w) = [happened EXCEPT ![w.sig] = more]
    <2>1. Accounted(lib, w) =
              [happened EXCEPT ![w.sig] = [[[old EXCEPT !.seen = seen] EXCEPT !.good = good]
                                               EXCEPT !.marked = marked]]
      BY DEF Accounted
    <2> HIDE DEF seen, good, marked
    <2> HIDE DEF old
    <2> DEFINE final == [[[old EXCEPT !.seen = seen] EXCEPT !.good = good] EXCEPT !.marked = marked]
    <2>2. /\ final \in Happened
          /\ final.seen = seen /\ final.good = good /\ final.marked = marked
      BY <1>1, <1>2 DEF Happened
    <2> HIDE DEF final
    <2>3. final = [seen |-> final.seen, good |-> final.good, marked |-> final.marked]
      BY <2>2 DEF Happened
    <2>4. final = more
      BY <2>2, <2>3
    <2> QED BY <2>1, <2>4 DEF old, final
  <1>4. more \in Happened
    BY <1>2 DEF Happened
  <1> QED BY <1>3, <1>4 DEF Happened

LEMMA InitLearnedInv == LearningInit => LearnedInv
  <1> SUFFICES ASSUME LearningInit PROVE LearnedInv
    OBVIOUS
  <1> USE DEF LearningInit
  <1>1. \A s \in Signatures : stored[s] \in Pattern \cup {None}
    BY LearningAssumption DEF Library
  <1>2. LearningTypeOK
    <2>1. Nothing \in Library /\ stored \in Library
      BY LearningAssumption DEF Nothing, Library
    <2>2. NoWork \in Work
      BY DEF NoWork, Work, BasisPoints
    <2>3. happened \in [Signatures -> Happened]
      <3>1. \A p \in Pattern \cup {None} : Account(p) \in Happened
        BY DEF Account, Pattern, Happened
      <3> QED BY <1>1, <3>1
    <2>4. disturbed \in BOOLEAN
      BY Zenon
    <2> QED BY <2>1, <2>2, <2>3, <2>4 DEF LearningTypeOK
  <1>3. CountsHonest
    BY <1>1 DEF CountsHonest, Backed, Account, Nothing, Pattern
  <1>4. WorkInv /\ LiftInv /\ LiftIsEarned
    BY DEF WorkInv, LiftInv, LiftIsEarned, LiftOf, NoWork, Busy
  <1> QED BY <1>2, <1>3, <1>4 DEF LearnedInv

\* Whatever starts a recording leaves the library and its history alone.
LEMMA StartIInv ==
    ASSUME LearnedInv, NEW a \in Actors, NEW w \in Work, NEW next \in {"match", "learn"},
           w.sig \in Signatures, w.what \in Outcomes \cup {"fired"}, w.conf = w.raw, next = "match" => a \in Loops,
           Start(a, w, next), UNCHANGED <<library, history>>
    PROVE  LearnedInv'
  <1>0. w.raw \in Nat /\ LiftOf(w.prior) \in Nat
    BY LiftGrows, BasisPointsAreNumbers DEF Work
  <1> USE DEF LearnedInv, Start, library, history
  <1>1. stage \in [Actors -> {"idle", "match", "learn", "save", "apply"}] /\ work \in [Actors -> Work]
    BY DEF LearningTypeOK
  <1>2. LearningTypeOK'
    BY <1>1 DEF LearningTypeOK
  <1>3. CountsHonest'
    BY DEF CountsHonest, Backed
  <1>4. \A b \in Actors : work'[b] = (IF b = a THEN w ELSE work[b])
                         /\ stage'[b] = (IF b = a THEN next ELSE stage[b])
    BY <1>1
  <1>5. WorkInv'
    BY <1>4 DEF WorkInv, Busy
  <1>6. LiftInv'
    BY <1>0, <1>4 DEF LiftInv
  <1>7. LiftIsEarned'
    BY DEF LiftIsEarned
  <1> QED BY <1>2, <1>3, <1>5, <1>6, <1>7

LEMMA ChangeIInv == ASSUME LearnedInv, NEW a \in Loops, Change(a) PROVE LearnedInv'
  <1>1. PICK s \in Signatures, what \in {"fired", "resolved"}, raw \in Raws :
            Start(a, [NoWork EXCEPT !.sig = s, !.what = what, !.raw = raw, !.conf = raw], "match")
    BY DEF Change
  <1> DEFINE w == [NoWork EXCEPT !.sig = s, !.what = what, !.raw = raw, !.conf = raw]
  <1>2. raw \in BasisPoints
    BY LearningAssumption DEF BasisPoints
  <1>3. w \in Work /\ w.sig \in Signatures /\ w.what \in Outcomes \cup {"fired"} /\ w.conf = w.raw
    BY <1>2 DEF NoWork, Work, Outcomes, Good
  <1> HIDE DEF w
  <1> QED BY <1>1, <1>3, StartIInv DEF Change, Actors, InAgent, w

LEMMA OutcomeStarts ==
    ASSUME LearnedInv, NEW a \in Actors, NEW s \in Signatures, NEW o \in Outcomes,
           Start(a, [NoWork EXCEPT !.sig = s, !.what = o], "learn"), UNCHANGED <<library, history>>
    PROVE  LearnedInv'
  <1> DEFINE w == [NoWork EXCEPT !.sig = s, !.what = o]
  <1>1. NoWork \in Work /\ NoWork.conf = NoWork.raw
    BY DEF NoWork, Work, BasisPoints
  <1>2. w \in Work /\ w.sig = s /\ w.what = o /\ w.conf = w.raw
    BY <1>1 DEF Work
  <1> HIDE DEF w
  <1> QED BY <1>2, StartIInv DEF w

LEMMA AnalyzeIInv == ASSUME LearnedInv, NEW a \in Loops, Analyze(a) PROVE LearnedInv'
  <1> DEFINE s == work[a].sig
             seen == happened[s].seen
  <1> USE DEF LearnedInv
  <1>1. /\ stage[a] = "match" /\ a \in Actors /\ stage' = [stage EXCEPT ![a] = "learn"]
        /\ UNCHANGED <<stored, holder, copy, begun, happened, forgotten, disturbed, applied>>
    BY DEF Analyze, Actors, InAgent, library, history
  <1>2. PICK boost \in Boosts(s) : work' = [work EXCEPT ![a] = Boosted(work[a], boost)]
    BY DEF Analyze
  <1>3. /\ stage \in [Actors -> {"idle", "match", "learn", "save", "apply"}]
        /\ work \in [Actors -> Work] /\ work[a] \in Work
        /\ stored \in Library /\ happened \in [Signatures -> Happened]
    BY <1>1 DEF LearningTypeOK
  <1>4. /\ s \in Signatures /\ seen \in Nat
        /\ work[a].conf = work[a].raw /\ work[a].raw \in BasisPoints
    BY <1>1, <1>3 DEF WorkInv, LiftInv, Busy, Work, Happened
  <1>5. boost \in Nat /\ LiftOf(seen) \in Nat /\ boost <= LiftOf(seen)
    <2>1. LiftOf(seen) \in Nat
      BY <1>4, LiftGrows
    <2>2. CASE boost = 0
      BY <2>1, <2>2
    <2>3. CASE boost # 0
      <3>1. Match(s) /\ boost = EffectiveBoost(stored[s])
        BY <2>3 DEF Boosts
      <3>2. stored[s] \in Pattern /\ stored[s].count \in Nat /\ stored[s].count <= seen
        BY <1>3, <1>4, <3>1 DEF Match, Library, Pattern, CountsHonest, Backed
      <3>3. /\ boost \in Nat /\ boost <= LiftOf(stored[s].count)
            /\ LiftOf(stored[s].count) \in Nat
            /\ LiftOf(stored[s].count) <= LiftOf(seen)
        BY <1>4, <3>1, <3>2, BoostRange, LiftGrows
      <3> HIDE DEF seen
      <3> QED BY <2>1, <3>3
    <2> QED BY <2>2, <2>3
  <1> DEFINE conf == Lesser(10000, work[a].conf + boost)
             w == Boosted(work[a], boost)
  <1>6. conf \in BasisPoints /\ conf <= work[a].raw + LiftOf(seen)
    <2> DEFINE raw == work[a].raw
    <2>1. raw \in Nat /\ raw <= 10000 /\ conf = Lesser(10000, raw + boost)
      BY <1>4, BasisPointsAreNumbers
    <2> HIDE DEF raw, conf, seen
    <2>2. conf \in 0..10000 /\ conf <= raw + LiftOf(seen)
      <3>1. CASE 10000 < raw + boost
        BY <1>5, <2>1, <3>1 DEF Lesser
      <3>2. CASE ~(10000 < raw + boost)
        BY <1>5, <2>1, <3>2 DEF Lesser
      <3> QED BY <3>1, <3>2
    <2> QED BY <2>2 DEF BasisPoints, raw
  <1>7. /\ w \in Work /\ w.sig = work[a].sig /\ w.what = work[a].what
        /\ w.raw = work[a].raw /\ w.conf = conf /\ w.prior = seen
    <2>1. w = [work[a] EXCEPT !.conf = conf, !.prior = seen]
      BY DEF Boosted
    <2> HIDE DEF conf, seen, w
    <2> QED BY <1>3, <1>4, <1>6, <2>1 DEF Work
  <1>8. work' = [work EXCEPT ![a] = w]
    BY <1>2
  <1> HIDE DEF conf, w
  <1>9. \A b \in Actors : /\ stage'[b] = (IF b = a THEN "learn" ELSE stage[b])
                          /\ work'[b] = (IF b = a THEN w ELSE work[b])
    BY <1>1, <1>3, <1>8
  <1>10. LearningTypeOK'
    BY <1>1, <1>3, <1>7, <1>8 DEF LearningTypeOK
  <1>11. CountsHonest' /\ LiftIsEarned'
    BY <1>1 DEF CountsHonest, Backed, LiftIsEarned
  <1>12. WorkInv'
    BY <1>1, <1>7, <1>9 DEF WorkInv, Busy
  <1>13. LiftInv'
    BY <1>6, <1>7, <1>9 DEF LiftInv
  <1> QED BY <1>10, <1>11, <1>12, <1>13

LEMMA ApplyIInv == ASSUME LearnedInv, NEW a \in Loops, ApplyProposal(a) PROVE LearnedInv'
  <1> USE DEF LearnedInv
  <1> DEFINE done == [raw |-> work[a].raw, conf |-> work[a].conf,
                      prior |-> work[a].prior]
  <1>1. /\ stage[a] = "apply" /\ a \in Actors /\ applied' = applied \cup {done}
        /\ UNCHANGED <<stored, holder, copy, begun, happened, forgotten, disturbed>>
    BY DEF ApplyProposal, Actors, InAgent, library
  <1>2. PICK w, next : /\ work' = [work EXCEPT ![a] = w]
                       /\ stage' = [stage EXCEPT ![a] = next]
                       /\ w \in Work /\ w.conf = w.raw
                       /\ \/ next = "learn" /\ w.sig \in Signatures /\ w.what \in Outcomes \cup {"fired"}
                          \/ next = "idle"
    <2>1. NoWork \in Work /\ NoWork.conf = NoWork.raw
      BY DEF NoWork, Work, BasisPoints
    <2>2. \A s \in Signatures, o \in Applying :
              LET w == [NoWork EXCEPT !.sig = s, !.what = o] IN
              w \in Work /\ w.sig = s /\ w.what = o /\ w.conf = w.raw
      BY <2>1 DEF Work, Outcomes
    <2>3. CASE \E s \in Signatures, o \in Applying :
                   /\ work' = [work EXCEPT ![a] = [NoWork EXCEPT !.sig = s, !.what = o]]
                   /\ stage' = [stage EXCEPT ![a] = "learn"]
      <3>1. PICK s \in Signatures, o \in Applying :
                   /\ work' = [work EXCEPT ![a] = [NoWork EXCEPT !.sig = s, !.what = o]]
                   /\ stage' = [stage EXCEPT ![a] = "learn"]
        BY <2>3
      <3> DEFINE w == [NoWork EXCEPT !.sig = s, !.what = o]
      <3>2. w \in Work /\ w.sig = s /\ w.what = o /\ w.conf = w.raw
        BY <2>2, Zenon
      <3>3. work' = [work EXCEPT ![a] = w]
        BY <3>1
      <3> HIDE DEF w
      <3> QED BY <3>1, <3>2, <3>3 DEF Outcomes
    <2>4. CASE work' = [work EXCEPT ![a] = NoWork] /\ stage' = [stage EXCEPT ![a] = "idle"]
      BY <2>1, <2>4
    <2> QED BY <2>3, <2>4 DEF ApplyProposal
  <1>3. /\ stage \in [Actors -> {"idle", "match", "learn", "save", "apply"}]
        /\ work \in [Actors -> Work] /\ work[a] \in Work
    BY <1>1 DEF LearningTypeOK
  <1>4. \A b \in Actors : /\ stage'[b] = IF b = a THEN next ELSE stage[b]
                          /\ work'[b] = IF b = a THEN w ELSE work[b]
    BY <1>2, <1>3
  <1>5. LearningTypeOK'
    <2>1. work[a].raw \in BasisPoints /\ work[a].conf \in BasisPoints /\ work[a].prior \in Nat
      BY <1>3 DEF Work
    <2>3. done \in Applied
      BY <2>1, Zenon DEF Applied
    <2>4. applied' \subseteq Applied
      BY <1>1, <2>3 DEF LearningTypeOK
    <2> QED BY <1>1, <1>2, <1>3, <2>4 DEF LearningTypeOK
  <1>6. CountsHonest'
    BY <1>1 DEF CountsHonest, Backed
  <1>7. WorkInv'
    BY <1>1, <1>2, <1>4 DEF WorkInv, Busy
  <1>8. LiftInv'
    <2>1. w.raw \in Nat /\ LiftOf(w.prior) \in Nat
      BY <1>2, LiftGrows, BasisPointsAreNumbers DEF Work
    <2> QED BY <1>1, <1>2, <1>4, <2>1 DEF LiftInv
  <1>9. LiftIsEarned'
    <2>1. /\ work[a].raw \in Nat /\ work[a].conf \in Nat /\ Floor \in Nat
          /\ LiftOf(work[a].prior) \in Nat
      <3>1. /\ work[a].raw \in BasisPoints /\ work[a].conf \in BasisPoints
            /\ work[a].prior \in Nat
        BY <1>3 DEF Work
      <3>2. LiftOf(work[a].prior) \in Nat
        BY <3>1, LiftGrows
      <3>3. work[a].raw \in Nat /\ work[a].conf \in Nat
        BY <3>1, BasisPointsAreNumbers
      <3>4. Floor \in Nat
        BY LearningAssumption
      <3> QED BY <3>2, <3>3, <3>4
    <2>2. work[a].conf <= work[a].raw + LiftOf(work[a].prior) /\ work[a].conf >= Floor
      BY <1>1 DEF LiftInv
    <2>3. work[a].raw + LiftOf(work[a].prior) >= Floor
      BY <2>1, <2>2
    <2>4. done.raw + LiftOf(done.prior) >= Floor
      BY <2>3
    <2> HIDE DEF done
    <2> QED BY <1>1, <2>4 DEF LiftIsEarned
  <1> QED BY <1>5, <1>6, <1>7, <1>8, <1>9

LEMMA LoadIInv == ASSUME LearnedInv, NEW a \in Actors, Load(a) PROVE LearnedInv'
  <1> USE DEF LearnedInv
  <1>1. /\ stage[a] = "learn" /\ stage' = [stage EXCEPT ![a] = "save"]
        /\ holder' = IF a \in InAgent THEN a ELSE holder
        /\ copy' = [copy EXCEPT ![a] = stored] \/ copy' = [copy EXCEPT ![a] = Nothing]
        /\ UNCHANGED <<stored, work, begun, happened, forgotten, applied>>
    BY DEF Load
  <1>2. LearningTypeOK'
    <2>1. disturbed' \in BOOLEAN
      <3>1. disturbed \in BOOLEAN
        BY DEF LearningTypeOK
      <3> QED BY <3>1, Zenon DEF Load
    <2>2. Nothing \in Library
      BY DEF Nothing, Library
    <2> QED BY <1>1, <2>1, <2>2 DEF LearningTypeOK
  <1>3. CountsHonest'
    <2>1. copy \in [Actors -> Library]
      BY DEF LearningTypeOK
    <2>2. \A s \in Signatures, b \in Actors : copy'[b][s] \in {copy[b][s], stored[s], None}
      BY <1>1, <2>1 DEF Nothing
    <2> QED BY <1>1, <2>2 DEF CountsHonest, Backed
  <1>4. stage \in [Actors -> {"idle", "match", "learn", "save", "apply"}]
    BY DEF LearningTypeOK
  <1>5. \A b \in Actors : stage'[b] = IF b = a THEN "save" ELSE stage[b]
    BY <1>1, <1>4
  <1>6. WorkInv' /\ LiftInv'
    BY <1>1, <1>5 DEF WorkInv, LiftInv, Busy
  <1>7. LiftIsEarned'
    BY <1>1 DEF LiftIsEarned
  <1> QED BY <1>2, <1>3, <1>6, <1>7

\* How a recording ends, whether it was saved or not.
LEMMA FinishEffect ==
    ASSUME LearningTypeOK, NEW a \in Actors, stage[a] = "save", Finish(a)
    PROVE  /\ \A b \in Actors \ {a} : /\ work'[b] = work[b] /\ stage'[b] = stage[b]
                                      /\ copy'[b] = copy[b]
           /\ copy'[a] = Nothing
           /\ \/ stage'[a] = "idle" /\ work'[a] = NoWork
              \/ stage'[a] = "apply" /\ work'[a] = work[a] /\ a \in Loops /\ work[a].conf >= Floor
           /\ work' \in [Actors -> Work] /\ copy' \in [Actors -> Library]
           /\ stage' \in [Actors -> {"idle", "match", "learn", "save", "apply"}]
           /\ holder' \in InAgent \cup {None}
  <1>1. /\ stage \in [Actors -> {"idle", "match", "learn", "save", "apply"}]
        /\ work \in [Actors -> Work] /\ copy \in [Actors -> Library]
        /\ holder \in InAgent \cup {None}
    BY DEF LearningTypeOK
  <1>2. Nothing \in Library /\ NoWork \in Work
    BY DEF Nothing, Library, NoWork, Work, BasisPoints
  <1>3. CASE GoesOn(a)
    BY <1>1, <1>2, <1>3 DEF Finish, GoesOn
  <1>4. CASE ~GoesOn(a)
    BY <1>1, <1>2, <1>4 DEF Finish
  <1> QED BY <1>3, <1>4

\* What was recorded only grows, and what comes of it keeps the invariant.
LEMMA RecordedIInv ==
    ASSUME LearnedInv, NEW a \in Actors, stage[a] = "save", Finish(a),
           happened' \in [Signatures -> Happened], stored' \in Library, forgotten' \subseteq Signatures,
           \A s \in Signatures : /\ happened'[s].seen >= happened[s].seen
                                 /\ happened'[s].good >= happened[s].good
                                 /\ happened'[s].marked >= happened[s].marked
                                 /\ Backed(stored[s], s)'
    PROVE  LearnedInv'
  <1> USE DEF LearnedInv
  <1>1. /\ \A b \in Actors \ {a} : /\ work'[b] = work[b] /\ stage'[b] = stage[b]
                                   /\ copy'[b] = copy[b]
        /\ copy'[a] = Nothing
        /\ \/ stage'[a] = "idle" /\ work'[a] = NoWork
           \/ stage'[a] = "apply" /\ work'[a] = work[a] /\ a \in Loops /\ work[a].conf >= Floor
        /\ work' \in [Actors -> Work] /\ copy' \in [Actors -> Library]
        /\ stage' \in [Actors -> {"idle", "match", "learn", "save", "apply"}]
        /\ holder' \in InAgent \cup {None}
    BY FinishEffect
  <1>2. UNCHANGED <<begun, disturbed, applied>>
    BY DEF Finish
  <1>3. LearningTypeOK'
    <2>1. disturbed' \in BOOLEAN /\ begun' \in Nat /\ applied' \subseteq Applied
      BY <1>2 DEF LearningTypeOK
    <2> QED BY <1>1, <2>1 DEF LearningTypeOK
  <1>4. \A s \in Signatures : happened[s] \in Happened /\ happened'[s] \in Happened
    BY DEF LearningTypeOK
  <1>5. CountsHonest'
    <2>1. ASSUME NEW s \in Signatures, NEW b \in Actors PROVE Backed(copy[b][s], s)'
      <3>1. CASE b = a
        BY <1>1, <3>1 DEF Backed, Nothing
      <3>2. CASE b # a
        <4>1. copy[b][s] \in Pattern \cup {None} /\ Backed(copy[b][s], s)
          BY DEF LearningTypeOK, Library, CountsHonest
        <4>2. copy'[b][s] = copy[b][s]
          BY <1>1, <3>2
        <4> QED BY <1>4, <4>1, <4>2 DEF Backed, Pattern, Happened
      <3> QED BY <3>1, <3>2
    <2> QED BY <2>1 DEF CountsHonest
  <1>6. WorkInv'
    BY <1>1 DEF WorkInv, Busy
  <1>7. LiftInv'
    <2>1. NoWork.conf = 0 /\ NoWork.raw = 0 /\ LiftOf(NoWork.prior) = 0
      BY DEF NoWork, LiftOf
    <2>2. \A b \in Actors \ {a} : work'[b] = work[b] /\ stage'[b] = stage[b]
      BY <1>1
    <2> QED BY <1>1, <2>1, <2>2 DEF LiftInv
  <1>8. LiftIsEarned'
    BY <1>2 DEF LiftIsEarned
  <1> QED BY <1>3, <1>5, <1>6, <1>7, <1>8

LEMMA DropIInv == ASSUME LearnedInv, NEW a \in Actors, Drop(a) PROVE LearnedInv'
  <1>1. stage[a] = "save" /\ Finish(a) /\ UNCHANGED <<stored, happened, forgotten>>
    BY DEF Drop
  <1>2. /\ happened \in [Signatures -> Happened] /\ stored \in Library /\ forgotten \subseteq Signatures
        /\ \A s \in Signatures : Backed(stored[s], s)
    BY DEF LearnedInv, LearningTypeOK, CountsHonest
  <1>3. \A s \in Signatures : /\ happened'[s].seen >= happened[s].seen
                              /\ happened'[s].good >= happened[s].good
                              /\ happened'[s].marked >= happened[s].marked
                              /\ Backed(stored[s], s)'
    BY <1>1, <1>2 DEF Happened, Backed
  <1> QED BY <1>1, <1>2, <1>3, RecordedIInv

LEMMA SaveIInv == ASSUME LearnedInv, NEW a \in Actors, Save(a) PROVE LearnedInv'
  <1> DEFINE w == work[a]
  <1>1. stage[a] = "save" /\ Finish(a)
    BY DEF Save
  <1>2. /\ work \in [Actors -> Work] /\ copy \in [Actors -> Library]
        /\ happened \in [Signatures -> Happened] /\ forgotten \subseteq Signatures
    BY DEF LearnedInv, LearningTypeOK
  <1>3. w.sig \in Signatures /\ w.what \in Outcomes \cup {"fired"} /\ copy[a] \in Library
    BY <1>1, <1>2 DEF LearnedInv, WorkInv, Busy
  <1>4. PICK lib \in Record(copy[a], w.sig, w.what) :
            /\ stored' = lib /\ happened' = Accounted(copy[a], w)
            /\ forgotten' = forgotten \cup ((Present(copy[a]) \cup {w.sig}) \ Present(lib))
    BY DEF Save
  <1> HIDE DEF w
  <1>5. /\ lib \in Library
        /\ \A s \in Signatures :
               lib[s] \in {None, IF s = w.sig THEN Recorded(copy[a][w.sig], w.what) ELSE copy[a][s]}
    BY <1>3, <1>4, RecordEffect
  <1>6. happened' \in [Signatures -> Happened]
    BY <1>2, <1>3, <1>4, AccountedEffect
  <1>7. forgotten' \subseteq Signatures
    BY <1>2, <1>3, <1>4 DEF Present
  <1>8. ASSUME NEW s \in Signatures
        PROVE  /\ happened'[s].seen >= happened[s].seen
               /\ happened'[s].good >= happened[s].good
               /\ happened'[s].marked >= happened[s].marked
               /\ Backed(stored[s], s)'
    <2>1. /\ happened[s].seen \in Nat /\ happened[s].good \in Nat /\ happened[s].marked \in Nat
      BY <1>2 DEF Happened
    <2>2. /\ happened'[s].seen = IF s = w.sig /\ (w.what = "fired" \/ copy[a][s] = None)
                                 THEN happened[s].seen + 1 ELSE happened[s].seen
          /\ happened'[s].good = IF s = w.sig /\ w.what \in Good
                                 THEN happened[s].good + 1 ELSE happened[s].good
          /\ happened'[s].marked = IF s = w.sig /\ w.what = "false_positive"
                                   THEN happened[s].marked + 1 ELSE happened[s].marked
      BY <1>2, <1>3, <1>4, AccountedEffect
    <2>3. /\ copy[a][s] \in Pattern \cup {None}
          /\ Backed(copy[a][s], s)
      BY <1>3 DEF Library, LearnedInv, CountsHonest
    <2>4. /\ Account(copy[a][s]).seen <= happened[s].seen
          /\ Account(copy[a][s]).good <= happened[s].good
          /\ Account(copy[a][s]).marked <= happened[s].marked
          /\ Account(copy[a][s]).seen \in Nat /\ Account(copy[a][s]).good \in Nat
          /\ Account(copy[a][s]).marked \in Nat
      BY <2>1, <2>3 DEF Account, Backed, Pattern
    <2>5. CASE lib[s] = None
      BY <1>4, <2>1, <2>2, <2>5 DEF Backed
    <2>6. CASE s # w.sig /\ lib[s] = copy[a][s]
      BY <1>4, <2>1, <2>2, <2>3, <2>6 DEF Backed
    <2>7. CASE s = w.sig /\ lib[s] = Recorded(copy[a][s], w.what)
      <3>1. /\ lib[s].count = IF w.what = "fired" \/ copy[a][s] = None
                              THEN Account(copy[a][s]).seen + 1 ELSE Account(copy[a][s]).seen
            /\ lib[s].confirmed = IF w.what \in Good
                                  THEN Account(copy[a][s]).good + 1 ELSE Account(copy[a][s]).good
            /\ lib[s].fps = IF w.what = "false_positive"
                            THEN Account(copy[a][s]).marked + 1 ELSE Account(copy[a][s]).marked
        BY <1>3, <2>3, <2>7, ChangedEffect
      <3>2. /\ lib[s].count <= happened'[s].seen
            /\ lib[s].confirmed <= happened'[s].good
            /\ lib[s].fps <= happened'[s].marked
        BY <2>1, <2>2, <2>4, <2>7, <3>1
      <3> QED BY <1>4, <2>1, <2>2, <3>2 DEF Backed
    <2> QED BY <1>5, <2>5, <2>6, <2>7
  <1>9. stored' \in Library
    BY <1>4, <1>5
  <1> QED BY <1>1, <1>6, <1>7, <1>8, <1>9, RecordedIInv

LEMMA StepLearnedInv == LearnedInv /\ [LearningNext]_learningVars => LearnedInv'
  <1> SUFFICES ASSUME LearnedInv, [LearningNext]_learningVars PROVE LearnedInv'
    OBVIOUS
  <1>1. ASSUME NEW a \in Loops, Change(a) \/ Analyze(a) \/ ApplyProposal(a) PROVE LearnedInv'
    BY <1>1, ChangeIInv, AnalyzeIInv, ApplyIInv
  <1>2. ASSUME NEW a \in Actors, NEW s \in Signatures, NEW o \in Outcomes,
               Start(a, [NoWork EXCEPT !.sig = s, !.what = o], "learn"), UNCHANGED <<library, history>>
        PROVE  LearnedInv'
    BY <1>2, OutcomeStarts
  <1>3. CASE MarkFalsePositive(Ask)
    BY <1>2, <1>3 DEF MarkFalsePositive, Outcomes, Actors, InAgent
  <1>4. ASSUME NEW a \in Commands \cup {Ask}, Approve(a) PROVE LearnedInv'
    BY <1>2, <1>4 DEF Approve, Outcomes, Actors, InAgent
  <1>5. ASSUME NEW a \in Actors, Load(a) \/ Save(a) \/ Drop(a) PROVE LearnedInv'
    BY <1>5, LoadIInv, SaveIInv, DropIInv
  <1>6. CASE UNCHANGED learningVars
    <2>1. LearningTypeOK'
      BY <1>6 DEF LearnedInv, LearningTypeOK, learningVars, library, history
    <2>2. CountsHonest' /\ WorkInv' /\ LiftInv' /\ LiftIsEarned'
      BY <1>6 DEF LearnedInv, CountsHonest, Backed, WorkInv, LiftInv, LiftIsEarned, Busy, learningVars, library, history
    <2> QED BY <2>1, <2>2 DEF LearnedInv
  <1> QED BY <1>1, <1>3, <1>4, <1>5, <1>6 DEF LearningNext

LEMMA AlwaysLearnedInv == LearningSpec => []LearnedInv
  BY InitLearnedInv, StepLearnedInv, PTL DEF LearningSpec

(* Whatever fails, overlaps or is cut off, in any number of processes: a     *)
(* pattern claims no more occurrences, successes and marks than were saved   *)
(* about its signature (patterns.go:158), so that a match never lends        *)
(* confidence for a thing recorded twice.                                    *)
THEOREM LibraryIsHonest == LearningSpec => []LibraryHonest
  <1>1. LearnedInv => LibraryHonest
    BY DEF LearnedInv, LibraryHonest
  <1> QED BY <1>1, AlwaysLearnedInv, PTL

(* Whatever the agent carries out on its own, the analysis' own confidence   *)
(* and what the recordings before its match may lend reach the floor of the  *)
(* policy: 0.10 after two of them, 0.15 after five, nothing before           *)
(* (patterns.go:313).  No library, race, cut or fault lends more, and the    *)
(* recording of the change itself does not count.                            *)
THEOREM LiftsAreEarned == LearningSpec => []LiftIsEarned
  <1>1. LearnedInv => LiftIsEarned
    BY DEF LearnedInv
  <1> QED BY <1>1, AlwaysLearnedInv, PTL

-------------------------------------------------------------------------------
(* What was learned stays learned. *)

LEMMA InitKept == LearningInit => Kept
  BY LearningAssumption DEF LearningInit, Kept, HolderInv, FreshCopy, NothingLost, Actors

\* Nothing of Kept is touched by who is not between load and save.
LEMMA AsideKept ==
    ASSUME Kept, UNCHANGED <<library, happened, forgotten, disturbed>>,
           \A a \in Actors : stage'[a] = "save" <=> stage[a] = "save"
    PROVE  Kept'
  BY DEF Kept, HolderInv, FreshCopy, NothingLost, library, Actors

LEMMA LoadKept == ASSUME LearningTypeOK, Kept, NEW a \in Actors, Load(a) PROVE Kept'
  <1>1. /\ stage[a] = "learn" /\ (a \in InAgent => holder = None)
        /\ holder' = (IF a \in InAgent THEN a ELSE holder)
        /\ UNCHANGED <<stored, happened, forgotten>>
    BY DEF Load, Unlocked
  <1>2. \A b \in Actors : stage'[b] = IF b = a THEN "save" ELSE stage[b]
    BY DEF Load, LearningTypeOK
  <1>3. \A b \in InAgent : b \in Actors /\ b # None
    BY LearningAssumption DEF Actors
  <1>4. HolderInv'
    BY <1>1, <1>2, <1>3 DEF Kept, HolderInv
  <1>5. ASSUME ~disturbed'
        PROVE  ~disturbed /\ copy' = [copy EXCEPT ![a] = stored] /\ ~Overlaps(a)
    BY <1>5 DEF Load
  <1>6. FreshCopy'
    <2>1. SUFFICES ASSUME ~disturbed'
                   PROVE  \A b \in Actors : stage'[b] = "save" =>
                              /\ copy'[b] = stored'
                              /\ \A c \in Actors : stage'[c] = "save" => c = b
      BY DEF FreshCopy
    <2>2. \A b \in Actors \ {a} : stage[b] # "save"
      <3>1. ASSUME NEW b \in Actors \ {a}, stage[b] = "save" PROVE FALSE
        <4>1. a \in InAgent /\ b \in InAgent
          BY <1>5, <2>1, <3>1 DEF Overlaps, Actors
        <4> QED BY <1>1, <1>3, <3>1, <4>1 DEF Kept, HolderInv
      <3> QED BY <3>1
    <2>3. copy'[a] = stored
      BY <1>5, <2>1 DEF LearningTypeOK
    <2> QED BY <1>1, <1>2, <2>2, <2>3
  <1>7. NothingLost'
    BY <1>1, <1>5 DEF Kept, NothingLost
  <1> QED BY <1>4, <1>6, <1>7 DEF Kept

\* Once it has finished nobody is between load and save, as long as nothing
\* disturbed it.
LEMMA FinishKept ==
    ASSUME LearningTypeOK, Kept, NEW a \in Actors, stage[a] = "save", Finish(a)
    PROVE  HolderInv' /\ FreshCopy'
  <1>1. /\ \A b \in Actors \ {a} : stage'[b] = stage[b]
        /\ stage'[a] # "save"
    BY FinishEffect
  <1>2. holder' = (IF a \in InAgent THEN None ELSE holder) /\ disturbed' = disturbed
    BY DEF Finish
  <1>3. \A b \in InAgent : b \in Actors /\ b # None
    BY LearningAssumption DEF Actors
  <1>4. HolderInv'
    BY <1>1, <1>2, <1>3 DEF Kept, HolderInv
  <1>5. FreshCopy'
    BY <1>1, <1>2 DEF Kept, FreshCopy
  <1> QED BY <1>4, <1>5

LEMMA DropKept == ASSUME LearningTypeOK, Kept, NEW a \in Actors, Drop(a) PROVE Kept'
  <1>1. HolderInv' /\ FreshCopy'
    BY FinishKept DEF Drop
  <1>2. NothingLost'
    BY DEF Drop, Finish, Kept, NothingLost
  <1> QED BY <1>1, <1>2 DEF Kept

LEMMA SameAccount ==
    ASSUME NEW x \in Happened, NEW y \in Happened,
           x.seen = y.seen, x.good = y.good, x.marked = y.marked
    PROVE  x = y
  BY DEF Happened

LEMMA SaveKept == ASSUME LearnedInv, Kept, NEW a \in Actors, Save(a) PROVE Kept'
  <1> DEFINE w == work[a]
  <1>1. stage[a] = "save" /\ Finish(a) /\ disturbed' = disturbed
    BY DEF Save, Finish
  <1>2. /\ work \in [Actors -> Work] /\ copy \in [Actors -> Library]
        /\ happened \in [Signatures -> Happened]
    BY DEF LearnedInv, LearningTypeOK
  <1>3. w.sig \in Signatures /\ w.what \in Outcomes \cup {"fired"} /\ copy[a] \in Library
    BY <1>1, <1>2 DEF LearnedInv, WorkInv, Busy
  <1>4. PICK lib \in Record(copy[a], w.sig, w.what) :
            /\ stored' = lib /\ happened' = Accounted(copy[a], w)
            /\ forgotten' = forgotten \cup ((Present(copy[a]) \cup {w.sig}) \ Present(lib))
    BY DEF Save
  <1> HIDE DEF w
  <1>5. /\ lib \in Library
        /\ \A s \in Signatures :
               lib[s] \in {None, IF s = w.sig THEN Recorded(copy[a][w.sig], w.what) ELSE copy[a][s]}
    BY <1>3, <1>4, RecordEffect
  <1>6. happened' \in [Signatures -> Happened]
    BY <1>2, <1>3, <1>4, AccountedEffect
  <1>7. ASSUME ~disturbed', NEW s \in Signatures \ forgotten' PROVE Account(stored'[s]) = happened'[s]
    <2>1. copy[a] = stored
      BY <1>1, <1>7 DEF Kept, FreshCopy
    <2>2. Account(copy[a][s]) = happened[s]
      BY <1>1, <1>4, <1>7, <2>1 DEF Kept, NothingLost
    <2>3. /\ happened'[s].seen = IF s = w.sig /\ (w.what = "fired" \/ copy[a][s] = None)
                                 THEN happened[s].seen + 1 ELSE happened[s].seen
          /\ happened'[s].good = IF s = w.sig /\ w.what \in Good
                                 THEN happened[s].good + 1 ELSE happened[s].good
          /\ happened'[s].marked = IF s = w.sig /\ w.what = "false_positive"
                                   THEN happened[s].marked + 1 ELSE happened[s].marked
      BY <1>2, <1>3, <1>4, AccountedEffect
    <2>4. happened[s] \in Happened /\ happened'[s] \in Happened
      BY <1>2, <1>6
    <2>5. CASE s # w.sig
      <3>1. lib[s] = copy[a][s]
        BY <1>4, <1>5, <1>7, <2>5 DEF Present
      <3>2. happened'[s] = happened[s]
        BY <2>3, <2>4, <2>5, SameAccount
      <3> QED BY <1>4, <2>2, <3>1, <3>2
    <2>6. CASE s = w.sig
      <3>1. lib[s] # None
        BY <1>4, <1>7, <2>6 DEF Present
      <3>2. lib[s] = Recorded(copy[a][s], w.what)
        BY <1>5, <2>6, <3>1
      <3>3. copy[a][s] \in Pattern \cup {None}
        BY <1>3 DEF Library
      <3>4. /\ lib[s] \in Pattern
            /\ lib[s].count = IF w.what = "fired" \/ copy[a][s] = None
                              THEN Account(copy[a][s]).seen + 1 ELSE Account(copy[a][s]).seen
            /\ lib[s].confirmed = IF w.what \in Good
                                  THEN Account(copy[a][s]).good + 1 ELSE Account(copy[a][s]).good
            /\ lib[s].fps = IF w.what = "false_positive"
                            THEN Account(copy[a][s]).marked + 1 ELSE Account(copy[a][s]).marked
        BY <1>3, <3>2, <3>3, ChangedEffect
      <3>5. /\ Account(lib[s]) \in Happened
            /\ Account(lib[s]).seen = lib[s].count /\ Account(lib[s]).good = lib[s].confirmed
            /\ Account(lib[s]).marked = lib[s].fps
        BY <3>1, <3>4 DEF Account, Happened, Pattern
      <3>6. /\ Account(lib[s]).seen = happened'[s].seen
            /\ Account(lib[s]).good = happened'[s].good
            /\ Account(lib[s]).marked = happened'[s].marked
        BY <2>2, <2>3, <2>6, <3>4, <3>5
      <3> QED BY <1>4, <2>4, <3>5, <3>6, SameAccount
    <2> QED BY <2>5, <2>6
  <1>8. NothingLost'
    BY <1>7 DEF NothingLost
  <1>9. HolderInv' /\ FreshCopy'
    BY <1>1, FinishKept DEF LearnedInv
  <1> QED BY <1>8, <1>9 DEF Kept

LEMMA StepKept == LearnedInv /\ Kept /\ [LearningNext]_learningVars => Kept'
  <1> SUFFICES ASSUME LearnedInv, Kept, [LearningNext]_learningVars PROVE Kept'
    OBVIOUS
  <1>1. LearningTypeOK /\ stage \in [Actors -> {"idle", "match", "learn", "save", "apply"}]
    BY DEF LearnedInv, LearningTypeOK
  <1>2. ASSUME NEW a \in Actors, NEW w, NEW next \in {"match", "learn"},
               Start(a, w, next), UNCHANGED <<library, history>>
        PROVE  Kept'
    BY <1>1, <1>2, AsideKept DEF Start, history
  <1>3. ASSUME NEW a \in Loops, Change(a) \/ Analyze(a) \/ ApplyProposal(a) PROVE Kept'
    <2>1. a \in Actors
      BY DEF Actors, InAgent
    <2>2. CASE Change(a)
      BY <1>2, <2>1, <2>2 DEF Change
    <2>3. CASE Analyze(a)
      BY <1>1, <2>1, <2>3, AsideKept DEF Analyze, history
    <2>4. CASE ApplyProposal(a)
      BY <1>1, <2>1, <2>4, AsideKept DEF ApplyProposal
    <2> QED BY <1>3, <2>2, <2>3, <2>4
  <1>4. CASE MarkFalsePositive(Ask)
    BY <1>2, <1>4 DEF MarkFalsePositive, Actors, InAgent
  <1>5. ASSUME NEW a \in Commands \cup {Ask}, Approve(a) PROVE Kept'
    BY <1>2, <1>5 DEF Approve, Actors, InAgent
  <1>6. ASSUME NEW a \in Actors, Load(a) \/ Save(a) \/ Drop(a) PROVE Kept'
    BY <1>1, <1>6, LoadKept, SaveKept, DropKept
  <1>7. CASE UNCHANGED learningVars
    BY <1>7, AsideKept DEF learningVars, history
  <1> QED BY <1>3, <1>4, <1>5, <1>6, <1>7 DEF LearningNext

\* What a recording cuts off gave way to as many as the library may have, each
\* seen at least as often.
LEMMA CutEffect ==
    ASSUME NEW lib \in Library, NEW s \in Signatures, NEW what \in Outcomes \cup {"fired"},
           NEW new \in Record(lib, s, what), NEW t \in Signatures, lib[t] # None, new[t] = None
    PROVE  Cardinality({u \in Present(new) : new[u].count >= lib[t].count}) >= MaxPatterns
  <1> DEFINE next == [lib EXCEPT ![s] = Recorded(lib[s], what)]
  <1>1. \A u \in Signatures : lib[u] \in Pattern \cup {None}
    BY DEF Library
  <1>2. /\ Recorded(lib[s], what) \in Pattern /\ Recorded(lib[s], what) # None
        /\ lib[s] # None => Recorded(lib[s], what).count >= lib[s].count
    BY <1>1, ChangedEffect
  <1>3. \A u \in Signatures : next[u] = IF u = s THEN Recorded(lib[s], what) ELSE lib[u]
    BY DEF Library
  <1>4. CASE what # "fired"
    <2>1. new = next
      BY <1>4 DEF Record, Recorded
    <2> QED BY <1>2, <1>3, <2>1
  <1>5. CASE what = "fired"
    <2>1. new \in Cut(next)
      BY <1>5 DEF Record, Recorded
    <2> HIDE DEF next
    <2>2. \A u \in Present(new), v \in Present(next) \ Present(new) : next[u].count >= next[v].count
      BY <2>1 DEF Cut
    <2>3. PICK kept \in SUBSET Present(next) :
              /\ Cardinality(kept) = Lesser(MaxPatterns, Cardinality(Present(next)))
              /\ new = [u \in Signatures |-> IF u \in kept THEN next[u] ELSE None]
      BY <2>1 DEF Cut, Shortened
    <2>4. Present(new) = kept /\ \A u \in kept : new[u] = next[u]
      BY <2>3 DEF Present
    <2>5. t \in Present(next) \ kept
      BY <1>2, <1>3, <2>3, <2>4 DEF Present
    <2>6. IsFiniteSet(Present(next)) /\ IsFiniteSet(kept)
      BY LearningAssumption, FS_Subset DEF Present
    <2>7. Cardinality(kept) = MaxPatterns
      <3>1. Cardinality(Present(next)) \in Nat /\ Cardinality(kept) \in Nat
        BY <2>6, FS_CardinalityType
      <3>2. Cardinality(kept) < Cardinality(Present(next))
        BY <2>3, <2>5, <2>6, <3>1, FS_Subset
      <3> QED BY <2>3, <3>1, <3>2 DEF Lesser
    <2>8. ASSUME NEW u \in kept PROVE new[u].count >= lib[t].count
      <3>1. next[u].count >= next[t].count
        BY <2>2, <2>4, <2>5
      <3>2. next[t].count >= lib[t].count
        <4>1. \A p \in Pattern : p.count >= p.count
          BY DEF Pattern
        <4> QED BY <1>1, <1>2, <1>3, <4>1
      <3>3. next[u] \in Pattern /\ next[t] \in Pattern /\ lib[t] \in Pattern
        BY <1>1, <1>2, <1>3, <2>5 DEF Present
      <3> QED BY <2>4, <3>1, <3>2, <3>3 DEF Pattern
    <2>9. {u \in Present(new) : new[u].count >= lib[t].count} = kept
      BY <2>4, <2>8
    <2>10. Cardinality({u \in Present(new) : new[u].count >= lib[t].count}) = MaxPatterns
      BY <2>7, <2>9, Zenon
    <2>11. MaxPatterns >= MaxPatterns
      BY LearningAssumption
    <2> QED BY <2>10, <2>11, Zenon
  <1> QED BY <1>4, <1>5

LEMMA StepKeepsFrequent == LearnedInv /\ Kept /\ [LearningNext]_learningVars => KeepsFrequent
  <1> SUFFICES ASSUME LearnedInv, Kept, [LearningNext]_learningVars PROVE KeepsFrequent
    OBVIOUS
  <1>1. ASSUME NEW a \in Actors, Save(a) PROVE KeepsFrequent
    <2> SUFFICES ASSUME NEW s \in Signatures, stored[s] # None, stored'[s] = None, ~disturbed
                 PROVE  Cardinality({t \in Present(stored') : stored'[t].count >= stored[s].count})
                            >= MaxPatterns
      BY DEF KeepsFrequent
    <2>1. stage[a] = "save" /\ copy[a] = stored
      BY <1>1 DEF Save, Kept, FreshCopy
    <2>2. work[a].sig \in Signatures /\ work[a].what \in Outcomes \cup {"fired"}
      BY <2>1 DEF LearnedInv, WorkInv, Busy
    <2>3. PICK lib \in Record(stored, work[a].sig, work[a].what) : stored' = lib
      BY <1>1, <2>1 DEF Save
    <2>4. stored \in Library
      BY DEF LearnedInv, LearningTypeOK
    <2>5. Cardinality({t \in Present(lib) : lib[t].count >= stored[s].count}) >= MaxPatterns
      BY <2>2, <2>3, <2>4, CutEffect
    <2> QED BY <2>3, <2>5
  <1>2. CASE UNCHANGED stored
    BY <1>2 DEF KeepsFrequent
  <1>3. ASSUME NEW a \in Loops, Change(a) \/ Analyze(a) \/ ApplyProposal(a) PROVE KeepsFrequent
    <2>1. CASE Change(a)
      BY <1>2, <2>1 DEF Change, library
    <2>2. CASE Analyze(a)
      BY <1>2, <2>2 DEF Analyze, library
    <2>3. CASE ApplyProposal(a)
      BY <1>2, <2>3 DEF ApplyProposal, library
    <2> QED BY <1>3, <2>1, <2>2, <2>3
  <1>4. CASE MarkFalsePositive(Ask) \/ \E a \in Commands \cup {Ask} : Approve(a)
    BY <1>2, <1>4 DEF MarkFalsePositive, Approve, library
  <1>5. ASSUME NEW a \in Actors, Load(a) \/ Drop(a) PROVE KeepsFrequent
    BY <1>2, <1>5 DEF Load, Drop
  <1>6. CASE UNCHANGED learningVars
    BY <1>2, <1>6 DEF learningVars, library
  <1> QED BY <1>1, <1>3, <1>4, <1>5, <1>6 DEF LearningNext

(* Unless a load failed or two processes recorded at once, every occurrence  *)
(* and outcome saved about a signature is still in the library, whatever     *)
(* the loops and the Slack listener do at the same time (the mutex around    *)
(* load and save, patterns.go:162); and a pattern is only ever cut off for   *)
(* MaxPatterns others seen at least as often (patterns.go:205).              *)
THEOREM LibraryIsKept == LearningSpec => LibraryKept
  <1>1. LearnedInv /\ Kept /\ [LearningNext]_learningVars => [NothingLost' /\ KeepsFrequent]_learningVars
    BY StepKept, StepKeepsFrequent DEF Kept
  <1>2. Kept /\ LearnedInv /\ [LearningNext]_learningVars => Kept'
    BY StepKept
  <1>3. LearningSpec => []Kept
    BY <1>2, InitKept, AlwaysLearnedInv, PTL DEF LearningSpec
  <1> QED BY <1>1, <1>3, AlwaysLearnedInv, PTL DEF LearningSpec, LibraryKept
===============================================================================
