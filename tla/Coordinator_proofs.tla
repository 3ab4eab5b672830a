-------------------------- MODULE Coordinator_proofs --------------------------
(***************************************************************************)
(* Proofs about Coordinator, for any requests, tickers, ring sizes and     *)
(* faults, any number of savers of a ring, and either backend: the keys of *)
(* the store are kept apart, rings are in order, ticks make nothing up,    *)
(* and the store can be read and keeps what was saved alone, unless two    *)
(* savers of one file have met.                                            *)
(***************************************************************************)
EXTENDS Coordinator, FiniteSetTheorems, SequenceTheorems, TLAPS

\* The store is a function of its keys.
Kept == stored = [k \in Keys |-> stored[k]]

\* A saver whose Update will not conflict still holds what is stored.
FreshReads ==
    /\ version \in Nat
    /\ stage \in [Actors -> Stages]
    /\ seen = [a \in Actors |-> seen[a]] /\ read = [a \in Actors |-> read[a]]
    /\ Backend = "configmap" => \A a \in Actors :
         stage[a] = "write" =>
            /\ seen[a] \in Nat /\ seen[a] <= version
            /\ seen[a] = version => read[a] = stored

\* The invariant behind KeysKeptApart.
IInv == Kept /\ FreshReads

\* The step of KeysKeptApart.
KeysApart == \A k \in Keys : stored'[k] # stored[k] =>
    \E a \in Actors : Key(a) = k /\ stage[a] \in {"write", "rename"} /\ stage'[a] # stage[a]

\* A step that leaves the store alone, and in which nobody starts to write.
LEMMA IdleStep ==
  ASSUME IInv, stored' = stored, version' = version,
         stage' \in [Actors -> Stages],
         seen' = [a \in Actors |-> seen'[a]], read' = [a \in Actors |-> read'[a]],
         \A a \in Actors : stage'[a] = "write" =>
            stage[a] = "write" /\ seen'[a] = seen[a] /\ read'[a] = read[a]
  PROVE  IInv' /\ KeysApart
  BY DEF IInv, Kept, FreshReads, KeysApart

\* The coordinator starts with empty rings and no ConfigMap (NewService).
LEMMA InitIInv == Init => IInv
  BY DEF Init, IInv, Kept, FreshReads, Stages

\* Requests up to the mutex and the steps of the ticker save nothing.
LEMMA RequestStep ==
  ASSUME IInv,
         \/ \E a \in Senders : Handle(a)
         \/ \E a \in Reporters : Outcome(a)
         \/ \E t \in Tickers : Tick(t)
         \/ \E a \in Actors : Add(a)
         \/ Expire
  PROVE  IInv' /\ KeysApart
  <1>1. /\ UNCHANGED store
        /\ stage' \in [Actors -> Stages]
        /\ \A a \in Actors : stage'[a] = "write" => stage[a] = "write"
    <2>1. CASE \E a \in Senders : Handle(a)
      BY <2>1 DEF Handle, Handoff, IInv, FreshReads, Actors, Stages
    <2>2. CASE \E a \in Reporters : Outcome(a)
      BY <2>2 DEF Outcome, IInv, FreshReads, Actors, Stages
    <2>3. CASE \E t \in Tickers : Tick(t)
      BY <2>3 DEF Tick, TickStart, TickEdge, TickProbed, IInv, FreshReads, Actors, Stages
    <2>4. CASE \E a \in Actors : Add(a)
      BY <2>4 DEF Add, IInv, FreshReads, Stages
    <2>5. CASE Expire
      BY <2>5 DEF Expire, memory, IInv, FreshReads
    <2>6. QED
      BY <2>1, <2>2, <2>3, <2>4, <2>5
  <1>2. stored' = stored /\ version' = version /\ seen' = seen /\ read' = read
    BY <1>1 DEF store
  <1>3. seen' = [a \in Actors |-> seen'[a]] /\ read' = [a \in Actors |-> read'[a]]
    BY <1>2 DEF IInv, FreshReads
  <1>4. QED
    BY <1>1, <1>2, <1>3, IdleStep

\* After an answer the actor is idle and holds nothing (Handle).
LEMMA AnswerEffect ==
  ASSUME IInv, NEW a \in Actors, NEW b \in BOOLEAN, Answer(a, b)
  PROVE  /\ stage' \in [Actors -> Stages]
         /\ stage'[a] = "idle"
         /\ seen' = [c \in Actors |-> seen'[c]] /\ read' = [c \in Actors |-> read'[c]]
         /\ \A c \in Actors : stage'[c] = "write" =>
              c # a /\ stage[c] = "write" /\ seen'[c] = seen[c] /\ read'[c] = read[c]
  BY DEF Answer, IInv, FreshReads, Stages

\* ConfigMapStore: an Update that meets no conflict writes back the other
\* key's data as it is stored (Save, SaveOutcomes).
LEMMA ConfigMapStep ==
  ASSUME IInv, NEW a \in Actors, CmGet(a) \/ CmWrite(a)
  PROVE  IInv' /\ KeysApart
  <1>1. CASE CmGet(a)
    <2>1. /\ seen' = [seen EXCEPT ![a] = version]
          /\ read' = [read EXCEPT ![a] = stored]
          /\ stage' = [stage EXCEPT ![a] = "write"]
          /\ stored' = stored /\ version' = version
      BY <1>1 DEF CmGet
    <2>2. \A c \in Actors :
            /\ seen'[c] = IF c = a THEN version ELSE seen[c]
            /\ read'[c] = IF c = a THEN stored ELSE read[c]
            /\ stage'[c] = IF c = a THEN "write" ELSE stage[c]
      BY <2>1 DEF IInv, FreshReads
    <2>3. /\ stage' \in [Actors -> Stages]
          /\ seen' = [c \in Actors |-> seen'[c]] /\ read' = [c \in Actors |-> read'[c]]
      BY <2>1 DEF IInv, FreshReads, Stages
    <2>4. FreshReads'
      BY <2>1, <2>2, <2>3 DEF IInv, FreshReads
    <2>5. Kept' /\ KeysApart
      BY <2>1 DEF IInv, Kept, KeysApart
    <2>6. QED
      BY <2>4, <2>5 DEF IInv
  <1>2. CASE CmWrite(a) /\ Conflict(a)
    <2>1. Answer(a, FALSE) /\ stored' = stored /\ version' = version
      BY <1>2 DEF CmWrite
    <2>2. QED
      BY <2>1, AnswerEffect, IdleStep
  <1>3. CASE CmWrite(a) /\ ~Conflict(a)
    <2>1. /\ Backend = "configmap" /\ stage[a] = "write"
          /\ stored' = [read[a] EXCEPT ![Key(a)] = snap[a]]
          /\ version' = version + 1
          /\ Answer(a, TRUE)
      BY <1>3 DEF CmWrite
    <2>2. read[a] = stored
      BY <1>3, <2>1 DEF IInv, FreshReads, Conflict
    <2>3. stored' = [stored EXCEPT ![Key(a)] = snap[a]]
      BY <2>1, <2>2
    <2>4. Kept'
      BY <2>3 DEF IInv, Kept
    <2>5. KeysApart
      <3>1. stage'[a] = "idle"
        BY <2>1, AnswerEffect
      <3>2. \A k \in Keys : k # Key(a) => stored'[k] = stored[k]
        BY <2>3 DEF IInv, Kept
      <3>3. QED
        BY <2>1, <3>1, <3>2 DEF KeysApart
    <2>6. FreshReads'
      <3>1. /\ stage' \in [Actors -> Stages]
            /\ seen' = [c \in Actors |-> seen'[c]] /\ read' = [c \in Actors |-> read'[c]]
            /\ \A c \in Actors : stage'[c] = "write" => stage[c] = "write" /\ seen'[c] = seen[c]
        BY <2>1, AnswerEffect
      <3>2. \A c \in Actors : stage[c] = "write" =>
              seen[c] \in Nat /\ seen[c] <= version /\ version \in Nat
        BY <2>1 DEF IInv, FreshReads
      <3>3. version' = version + 1 /\ version' \in Nat
        BY <2>1 DEF IInv, FreshReads
      <3>4. \A c \in Actors : stage'[c] = "write" =>
              seen'[c] \in Nat /\ seen'[c] <= version' /\ seen'[c] # version'
        BY <3>1, <3>2, <3>3
      <3>5. QED
        BY <3>1, <3>3, <3>4 DEF FreshReads
    <2>7. QED
      BY <2>4, <2>5, <2>6 DEF IInv
  <1>4. QED
    BY <1>1, <1>2, <1>3

\* FileStore: a save touches the file of its own key (Save, SaveOutcomes).
LEMMA FileStep ==
  ASSUME IInv, NEW a \in Actors, FileOpen(a) \/ FileWrite(a) \/ FileRename(a)
  PROVE  IInv' /\ KeysApart
  <1>1. Backend # "configmap"
    BY DEF FileOpen, FileWrite, FileRename
  <1>2. CASE FileOpen(a)
    BY SMTT(60), <1>1, <1>2 DEF FileOpen, IInv, Kept, FreshReads, KeysApart, Stages
  <1>3. CASE FileWrite(a)
    <2>1. /\ stage[a] = "write" /\ stage' = [stage EXCEPT ![a] = "rename"]
          /\ seen' = seen /\ read' = read /\ version' = version
          /\ stored' = stored \/ \E c : stored' = [stored EXCEPT ![Key(a)] = c]
      BY <1>3 DEF FileWrite
    <2>2. \A k \in Keys : k # Key(a) => stored'[k] = stored[k]
      BY <2>1 DEF IInv, Kept
    <2>3. Kept'
      BY <2>1 DEF IInv, Kept
    <2>4. FreshReads'
      BY <1>1, <2>1 DEF IInv, FreshReads, Stages
    <2>5. stage'[a] = "rename"
      BY <2>1 DEF IInv, FreshReads
    <2>6. QED
      BY <2>1, <2>2, <2>3, <2>4, <2>5 DEF IInv, KeysApart
  <1>4. CASE FileRename(a)
    <2>1. /\ stage[a] = "rename" /\ version' = version
          /\ \E b \in BOOLEAN : Answer(a, b)
          /\ stored' = stored \/ stored' = [stored EXCEPT ![Key(a)] = tmp[Key(a)]]
      BY <1>4 DEF FileRename
    <2>2. stage'[a] = "idle"
      BY <2>1, AnswerEffect
    <2>3. \A k \in Keys : k # Key(a) => stored'[k] = stored[k]
      BY <2>1 DEF IInv, Kept
    <2>4. Kept'
      BY <2>1 DEF IInv, Kept
    <2>5. FreshReads'
      BY <1>1, <2>1, AnswerEffect DEF IInv, FreshReads
    <2>6. QED
      BY <2>1, <2>2, <2>3, <2>4, <2>5 DEF IInv, KeysApart
  <1>5. QED
    BY <1>2, <1>3, <1>4

\* A failed save is answered like any other; a restart begins with what is
\* stored.
LEMMA FailStep ==
  ASSUME IInv, (\E a \in Actors : SaveFails(a)) \/ Restart
  PROVE  IInv' /\ KeysApart
  <1>1. ASSUME NEW a \in Actors, SaveFails(a) PROVE IInv' /\ KeysApart
    BY <1>1, AnswerEffect, IdleStep DEF SaveFails
  <1>2. CASE Restart
    <2>1. /\ stage' = [a \in Actors |-> "idle"]
          /\ seen' = [a \in Actors |-> 0]
          /\ read' = [a \in Actors |-> None]
          /\ stored' = stored /\ version' = version
      BY <1>2 DEF Restart
    <2>2. QED
      BY <2>1, IdleStep DEF Stages
  <1>3. QED
    BY <1>1, <1>2

(***************************************************************************)
(* The theorem.                                                            *)
(***************************************************************************)
\* Every step keeps the invariant, and the keys apart.
LEMMA StepIInv == ASSUME IInv, [Next]_vars PROVE IInv' /\ KeysApart
  <1>1. CASE \E a \in Actors : Save(a)
    BY <1>1, ConfigMapStep, FileStep, FailStep DEF Save
  <1>2. CASE UNCHANGED vars
    BY <1>2, IdleStep DEF vars, memory, store, IInv, FreshReads
  <1>3. QED
    BY <1>1, <1>2, RequestStep, FailStep DEF Next

\* No save of one ring changes what is stored of the other, although savers
\* read both and write both back.
THEOREM KeysSeparate == Spec => KeysKeptApart
  <1>1. IInv /\ [Next]_vars => IInv'
    BY StepIInv
  <1>2. IInv /\ [Next]_vars => [KeysApart]_vars
    BY StepIInv
  <1>3. QED
    BY InitIInv, <1>1, <1>2, PTL DEF Spec, KeysKeptApart, KeysApart

(***************************************************************************)
(* Positions, and what Pruned leaves of a ring.                            *)
(***************************************************************************)
\* The rings that could be made of a set of items.
Rings(L) == {s \in Seq(L) : \A i, j \in DOMAIN s : i < j => s[i].n < s[j].n}

\* The items that entered after x.
Newer(L, x) == {y \in L : y.n > x.n}

\* A set of numbers has a least.
LEMMA LeastIs ==
  ASSUME NEW T \in SUBSET Nat, T # {}
  PROVE  \E x \in T : \A y \in T : x <= y
  <1> DEFINE R == OpToRel(<, Nat)
  <1>1. PICK x \in T : \A y \in T : ~(<<y, x>> \in R)
    <2>1. IsWellFoundedOn(R, Nat)
      BY NatLessThanWellFounded
    <2> HIDE DEF R
    <2> QED BY <2>1, WFMin
  <1>2. \A y \in T : ~(y < x)
    BY <1>1 DEF OpToRel
  <1> QED BY <1>2

\* A set of positions has a last.
LEMMA GreatestIs ==
  ASSUME NEW n \in Nat, NEW T \in SUBSET (1..n), T # {}
  PROVE  \E x \in T : \A y \in T : y <= x
  <1> DEFINE D == {n - x : x \in T}
  <1>1. D \in SUBSET Nat /\ D # {}
    <2>1. \A x \in T : n - x \in Nat
      OBVIOUS
    <2> QED BY <2>1
  <1>2. PICK d \in D : \A y \in D : d <= y
    <2> HIDE DEF D
    <2> QED BY <1>1, LeastIs
  <1>3. PICK x \in T : d = n - x
    BY <1>2
  <1>4. \A y \in T : n - x <= n - y
    BY <1>2, <1>3
  <1> QED BY <1>4

\* The positions of I up to i.
UpTo(I, i) == {h \in I : h <= i}

\* How many positions come up to one tells them apart.
LEMMA UpToSize ==
  ASSUME NEW n \in Nat, NEW I \in SUBSET (1..n)
  PROVE  /\ IsFiniteSet(I) /\ Cardinality(I) \in Nat
         /\ \A i \in Nat : IsFiniteSet(UpTo(I, i)) /\ Cardinality(UpTo(I, i)) \in 0..Cardinality(I)
         /\ \A i, h \in I : i < h => Cardinality(UpTo(I, i)) < Cardinality(UpTo(I, h))
         /\ \A i \in I : Cardinality(UpTo(I, i)) \in 1..Cardinality(I)
  <1>1. IsFiniteSet(I)
    <2>1. IsFiniteSet(1..n)
      BY FS_Interval
    <2> QED BY <2>1, FS_Subset
  <1>2. Cardinality(I) \in Nat
    BY <1>1, FS_CardinalityType
  <1>3. ASSUME NEW i \in Nat
        PROVE  IsFiniteSet(UpTo(I, i)) /\ Cardinality(UpTo(I, i)) \in 0..Cardinality(I)
    <2>1. UpTo(I, i) \in SUBSET I
      BY DEF UpTo
    <2>2. IsFiniteSet(UpTo(I, i)) /\ Cardinality(UpTo(I, i)) <= Cardinality(I)
      BY <1>1, <2>1, FS_Subset
    <2>3. Cardinality(UpTo(I, i)) \in Nat
      BY <2>2, FS_CardinalityType
    <2> QED BY <1>2, <2>2, <2>3
  <1>4. ASSUME NEW i \in I, NEW h \in I, i < h
        PROVE  Cardinality(UpTo(I, i)) < Cardinality(UpTo(I, h))
    <2>0. i \in Nat /\ h \in Nat /\ \A g \in I : g \in Nat
      OBVIOUS
    <2>1. UpTo(I, i) \in SUBSET UpTo(I, h) /\ h \in UpTo(I, h) /\ h \notin UpTo(I, i)
      <3>1. h <= h /\ ~(h <= i)
        BY <1>4, <2>0
      <3>2. \A g \in I : g <= i => g <= h
        BY <1>4, <2>0
      <3> QED BY <3>1, <3>2 DEF UpTo
    <2>2. IsFiniteSet(UpTo(I, h)) /\ Cardinality(UpTo(I, h)) \in Nat /\ Cardinality(UpTo(I, i)) \in Nat
      BY <1>2, <1>3, <2>0
    <2>3. Cardinality(UpTo(I, i)) <= Cardinality(UpTo(I, h)) /\ Cardinality(UpTo(I, i)) # Cardinality(UpTo(I, h))
      BY <2>1, <2>2, FS_Subset
    <2> QED BY <2>2, <2>3
  <1>5. ASSUME NEW i \in I PROVE Cardinality(UpTo(I, i)) \in 1..Cardinality(I)
    <2>1. i \in UpTo(I, i) /\ i \in Nat
      BY DEF UpTo
    <2>2. Cardinality(UpTo(I, i)) # 0
      BY <1>3, <2>1, FS_EmptySet
    <2> QED BY <1>2, <1>3, <2>1, <2>2
  <1> QED BY <1>1, <1>2, <1>3, <1>4, <1>5

\* As many positions as there are, each has one of its own.
LEMMA PlaceExists ==
  ASSUME NEW n \in Nat, NEW I \in SUBSET (1..n), NEW j \in 1..Cardinality(I)
  PROVE  \E i \in I : Cardinality(UpTo(I, i)) = j
  <1>1. /\ IsFiniteSet(I) /\ Cardinality(I) \in Nat
        /\ \A i \in I : i \in Nat
        /\ \A i \in Nat : IsFiniteSet(UpTo(I, i)) /\ Cardinality(UpTo(I, i)) \in 0..Cardinality(I)
    BY UpToSize
  <1> DEFINE T == {i \in I : Cardinality(UpTo(I, i)) >= j}
  <1>2. T \in SUBSET Nat /\ T # {}
    <2>1. I # {}
      BY <1>1, FS_EmptySet
    <2>2. PICK m \in I : \A y \in I : y <= m
      BY <2>1, GreatestIs
    <2>3. UpTo(I, m) = I
      BY <2>2 DEF UpTo
    <2>4. Cardinality(I) >= j
      BY <1>1
    <2> QED BY <1>1, <2>3, <2>4
  <1>3. PICK i \in T : \A y \in T : i <= y
    <2> HIDE DEF T
    <2> QED BY <1>2, LeastIs
  <1>4. i \in I /\ i \in Nat /\ Cardinality(UpTo(I, i)) >= j
    BY <1>2, <1>3
  <1> DEFINE S == UpTo(I, i) \ {i}
  <1>5. IsFiniteSet(S) /\ Cardinality(S) = Cardinality(UpTo(I, i)) - 1
    <2>1. i \in UpTo(I, i)
      BY <1>4 DEF UpTo
    <2> QED BY <1>1, <1>4, <2>1, FS_RemoveElement
  <1>6. CASE Cardinality(UpTo(I, i)) > j
    <2>1. Cardinality(S) >= j /\ S # {}
      <3>1. Cardinality(S) >= j
        BY <1>1, <1>4, <1>5, <1>6
      <3>2. j # 0
        BY <1>1
      <3> QED BY <1>5, <3>1, <3>2, FS_EmptySet
    <2>2. S \in SUBSET (1..n)
      BY DEF UpTo
    <2>3. PICK m \in S : \A y \in S : y <= m
      <3> HIDE DEF S
      <3> QED BY <2>1, <2>2, GreatestIs
    <2>4. UpTo(I, m) = S /\ m \in I /\ m < i
      <3>1. m \in I /\ m <= i /\ m # i /\ m \in Nat
        BY <1>1, <2>3 DEF UpTo
      <3>2. m < i
        BY <1>4, <3>1
      <3>3. \A y \in I : y <= m <=> (y <= i /\ y # i)
        BY <1>1, <1>4, <2>3, <3>1, <3>2 DEF UpTo
      <3> QED BY <3>1, <3>2, <3>3 DEF UpTo
    <2>5. m \in T
      BY <2>1, <2>4
    <2> QED BY <1>3, <1>4, <2>4, <2>5
  <1> QED BY <1>1, <1>4, <1>6

\* Selected keeps the elements at I, in their order (pruneOutcomesLocked).
LEMMA SelectedIs ==
  ASSUME NEW S, NEW s \in Seq(S), NEW I \in SUBSET DOMAIN s
  PROVE  /\ Selected(s, I) \in Seq(S)
         /\ Cardinality(I) \in Nat /\ Len(Selected(s, I)) = Cardinality(I)
         /\ \A j, l \in 1..Cardinality(I) : j < l =>
              \E i, h \in I : i < h /\ Selected(s, I)[j] = s[i] /\ Selected(s, I)[l] = s[h]
         /\ \A i \in I : \E j \in 1..Cardinality(I) : Selected(s, I)[j] = s[i]
  <1> DEFINE q == Selected(s, I)
             At(j) == CHOOSE i \in I : Cardinality({h \in I : h <= i}) = j
  <1>1. I \in SUBSET (1..Len(s)) /\ Len(s) \in Nat
    OBVIOUS
  <1>2. /\ IsFiniteSet(I) /\ Cardinality(I) \in Nat
        /\ \A i, h \in I : i < h => Cardinality(UpTo(I, i)) < Cardinality(UpTo(I, h))
        /\ \A i \in I : Cardinality(UpTo(I, i)) \in 1..Cardinality(I)
    BY <1>1, UpToSize
  <1>3. ASSUME NEW j \in 1..Cardinality(I)
        PROVE  At(j) \in I /\ Cardinality(UpTo(I, At(j))) = j
    <2>1. \E i \in I : Cardinality({h \in I : h <= i}) = j
      BY <1>1, PlaceExists DEF UpTo
    <2>2. At(j) \in I /\ Cardinality({h \in I : h <= At(j)}) = j
      BY <2>1
    <2> HIDE DEF At
    <2> QED BY <2>2 DEF UpTo
  <1>4. q = [j \in 1..Cardinality(I) |-> s[At(j)]]
    BY DEF Selected
  <1> HIDE DEF At
  <1>5. \A j \in 1..Cardinality(I) : q[j] = s[At(j)] /\ s[At(j)] \in S
    <2>1. \A i \in I : s[i] \in S
      BY <1>1
    <2> QED BY <1>3, <1>4, <2>1
  <1>6. q \in Seq(S) /\ Len(q) = Cardinality(I)
    BY <1>2, <1>4, <1>5
  <1>7. ASSUME NEW j \in 1..Cardinality(I), NEW l \in 1..Cardinality(I), j < l
        PROVE  \E i, h \in I : i < h /\ q[j] = s[i] /\ q[l] = s[h]
    <2>1. At(j) \in I /\ At(l) \in I /\ At(j) \in Nat /\ At(l) \in Nat
      BY <1>1, <1>3
    <2>2. Cardinality(UpTo(I, At(j))) = j /\ Cardinality(UpTo(I, At(l))) = l
      BY <1>3
    <2>3. ~(At(l) < At(j)) /\ At(l) # At(j)
      BY <1>2, <1>7, <2>1, <2>2
    <2> QED BY <1>5, <2>1, <2>3
  <1>8. ASSUME NEW i \in I PROVE \E j \in 1..Cardinality(I) : q[j] = s[i]
    <2>1. PICK j \in 1..Cardinality(I) : j = Cardinality(UpTo(I, i))
      BY <1>2
    <2>2. At(j) \in I /\ Cardinality(UpTo(I, At(j))) = j
      BY <1>3
    <2>3. At(j) = i
      <3>1. At(j) \in Nat /\ i \in Nat
        BY <1>1, <2>2
      <3> QED BY <1>2, <2>1, <2>2, <3>1
    <2> QED BY <1>5, <2>3
  <1> QED BY <1>2, <1>6, <1>7, <1>8

\* A ring of some items is a ring of more.
LEMMA RingsGrow ==
  ASSUME NEW L, NEW M, L \subseteq M
  PROVE  Rings(L) \subseteq Rings(M) /\ <<>> \in Rings(L)
  <1>1. Seq(L) \subseteq Seq(M)
    OBVIOUS
  <1> QED BY <1>1 DEF Rings

\* What a ring is made of.
LEMMA RingIs ==
  ASSUME NEW L, NEW s \in Rings(L)
  PROVE  /\ s \in Seq(L) /\ Len(s) \in Nat /\ DOMAIN s = 1..Len(s)
         /\ \A i \in DOMAIN s : s[i] \in L
         /\ \A i, j \in DOMAIN s : i < j => s[i].n < s[j].n
  BY DEF Rings

\* An item of a ring has been followed by those after it.
LEMMA NewerCount ==
  ASSUME NEW L \in SUBSET Item, IsFiniteSet(L), NEW s \in Rings(L), NEW i \in DOMAIN s
  PROVE  Cardinality(Newer(L, s[i])) \in Nat /\ Cardinality(Newer(L, s[i])) >= Len(s) - i
  <1> DEFINE S == (i + 1)..Len(s)
             T == Newer(L, s[i])
             f == [j \in S |-> s[j]]
  <1>1. /\ i \in Nat /\ Len(s) \in Nat /\ i <= Len(s) /\ \A j \in S : j \in DOMAIN s /\ i < j
        /\ \A j \in DOMAIN s : s[j] \in L /\ s[j].n \in Nat
    <2>1. \A x \in L : x.n \in Nat
      BY DEF Item
    <2> QED BY <2>1, RingIs
  <1>2. \A j \in S : s[j] \in T
    <2>1. ASSUME NEW j \in S PROVE s[j] \in L /\ s[j].n > s[i].n
      <3>1. s[i].n < s[j].n /\ s[i].n \in Nat /\ s[j].n \in Nat /\ s[j] \in L
        BY <1>1, RingIs
      <3> QED BY <3>1
    <2> QED BY <2>1 DEF Newer
  <1>3. IsFiniteSet(T)
    <2>1. T \in SUBSET L
      BY DEF Newer
    <2> HIDE DEF T
    <2> QED BY <2>1, FS_Subset
  <1>4. f \in Injection(S, T)
    <2>1. f \in [S -> T]
      BY <1>2
    <2>2. ASSUME NEW a \in S, NEW b \in S, f[a] = f[b] PROVE a = b
      <3>1. s[a] = s[b] /\ a \in DOMAIN s /\ b \in DOMAIN s /\ a \in Nat /\ b \in Nat
            /\ s[a].n \in Nat
        BY <1>1, <2>2
      <3>2. ~(a < b) /\ ~(b < a)
        <4>1. ~(s[a].n < s[b].n) /\ ~(s[b].n < s[a].n)
          BY <3>1
        <4> QED BY <3>1, <4>1, RingIs
      <3> QED BY <3>1, <3>2
    <2> HIDE DEF f, S, T
    <2> QED BY <2>1, <2>2 DEF Injection, IsInjective
  <1>5. Cardinality(S) <= Cardinality(T)
    <2> HIDE DEF f, S, T
    <2> QED BY <1>3, <1>4, FS_Injection
  <1>6. Cardinality(S) = Len(s) - i
    BY <1>1, FS_Interval
  <1>7. Cardinality(T) \in Nat
    <2> HIDE DEF T
    <2> QED BY <1>3, FS_CardinalityType
  <1> HIDE DEF S, T
  <1> QED BY <1>1, <1>5, <1>6, <1>7 DEF T

\* What is cut off has expired, or as many newer items follow as there is room for.
LEMMA PrunedIs ==
  ASSUME NEW k \in Keys, NEW L \in SUBSET Item, IsFiniteSet(L), NEW s \in Rings(L)
  PROVE  /\ Pruned(k, s) \in Rings(L)
         /\ \A i \in DOMAIN s :
              \/ s[i] \in Elements(Pruned(k, s))
              \/ k = "outcomes" /\ s[i].stamp \in expired
              \/ Cardinality(Newer(L, s[i])) >= Keep[k]
  <1> DEFINE fresh == {i \in DOMAIN s : k = "outcomes" => s[i].stamp \notin expired}
             z == Selected(s, fresh)
             q == Pruned(k, s)
             lo == IF Len(z) > Keep[k] THEN Len(z) - Keep[k] + 1 ELSE 1
  <1>1. s \in Seq(L) /\ fresh \in SUBSET DOMAIN s /\ Keep[k] \in Nat \ {0}
    BY RingIs, CoordinatorAssumption
  <1>2. /\ z \in Seq(L) /\ Len(z) = Cardinality(fresh) /\ Cardinality(fresh) \in Nat
        /\ \A j, l \in 1..Cardinality(fresh) : j < l =>
              \E i, h \in fresh : i < h /\ z[j] = s[i] /\ z[l] = s[h]
        /\ \A i \in fresh : \E j \in 1..Cardinality(fresh) : z[j] = s[i]
    <2> HIDE DEF fresh
    <2> QED BY <1>1, SelectedIs
  <1>3. z \in Rings(L)
    <2>1. ASSUME NEW j \in DOMAIN z, NEW l \in DOMAIN z, j < l PROVE z[j].n < z[l].n
      <3>1. PICK i \in fresh, h \in fresh : i < h /\ z[j] = s[i] /\ z[l] = s[h]
        <4> HIDE DEF fresh, z
        <4> QED BY SMTT(60), <1>2, <2>1
      <3> HIDE DEF z
      <3> QED BY <3>1, RingIs
    <2> HIDE DEF z
    <2> QED BY <1>2, <2>1 DEF Rings
  <1>4. q = SubSeq(z, lo, Len(z))
    BY DEF Pruned, LastN
  <1> HIDE DEF z, q
  <1>5. Len(z) \in Nat /\ lo \in Nat \ {0} /\ (Len(z) > Keep[k] => lo <= Len(z)) /\ lo <= Len(z) + 1
    BY <1>1, <1>2
  <1>6. /\ q \in Seq(L) /\ Len(q) = Len(z) - lo + 1
        /\ \A j \in 1..Len(q) : q[j] = z[j + lo - 1]
    <2> HIDE DEF lo
    <2>1. lo \in Int /\ Len(z) \in Int /\ \A i \in lo..Len(z) : z[i] \in L
      <3>1. ASSUME NEW i \in lo..Len(z) PROVE z[i] \in L
        <4>1. i \in 1..Len(z)
          BY <1>5
        <4> QED BY <1>2, <4>1
      <3> QED BY <1>5, <3>1
    <2>2. /\ q \in Seq(L) /\ Len(q) = IF lo <= Len(z) THEN Len(z) - lo + 1 ELSE 0
          /\ \A j \in 1..(Len(z) - lo + 1) : q[j] = z[lo + j - 1]
      BY <1>4, <2>1, SubSeqProperties
    <2>3. Len(q) = Len(z) - lo + 1
      BY <1>5, <2>2
    <2>4. \A j \in 1..(Len(z) - lo + 1) : lo + j - 1 = j + lo - 1
      BY <1>5
    <2> QED BY <2>2, <2>3, <2>4
  <1>7. q \in Rings(L)
    <2>1. ASSUME NEW j \in DOMAIN q, NEW l \in DOMAIN q, j < l PROVE q[j].n < q[l].n
      <3> HIDE DEF lo
      <3>1. j + lo - 1 \in DOMAIN z /\ l + lo - 1 \in DOMAIN z /\ j + lo - 1 < l + lo - 1
        BY <1>2, <1>5, <1>6, <2>1
      <3>2. q[j] = z[j + lo - 1] /\ q[l] = z[l + lo - 1]
        BY <1>6
      <3> QED BY <1>3, <3>1, <3>2, RingIs
    <2> QED BY <1>6, <2>1 DEF Rings
  <1>8. ASSUME NEW i \in DOMAIN s, ~(k = "outcomes" /\ s[i].stamp \in expired)
        PROVE  s[i] \in Elements(q) \/ Cardinality(Newer(L, s[i])) >= Keep[k]
    <2>1. PICK j \in 1..Len(z) : z[j] = s[i]
      <3>1. i \in fresh
        BY <1>8
      <3> HIDE DEF fresh
      <3> QED BY <1>2, <3>1
    <2>2. CASE j >= lo
      <3> HIDE DEF lo
      <3>1. j - lo + 1 \in 1..Len(q) /\ (j - lo + 1) + lo - 1 = j
        BY <1>5, <1>6, <2>2
      <3>2. q[j - lo + 1] = z[j]
        BY <1>6, <3>1
      <3>3. j - lo + 1 \in DOMAIN q
        BY <1>6, <3>1
      <3> QED BY <2>1, <3>2, <3>3 DEF Elements
    <2>3. CASE j < lo
      <3>1. Len(z) - j >= Keep[k]
        BY <1>1, <1>5, <2>3
      <3>2. j \in DOMAIN z
        BY <1>2
      <3>3. Cardinality(Newer(L, s[i])) \in Nat /\ Cardinality(Newer(L, s[i])) >= Len(z) - j
        BY <1>3, <2>1, <3>2, NewerCount
      <3> QED BY <1>1, <1>5, <3>1, <3>3
    <2> QED BY <1>5, <2>2, <2>3
  <1> QED BY <1>7, <1>8 DEF q

(***************************************************************************)
(* What memory and store hold are rings, whoever wrote them.               *)
(***************************************************************************)
\* Items are numbered up to how many there are.
Numbered ==
    /\ \A k \in Keys : log[k] \subseteq Item /\ IsFiniteSet(log[k])
    /\ \A x \in AllItems : x.n <= Cardinality(AllItems)

\* Whatever is stored, on its way or in memory is a ring of its own key.
Contents ==
    /\ \A k \in Keys : ring[k] \in Rings(log[k])
    /\ \A a \in Actors : snap[a] \in Rings(log[Key(a)])
    /\ \A k \in Keys : stored[k] \in Rings(log[k]) \cup {Torn}
    /\ \A k \in Keys : tmp[k] \in Rings(log[k]) \cup {Torn}

\* A report like that of x was handed off, or the ring has overflown.
Origin(L, x) ==
    \/ \E y \in L : ~y.tick /\ y.edge = x.edge /\ y.report = x.report
    \/ x.report = 0 /\ Cardinality(L) >= Keep["handoffs"]

HasOrigin(x) == Origin(log["handoffs"], x)

\* Who works has an item in hand, and who saves one that has entered the ring.
Working ==
    \A a \in Actors :
        /\ stage[a] # "idle" => item[a] \in Item /\ (item[a].tick <=> a \in Tickers)
        /\ stage[a] \in {"save", "write", "rename"} => item[a] \in log[Key(a)]
        /\ a \in Tickers /\ stage[a] \in {"probe", "add"} => HasOrigin(item[a])

\* The edges a tick has settled on are in the ring, unless it has overflown.
Todo == \A s \in todo : OnEdge(s.edge) # {} \/ Cardinality(log["handoffs"]) >= Keep["handoffs"]

\* The invariant about the rings.
RingInv == TypeOK /\ Numbered /\ Contents /\ Working /\ Todo /\ TicksHaveOrigin

\* Handoffs and ticks go to one ring, outcomes to the other.
LEMMA KeyOf == ASSUME NEW a \in Actors PROVE Key(a) \in Keys /\ (a \in Tickers => Key(a) = "handoffs")
  BY CoordinatorAssumption DEF Key, Keys

\* There are finitely many items.
LEMMA AllItemsAre ==
  ASSUME Numbered
  PROVE  /\ IsFiniteSet(AllItems) /\ Cardinality(AllItems) \in Nat /\ AllItems \subseteq Item
         /\ \A k \in Keys : log[k] \subseteq AllItems /\ Cardinality(log[k]) \in Nat
  <1>1. AllItems = log["handoffs"] \cup log["outcomes"] /\ "handoffs" \in Keys /\ "outcomes" \in Keys
    BY DEF AllItems, Keys
  <1>2. IsFiniteSet(log["handoffs"]) /\ IsFiniteSet(log["outcomes"])
    BY <1>1 DEF Numbered
  <1>3. IsFiniteSet(AllItems)
    BY <1>1, <1>2, FS_Union
  <1>4. \A k \in Keys : log[k] \subseteq AllItems /\ Cardinality(log[k]) \in Nat
    BY <1>1, <1>2, FS_CardinalityType DEF Keys
  <1> QED BY <1>1, <1>3, <1>4, FS_CardinalityType DEF Numbered

\* A step that changes no ring, snapshot or store.
LEMMA RequestKeeps ==
  ASSUME RingInv, UNCHANGED <<ring, snap, store, history>>,
         stage' \in [Actors -> Stages], item' \in [Actors -> Item \cup {None}],
         todo' \in SUBSET [edge : Edges, count : Nat, last : Nat], clock' \in Nat, expired' \in SUBSET Nat,
         Working', Todo'
  PROVE  RingInv'
  <1>1. UNCHANGED <<ring, snap, stored, version, seen, read, inode, tmp, log, overlap, kept, crowded>>
    BY DEF store, history
  <1>2. TypeOK'
    BY <1>1 DEF RingInv, TypeOK
  <1>3. Numbered' /\ Contents' /\ TicksHaveOrigin'
    BY <1>1 DEF RingInv, Numbered, Contents, TicksHaveOrigin, AllItems
  <1> QED BY <1>2, <1>3 DEF RingInv

\* One actor takes an item in hand.
LEMMA TakesItem ==
  ASSUME RingInv, NEW a \in Actors, NEW x \in Item, NEW s \in {"probe", "add"},
         UNCHANGED <<ring, snap, store, history>>,
         stage' = [stage EXCEPT ![a] = s], item' = [item EXCEPT ![a] = x],
         (x.tick <=> a \in Tickers), a \in Tickers => HasOrigin(x),
         clock' \in Nat, expired' \in SUBSET Nat, todo' \subseteq todo
  PROVE  RingInv'
  <1>1. /\ stage \in [Actors -> Stages] /\ item \in [Actors -> Item \cup {None}]
        /\ todo \in SUBSET [edge : Edges, count : Nat, last : Nat]
    BY DEF RingInv, TypeOK
  <1>2. stage' \in [Actors -> Stages] /\ item' \in [Actors -> Item \cup {None}]
    BY <1>1 DEF Stages
  <1>3. UNCHANGED <<ring, log>>
    BY DEF store, history
  <1>4. Working'
    <2>1. ASSUME NEW b \in Actors, b # a PROVE stage'[b] = stage[b] /\ item'[b] = item[b]
      BY <1>1, <2>1
    <2>2. stage'[a] = s /\ item'[a] = x
      BY <1>1
    <2>3. HasOrigin(x)' <=> HasOrigin(x)
      BY <1>3 DEF HasOrigin, Origin
    <2> QED BY <1>3, <2>1, <2>2, <2>3 DEF RingInv, Working, HasOrigin, Origin
  <1>5. Todo'
    BY <1>3 DEF RingInv, Todo, OnEdge
  <1> QED BY <1>1, <1>2, <1>4, <1>5, RequestKeeps

\* A request up to the mutex has an item of its own in hand (Handle, RecordOutcome).
LEMMA HandleKeeps ==
  ASSUME RingInv, (\E a \in Senders : Handle(a)) \/ (\E a \in Reporters : Outcome(a))
  PROVE  RingInv'
  <1>1. clock \in Nat /\ clock + 1 \in Nat /\ expired \in SUBSET Nat
    BY DEF RingInv, TypeOK
  <1>2. ASSUME NEW a \in Senders, NEW e \in Edges \cup {None}, Handoff(a, e) PROVE RingInv'
    <2> DEFINE x == [n |-> 0, stamp |-> clock + 1, edge |-> e, tick |-> FALSE, report |-> clock + 1]
    <2>1. x \in Item /\ x.tick = FALSE
      BY <1>1 DEF Item
    <2>2. a \in Actors /\ a \notin Tickers
      BY CoordinatorAssumption DEF Actors
    <2>3. /\ UNCHANGED <<ring, snap, todo, store, expired, history>> /\ clock' = clock + 1
          /\ stage' = [stage EXCEPT ![a] = "add"] /\ item' = [item EXCEPT ![a] = x]
      BY <1>2 DEF Handoff
    <2> HIDE DEF x
    <2> QED BY <1>1, <2>1, <2>2, <2>3, TakesItem
  <1>3. ASSUME NEW a \in Reporters, Outcome(a) PROVE RingInv'
    <2> DEFINE x == [n |-> 0, stamp |-> clock + 1, edge |-> None, tick |-> FALSE, report |-> 0]
    <2>1. x \in Item /\ x.tick = FALSE
      BY <1>1 DEF Item
    <2>2. a \in Actors /\ a \notin Tickers
      BY CoordinatorAssumption DEF Actors
    <2>3. /\ UNCHANGED <<ring, snap, todo, store, history>> /\ clock' = clock + 1
          /\ expired' = expired \/ expired' = expired \cup {clock + 1}
          /\ stage' = [stage EXCEPT ![a] = "add"] /\ item' = [item EXCEPT ![a] = x]
      BY <1>3 DEF Outcome
    <2>4. expired' \in SUBSET Nat
      BY <1>1, <2>3
    <2> HIDE DEF x
    <2> QED BY <1>1, <2>1, <2>2, <2>3, <2>4, TakesItem
  <1> QED BY <1>2, <1>3 DEF Handle

\* That outcomes age changes no ring.
LEMMA ExpireKeeps == ASSUME RingInv, Expire PROVE RingInv'
  <1>1. /\ UNCHANGED <<ring, stage, item, snap, todo, store, clock, history>>
        /\ \E e \in Elements(ring["outcomes"]) : expired' = expired \cup {e.stamp}
    BY DEF Expire, memory
  <1>2. PICK e \in Elements(ring["outcomes"]) : expired' = expired \cup {e.stamp}
    BY <1>1
  <1>3. e.stamp \in Nat
    <2>1. "outcomes" \in Keys /\ log["outcomes"] \subseteq Item
      BY DEF RingInv, Numbered, Keys
    <2>2. PICK i \in DOMAIN ring["outcomes"] : e = ring["outcomes"][i]
      BY <1>2 DEF Elements
    <2>3. e \in log["outcomes"]
      BY <2>1, <2>2, RingIs DEF RingInv, Contents
    <2> QED BY <2>1, <2>3 DEF Item
  <1>4. expired' \in SUBSET Nat
    BY <1>2, <1>3 DEF RingInv, TypeOK
  <1>5. Working' /\ Todo'
    <2>1. log' = log
      BY <1>1 DEF history
    <2> QED BY <1>1, <2>1 DEF RingInv, Working, Todo, OnEdge, HasOrigin, Origin
  <1> QED BY <1>1, <1>4, <1>5, RequestKeeps DEF RingInv, TypeOK

(***************************************************************************)
(* The ticker.                                                             *)
(***************************************************************************)
\* The positions of an edge in the ring, and the last of them.
LEMMA OnEdgeIs ==
  ASSUME RingInv, NEW e
  PROVE  /\ Cardinality(OnEdge(e)) \in Nat
         /\ OnEdge(e) # {} =>
              /\ ring["handoffs"][LastOf(OnEdge(e))] \in log["handoffs"]
              /\ ring["handoffs"][LastOf(OnEdge(e))] \in Item
              /\ ring["handoffs"][LastOf(OnEdge(e))].edge = e
  <1> DEFINE r == ring["handoffs"]
             S == OnEdge(e)
  <1>1. r \in Rings(log["handoffs"]) /\ log["handoffs"] \subseteq Item
    BY DEF RingInv, Contents, Numbered, Keys
  <1>2. /\ r \in Seq(log["handoffs"]) /\ Len(r) \in Nat /\ DOMAIN r = 1..Len(r)
        /\ \A i \in DOMAIN r : r[i] \in log["handoffs"]
    BY <1>1, RingIs
  <1>3. S \in SUBSET (1..Len(r)) /\ \A i \in S : i \in DOMAIN r /\ r[i].edge = e
    BY <1>2 DEF OnEdge
  <1>4. IsFiniteSet(S) /\ Cardinality(S) \in Nat
    <2> HIDE DEF S, r
    <2> QED BY <1>2, <1>3, UpToSize
  <1>5. ASSUME S # {} PROVE LastOf(S) \in S
    <2>1. \E i \in S : \A j \in S : j <= i
      <3> HIDE DEF S, r
      <3> QED BY <1>2, <1>3, <1>5, GreatestIs
    <2> HIDE DEF S
    <2> QED BY <2>1 DEF LastOf
  <1> HIDE DEF S, r
  <1>6. S # {} => r[LastOf(S)] \in log["handoffs"] /\ r[LastOf(S)] \in Item /\ r[LastOf(S)].edge = e
    BY <1>1, <1>2, <1>3, <1>5
  <1> QED BY <1>4, <1>6 DEF S, r

\* A tick settles on edges of the ring (Summarize).
LEMMA TickStartKeeps == ASSUME RingInv, NEW t \in Tickers, TickStart(t) PROVE RingInv'
  <1>1. /\ UNCHANGED <<ring, stage, item, snap, store, clock, expired, history>> /\ todo' \subseteq Knowledge
    BY DEF TickStart
  <1>2. ASSUME NEW s \in todo' PROVE s \in [edge : Edges, count : Nat, last : Nat] /\ OnEdge(s.edge) # {}
    <2>1. PICK e \in Edges : OnEdge(e) # {} /\ s = [edge |-> e, count |-> Cardinality(OnEdge(e)),
                last |-> ring["handoffs"][LastOf(OnEdge(e))].stamp]
      BY <1>1, <1>2 DEF Knowledge
    <2>2. Cardinality(OnEdge(e)) \in Nat /\ ring["handoffs"][LastOf(OnEdge(e))] \in Item
      BY <2>1, OnEdgeIs
    <2>3. ring["handoffs"][LastOf(OnEdge(e))].stamp \in Nat
      BY <2>2 DEF Item
    <2> QED BY <2>1, <2>2, <2>3
  <1>3. log' = log
    BY <1>1 DEF history
  <1>4. Working' /\ Todo'
    BY <1>1, <1>2, <1>3 DEF RingInv, Working, HasOrigin, Origin, Todo, OnEdge
  <1>5. todo' \in SUBSET [edge : Edges, count : Nat, last : Nat]
    BY <1>2
  <1> QED BY <1>1, <1>4, <1>5, RequestKeeps DEF RingInv, TypeOK

\* The items that entered before x.
Older(L, x) == {y \in L : y.n < x.n}

\* The more items, the more are older and newer than x.
LEMMA OlderCount ==
  ASSUME NEW L, NEW M, IsFiniteSet(M), L \subseteq M, NEW x
  PROVE  /\ Cardinality(Older(L, x)) \in Nat /\ Cardinality(Older(M, x)) \in Nat /\ Cardinality(M) \in Nat
         /\ Cardinality(L) \in Nat
         /\ Cardinality(Older(L, x)) <= Cardinality(Older(M, x))
         /\ Cardinality(Older(M, x)) <= Cardinality(M) /\ Cardinality(Newer(M, x)) <= Cardinality(M)
         /\ Cardinality(Newer(M, x)) \in Nat /\ Cardinality(L) <= Cardinality(M)
         /\ Cardinality(Newer(L, x)) <= Cardinality(Newer(M, x)) /\ Cardinality(Newer(L, x)) \in Nat
  <1>1. /\ Older(M, x) \in SUBSET M /\ Newer(M, x) \in SUBSET M /\ Older(L, x) \in SUBSET Older(M, x)
        /\ Newer(L, x) \in SUBSET Newer(M, x) /\ L \in SUBSET M
    BY DEF Older, Newer
  <1>2. /\ IsFiniteSet(Older(M, x)) /\ Cardinality(Older(M, x)) <= Cardinality(M)
        /\ IsFiniteSet(Newer(M, x)) /\ Cardinality(Newer(M, x)) <= Cardinality(M)
        /\ IsFiniteSet(L) /\ Cardinality(L) <= Cardinality(M)
    BY <1>1, FS_Subset
  <1>3. /\ IsFiniteSet(Older(L, x)) /\ Cardinality(Older(L, x)) <= Cardinality(Older(M, x))
        /\ IsFiniteSet(Newer(L, x)) /\ Cardinality(Newer(L, x)) <= Cardinality(Newer(M, x))
    BY <1>1, <1>2, FS_Subset
  <1> QED BY <1>2, <1>3, FS_CardinalityType

\* The report an envelope carries.
LEMMA ReportIs ==
  ASSUME RingInv, NEW s \in todo, NEW x \in Item, x.edge = s.edge, x.report = latestOriginReport(s.edge)
  PROVE  HasOrigin(x)
  <1>1. "handoffs" \in Keys /\ log["handoffs"] \subseteq Item /\ IsFiniteSet(log["handoffs"])
        /\ Keep["handoffs"] \in Nat
    BY CoordinatorAssumption DEF Keys, RingInv, Numbered
  <1>2. CASE OnEdge(s.edge) = {}
    BY <1>2 DEF RingInv, Todo, latestOriginReport, HasOrigin, Origin
  <1>3. CASE OnEdge(s.edge) # {}
    <2> DEFINE y == ring["handoffs"][LastOf(OnEdge(s.edge))]
    <2>1. y \in log["handoffs"] /\ y.edge = s.edge /\ x.report = y.report
      BY <1>3, OnEdgeIs DEF latestOriginReport
    <2> HIDE DEF y
    <2>2. CASE ~y.tick
      BY <2>1, <2>2 DEF HasOrigin, Origin
    <2>3. CASE y.tick
      <3>1. \/ \E z \in log["handoffs"] : ~z.tick /\ z.edge = y.edge /\ z.report = y.report
            \/ y.report = 0 /\ Cardinality(Older(log["handoffs"], y)) >= Keep["handoffs"]
        BY <2>1, <2>3 DEF RingInv, TicksHaveOrigin, Older
      <3>2. Cardinality(Older(log["handoffs"], y)) >= Keep["handoffs"] =>
                Cardinality(log["handoffs"]) >= Keep["handoffs"]
        BY <1>1, OlderCount
      <3> QED BY <2>1, <3>1, <3>2 DEF HasOrigin, Origin
    <2> QED BY <2>2, <2>3
  <1> QED BY <1>2, <1>3

\* The envelope of a tick carries a report of its edge (latestOriginReport).
LEMMA TickEdgeKeeps == ASSUME RingInv, NEW t \in Tickers, TickEdge(t) PROVE RingInv'
  <1>1. PICK s \in todo :
            /\ todo' = todo \ {s}
            /\ item' = [item EXCEPT ![t] = [n |-> 0, stamp |-> 0, edge |-> s.edge,
                                            tick |-> TRUE, report |-> latestOriginReport(s.edge)]]
    BY DEF TickEdge
  <1> DEFINE x == [n |-> 0, stamp |-> 0, edge |-> s.edge, tick |-> TRUE, report |-> latestOriginReport(s.edge)]
  <1>2. /\ UNCHANGED <<ring, snap, store, clock, expired, history>>
        /\ stage' = [stage EXCEPT ![t] = "probe"] /\ item' = [item EXCEPT ![t] = x]
    BY <1>1 DEF TickEdge
  <1>3. s.edge \in Edges /\ clock \in Nat /\ expired \in SUBSET Nat
    BY DEF RingInv, TypeOK
  <1>4. latestOriginReport(s.edge) \in Nat
    <2>1. OnEdge(s.edge) # {} => ring["handoffs"][LastOf(OnEdge(s.edge))] \in Item
      BY OnEdgeIs
    <2>2. OnEdge(s.edge) # {} => ring["handoffs"][LastOf(OnEdge(s.edge))].report \in Nat
      BY <2>1 DEF Item
    <2> QED BY <2>2 DEF latestOriginReport
  <1>5. x \in Item /\ x.tick = TRUE /\ x.edge = s.edge /\ x.report = latestOriginReport(s.edge)
    BY <1>3, <1>4 DEF Item
  <1> HIDE DEF x
  <1>6. HasOrigin(x)
    BY <1>5, ReportIs
  <1>7. t \in Actors /\ todo' \subseteq todo
    BY <1>1 DEF Actors
  <1> QED BY <1>2, <1>3, <1>5, <1>6, <1>7, TakesItem

\* The probe changes the time only.
LEMMA TickProbedKeeps == ASSUME RingInv, NEW t \in Tickers, TickProbed(t) PROVE RingInv'
  <1> DEFINE x == [item[t] EXCEPT !.stamp = clock + 1]
  <1>1. /\ stage[t] = "probe" /\ clock' = clock + 1
        /\ UNCHANGED <<ring, snap, todo, store, expired, history>>
        /\ stage' = [stage EXCEPT ![t] = "add"] /\ item' = [item EXCEPT ![t] = x]
    BY DEF TickProbed
  <1>2. t \in Actors /\ clock \in Nat /\ clock + 1 \in Nat /\ expired \in SUBSET Nat
    BY DEF Actors, RingInv, TypeOK
  <1>3. item[t] \in Item /\ (item[t].tick <=> t \in Tickers) /\ HasOrigin(item[t])
    BY <1>1, <1>2 DEF RingInv, Working
  <1>4. x \in Item /\ (x.tick <=> t \in Tickers) /\ x.edge = item[t].edge /\ x.report = item[t].report
    BY <1>2, <1>3 DEF Item
  <1> HIDE DEF x
  <1>5. HasOrigin(x)
    BY <1>3, <1>4 DEF HasOrigin, Origin
  <1> QED BY <1>1, <1>2, <1>4, <1>5, TakesItem

\* A new item is numbered above all there were.
LEMMA AddNumbers ==
  ASSUME RingInv, NEW a \in Actors, Add(a)
  PROVE  LET new == [item[a] EXCEPT !.n = Cardinality(AllItems) + 1]
             k == Key(a)
         IN  /\ new \in Item /\ new.n = Cardinality(AllItems) + 1 /\ new.edge = item[a].edge
             /\ new.report = item[a].report /\ (new.tick <=> a \in Tickers) /\ new.stamp = item[a].stamp
             /\ Cardinality(AllItems) \in Nat
             /\ \A j \in Keys : log'[j] = IF j = k THEN log[j] \cup {new} ELSE log[j]
             /\ \A j \in Keys : log[j] \subseteq log'[j] /\ IsFiniteSet(log'[j])
             /\ Numbered' /\ Cardinality(AllItems') = Cardinality(AllItems) + 1
  <1> DEFINE new == [item[a] EXCEPT !.n = Cardinality(AllItems) + 1]
             k == Key(a)
  <1>1. k \in Keys /\ item[a] \in Item /\ (item[a].tick <=> a \in Tickers)
    BY KeyOf DEF RingInv, Working, Add
  <1>2. /\ IsFiniteSet(AllItems) /\ Cardinality(AllItems) \in Nat /\ AllItems \subseteq Item
    BY AllItemsAre DEF RingInv
  <1>3. /\ new \in Item /\ new.n = Cardinality(AllItems) + 1 /\ new.edge = item[a].edge
        /\ new.report = item[a].report /\ new.tick = item[a].tick /\ new.stamp = item[a].stamp
    <2>1. Cardinality(AllItems) + 1 \in Nat
      BY <1>2
    <2> QED BY <1>1, <2>1 DEF Item
  <1>4. log' = [log EXCEPT ![k] = @ \cup {new}] /\ log \in [Keys -> SUBSET Item]
    BY DEF Add, RingInv, TypeOK
  <1> HIDE DEF new
  <1>5. \A j \in Keys : log'[j] = IF j = k THEN log[j] \cup {new} ELSE log[j]
    BY <1>1, <1>4
  <1>6. \A j \in Keys : log[j] \subseteq log'[j] /\ IsFiniteSet(log'[j]) /\ log'[j] \subseteq Item
    <2>1. ASSUME NEW j \in Keys
          PROVE  log[j] \subseteq log'[j] /\ IsFiniteSet(log'[j]) /\ log'[j] \subseteq Item
      <3>1. IsFiniteSet(log[j]) /\ log[j] \subseteq Item
        BY DEF RingInv, Numbered
      <3>2. IsFiniteSet(log[j] \cup {new})
        BY <3>1, FS_AddElement
      <3>3. log'[j] = log[j] \/ log'[j] = log[j] \cup {new}
        BY <1>5
      <3> QED BY <1>3, <3>1, <3>2, <3>3
    <2> QED BY <2>1
  <1>7. AllItems' = AllItems \cup {new}
    BY <1>1, <1>5 DEF AllItems
  <1>8. new \notin AllItems
    BY <1>2, <1>3 DEF RingInv, Numbered
  <1>9. Cardinality(AllItems') = Cardinality(AllItems) + 1
    BY <1>2, <1>7, <1>8, FS_AddElement
  <1>10. \A x \in AllItems' : x.n <= Cardinality(AllItems')
    <2>1. \A x \in AllItems : x.n \in Nat /\ x.n <= Cardinality(AllItems)
      BY <1>2 DEF RingInv, Numbered, Item
    <2>2. \A x \in AllItems : x.n <= Cardinality(AllItems) + 1
      BY <1>2, <2>1
    <2>3. new.n <= Cardinality(AllItems) + 1
      BY <1>2, <1>3
    <2> QED BY <1>7, <1>9, <2>2, <2>3
  <1>11. Numbered'
    BY <1>6, <1>10 DEF Numbered
  <1> QED BY <1>1, <1>2, <1>3, <1>5, <1>6, <1>9, <1>11 DEF new

\* The ring after an item has entered it: in order, and what is cut off is outlived.
LEMMA AddRing ==
  ASSUME RingInv, NEW a \in Actors, Add(a)
  PROVE  LET new == [item[a] EXCEPT !.n = Cardinality(AllItems) + 1]
             k == Key(a)
         IN  /\ ring' = [ring EXCEPT ![k] = ring'[k]] /\ ring'[k] \in Rings(log'[k])
             /\ snap' = [snap EXCEPT ![a] = ring'[k]]
             /\ \A x \in Elements(ring[k]) \cup {new} :
                    \/ x \in Elements(ring'[k])
                    \/ k = "outcomes" /\ x.stamp \in expired
                    \/ Cardinality(Newer(log'[k], x)) >= Keep[k]
  <1> DEFINE new == [item[a] EXCEPT !.n = Cardinality(AllItems) + 1]
             k == Key(a)
             s == Append(ring[k], new)
  <1>1. k \in Keys
    BY KeyOf
  <1>2. /\ new \in Item /\ new.n = Cardinality(AllItems) + 1 /\ Cardinality(AllItems) \in Nat
        /\ log'[k] = log[k] \cup {new} /\ IsFiniteSet(log'[k]) /\ log'[k] \in SUBSET Item
    BY <1>1, AddNumbers DEF Numbered
  <1>3. /\ ring' = [ring EXCEPT ![k] = Pruned(k, s)] /\ snap' = [snap EXCEPT ![a] = Pruned(k, s)]
    BY DEF Add, Appended, Snapshot
  <1> HIDE DEF new
  <1>4. ring[k] \in Rings(log[k]) /\ ring \in [Keys -> Seq(Item)]
    BY <1>1 DEF RingInv, Contents, TypeOK
  <1>5. /\ ring[k] \in Seq(log[k]) /\ Len(ring[k]) \in Nat
        /\ \A i \in DOMAIN ring[k] : ring[k][i] \in log[k]
        /\ \A i, j \in DOMAIN ring[k] : i < j => ring[k][i].n < ring[k][j].n
    BY <1>4, RingIs
  <1>6. \A i \in DOMAIN ring[k] : ring[k][i].n < new.n
    <2>1. \A x \in log[k] : x.n \in Nat /\ x.n <= Cardinality(AllItems)
      BY <1>1, AllItemsAre DEF RingInv, Numbered, Item
    <2> QED BY <1>2, <1>5, <2>1
  <1>7. s \in Rings(log'[k]) /\ Len(s) = Len(ring[k]) + 1 /\ s[Len(ring[k]) + 1] = new
        /\ \A i \in DOMAIN ring[k] : s[i] = ring[k][i] /\ i \in DOMAIN s
    <2>1. s \in Seq(log'[k])
      <3>1. ring[k] \in Rings(log'[k])
        BY <1>2, <1>4, RingsGrow
      <3>2. ring[k] \in Seq(log'[k])
        BY <3>1 DEF Rings
      <3>3. new \in log'[k]
        BY <1>2
      <3> QED BY <3>2, <3>3, AppendProperties
    <2>2. /\ Len(s) = Len(ring[k]) + 1 /\ s[Len(ring[k]) + 1] = new
          /\ \A i \in DOMAIN ring[k] : s[i] = ring[k][i] /\ i \in DOMAIN s
      BY <1>5
    <2>3. ASSUME NEW i \in DOMAIN s, NEW j \in DOMAIN s, i < j PROVE s[i].n < s[j].n
      <3> HIDE DEF s
      <3>0. DOMAIN s = 1..Len(s) /\ DOMAIN ring[k] = 1..Len(ring[k])
        BY <1>5, <2>1
      <3>1. i \in DOMAIN ring[k] /\ (j \in DOMAIN ring[k] \/ j = Len(ring[k]) + 1)
        BY <1>5, <2>2, <2>3, <3>0
      <3> QED BY <1>5, <1>6, <2>2, <2>3, <3>1
    <2> HIDE DEF s
    <2> QED BY <2>1, <2>2, <2>3 DEF Rings
  <1> HIDE DEF s, k
  <1>8. /\ Pruned(k, s) \in Rings(log'[k])
        /\ \A i \in DOMAIN s :
              \/ s[i] \in Elements(Pruned(k, s))
              \/ k = "outcomes" /\ s[i].stamp \in expired
              \/ Cardinality(Newer(log'[k], s[i])) >= Keep[k]
    BY <1>1, <1>2, <1>7, PrunedIs
  <1>9. ring'[k] = Pruned(k, s)
    BY <1>1, <1>3, <1>4
  <1>10. \A x \in Elements(ring[k]) \cup {new} : \E i \in DOMAIN s : x = s[i]
    <2>1. Len(ring[k]) + 1 \in DOMAIN s
      BY <1>5, <1>7, RingIs
    <2> QED BY <1>7, <2>1 DEF Elements
  <1> QED BY <1>3, <1>8, <1>9, <1>10 DEF new, k

(***************************************************************************)
(* An item enters a ring.                                                  *)
(***************************************************************************)
LEMMA OriginStays ==
  ASSUME RingInv, log["handoffs"] \subseteq log'["handoffs"], IsFiniteSet(log'["handoffs"]),
         NEW x, HasOrigin(x)
  PROVE  Origin(log'["handoffs"], x)
  <1>1. Cardinality(log["handoffs"]) <= Cardinality(log'["handoffs"])
        /\ Cardinality(log["handoffs"]) \in Nat /\ Cardinality(log'["handoffs"]) \in Nat
    BY OlderCount
  <1>2. Keep["handoffs"] \in Nat
    BY CoordinatorAssumption DEF Keys
  <1> QED BY <1>1, <1>2 DEF HasOrigin, Origin

\* The new item, if a tick made it, has an older one as its origin.
LEMMA AddOrigins == ASSUME RingInv, NEW a \in Actors, Add(a) PROVE TicksHaveOrigin'
  <1> DEFINE new == [item[a] EXCEPT !.n = Cardinality(AllItems) + 1]
             k == Key(a)
             L == log["handoffs"]
             M == log'["handoffs"]
  <1>1. /\ new \in Item /\ new.n = Cardinality(AllItems) + 1 /\ new.edge = item[a].edge
        /\ new.report = item[a].report /\ (new.tick <=> a \in Tickers)
        /\ Cardinality(AllItems) \in Nat
        /\ M = IF k = "handoffs" THEN L \cup {new} ELSE L
        /\ L \subseteq M /\ IsFiniteSet(M)
    BY AddNumbers DEF Keys
  <1> HIDE DEF new, k
  <1>2. Keep["handoffs"] \in Nat /\ L \subseteq AllItems /\ AllItems \subseteq Item
    BY AllItemsAre, CoordinatorAssumption DEF Keys, RingInv
  <1>3. ASSUME NEW x \in M, x.tick
        PROVE  \/ \E y \in M : ~y.tick /\ y.edge = x.edge /\ y.report = x.report /\ y.n < x.n
               \/ x.report = 0 /\ Cardinality(Older(M, x)) >= Keep["handoffs"]
    <2>1. CASE x \in L
      <3>1. \/ \E y \in L : ~y.tick /\ y.edge = x.edge /\ y.report = x.report /\ y.n < x.n
            \/ x.report = 0 /\ Cardinality(Older(L, x)) >= Keep["handoffs"]
        BY <1>3, <2>1 DEF RingInv, TicksHaveOrigin, Older
      <3>2. /\ Cardinality(Older(L, x)) <= Cardinality(Older(M, x))
            /\ Cardinality(Older(L, x)) \in Nat /\ Cardinality(Older(M, x)) \in Nat
        BY <1>1, OlderCount
      <3>3. Cardinality(Older(L, x)) >= Keep["handoffs"] => Cardinality(Older(M, x)) >= Keep["handoffs"]
        BY <1>2, <3>2
      <3> QED BY <1>1, <3>1, <3>3
    <2>2. CASE x \notin L
      <3>1. x = new /\ k = "handoffs" /\ a \in Tickers
        BY <1>1, <1>3, <2>2
      <3>2. HasOrigin(item[a])
        BY <3>1 DEF RingInv, Working, Add
      <3>3. \A y \in L : y.n < x.n
        <4>1. \A y \in L : y.n \in Nat /\ y.n <= Cardinality(AllItems)
          BY <1>2 DEF Item, RingInv, Numbered
        <4> QED BY <1>1, <3>1, <4>1
      <3>4. CASE \E y \in L : ~y.tick /\ y.edge = item[a].edge /\ y.report = item[a].report
        BY <1>1, <3>1, <3>3, <3>4
      <3>5. CASE item[a].report = 0 /\ Cardinality(L) >= Keep["handoffs"]
        <4>1. Older(L, x) = L
          BY <3>3 DEF Older
        <4>2. /\ Cardinality(Older(L, x)) <= Cardinality(Older(M, x))
              /\ Cardinality(Older(L, x)) \in Nat /\ Cardinality(Older(M, x)) \in Nat
          BY <1>1, OlderCount
        <4>3. Cardinality(Older(M, x)) >= Keep["handoffs"]
          BY <1>2, <3>5, <4>1, <4>2
        <4> QED BY <1>1, <3>1, <3>5, <4>3
      <3> QED BY <3>2, <3>4, <3>5 DEF HasOrigin, Origin
    <2> QED BY <2>1, <2>2
  <1> QED BY <1>3 DEF TicksHaveOrigin, Older

\* An edge to be probed leaves the ring only when the ring has overflown.
LEMMA AddTodo == ASSUME RingInv, NEW a \in Actors, Add(a) PROVE Todo'
  <1> DEFINE k == Key(a)
             L == log["handoffs"]
             M == log'["handoffs"]
  <1>1. "handoffs" \in Keys /\ L \subseteq M /\ IsFiniteSet(M) /\ Keep["handoffs"] \in Nat /\ k \in Keys
    BY KeyOf, AddNumbers, CoordinatorAssumption DEF Keys
  <1>2. todo' = todo
    BY DEF Add
  <1>3. /\ ring' = [ring EXCEPT ![k] = ring'[k]]
        /\ \A x \in Elements(ring[k]) :
                    \/ x \in Elements(ring'[k])
                    \/ k = "outcomes" /\ x.stamp \in expired
                    \/ Cardinality(Newer(log'[k], x)) >= Keep[k]
    BY AddRing
  <1>4. ring \in [Keys -> Seq(Item)]
    BY DEF RingInv, TypeOK
  <1>5. Cardinality(L) <= Cardinality(M) /\ Cardinality(M) \in Nat /\ Cardinality(L) \in Nat
    BY <1>1, OlderCount
  <1>6. ASSUME NEW s \in todo PROVE OnEdge(s.edge)' # {} \/ Cardinality(M) >= Keep["handoffs"]
    <2>1. CASE Cardinality(L) >= Keep["handoffs"]
      BY <1>1, <1>5, <2>1
    <2>2. CASE OnEdge(s.edge) # {}
      <3>1. PICK i \in DOMAIN ring["handoffs"] : ring["handoffs"][i].edge = s.edge
        BY <2>2 DEF OnEdge
      <3>2. CASE k = "handoffs"
        <4> DEFINE x == ring["handoffs"][i]
        <4>1. x \in Elements(ring["handoffs"]) /\ x.edge = s.edge
          BY <3>1 DEF Elements
        <4> HIDE DEF x
        <4>2. x \in Elements(ring'["handoffs"]) \/ Cardinality(Newer(M, x)) >= Keep["handoffs"]
          BY <1>3, <3>2, <4>1
        <4>3. Cardinality(Newer(M, x)) <= Cardinality(M) /\ Cardinality(Newer(M, x)) \in Nat
          BY <1>1, OlderCount
        <4>4. x \in Elements(ring'["handoffs"]) => \E j \in DOMAIN ring'["handoffs"] : ring'["handoffs"][j].edge = s.edge
          BY <4>1 DEF Elements
        <4> QED BY <1>1, <1>5, <4>2, <4>3, <4>4 DEF OnEdge
      <3>3. CASE k # "handoffs"
        <4>1. ring'["handoffs"] = ring["handoffs"]
          BY <1>1, <1>3, <1>4, <3>3
        <4> QED BY <3>1, <4>1 DEF OnEdge
      <3> QED BY <3>2, <3>3
    <2> QED BY <2>1, <2>2 DEF RingInv, Todo
  <1> QED BY <1>2, <1>6 DEF Todo

\* The critical section of Handle and RecordOutcome.
LEMMA AddKeeps == ASSUME RingInv, NEW a \in Actors, Add(a) PROVE RingInv'
  <1> DEFINE new == [item[a] EXCEPT !.n = Cardinality(AllItems) + 1]
             k == Key(a)
  <1>1. /\ new \in Item /\ (new.tick <=> a \in Tickers)
        /\ log'[k] = log[k] \cup {new}
        /\ \A j \in Keys : log[j] \subseteq log'[j] /\ IsFiniteSet(log'[j])
        /\ Numbered' /\ k \in Keys
    BY KeyOf, AddNumbers
  <1>2. /\ ring' = [ring EXCEPT ![k] = ring'[k]] /\ ring'[k] \in Rings(log'[k])
        /\ snap' = [snap EXCEPT ![a] = ring'[k]]
    BY AddRing
  <1>3. /\ stage[a] = "add"
        /\ item' = [item EXCEPT ![a] = new]
        /\ stage' = [stage EXCEPT ![a] = "save"]
        /\ log' = [log EXCEPT ![k] = @ \cup {new}]
        /\ overlap' = IF Saving(k) = {} THEN overlap ELSE overlap \cup Saving(k) \cup {a}
        /\ crowded' = IF Crowds(k) THEN crowded \cup {k} ELSE crowded
        /\ kept' = IF Crowds(k) THEN [kept EXCEPT ![k] = {}] ELSE kept
        /\ UNCHANGED <<todo, store, clock, expired>>
    BY DEF Add
  <1> HIDE DEF new, k
  <1>4. ring'[k] \in Seq(Item)
    <2>1. log'[k] \subseteq Item
      BY <1>1 DEF Numbered
    <2>2. ring'[k] \in Rings(Item)
      BY <1>2, <2>1, RingsGrow
    <2> QED BY <2>2 DEF Rings
  <1>5. TypeOK'
    <2>1. TypeOK
      BY DEF RingInv
    <2>2. UNCHANGED <<todo, stored, version, seen, read, inode, tmp, clock, expired>>
      BY <1>3 DEF store
    <2>3. ring' \in [Keys -> Seq(Item)] /\ snap' \in [Actors -> Seq(Item)]
      <3>1. ring \in [Keys -> Seq(Item)] /\ snap \in [Actors -> Seq(Item)]
        BY <2>1 DEF TypeOK
      <3> QED BY <1>1, <1>2, <1>4, <3>1
    <2>4. stage' \in [Actors -> Stages] /\ item' \in [Actors -> Item \cup {None}]
      BY <1>1, <1>3, <2>1 DEF TypeOK, Stages
    <2>5. log' \in [Keys -> SUBSET Item]
      BY <1>1, <1>3, <2>1 DEF TypeOK
    <2>6. overlap' \in SUBSET Actors
      BY <1>3, <2>1 DEF TypeOK, Saving
    <2>7. kept' \in [Keys -> SUBSET Item] /\ crowded' \in SUBSET Keys
      <3>1. kept \in [Keys -> SUBSET Item] /\ crowded \in SUBSET Keys
        BY <2>1 DEF TypeOK
      <3> QED BY <1>1, <1>3, <3>1
    <2> QED BY <2>1, <2>2, <2>3, <2>4, <2>5, <2>6, <2>7 DEF TypeOK
  <1>6. Contents'
    <2>1. \A j \in Keys : Rings(log[j]) \subseteq Rings(log'[j])
      BY <1>1, RingsGrow
    <2>2. Contents
      BY DEF RingInv
    <2>3. UNCHANGED <<stored, tmp>>
      BY <1>3 DEF store
    <2>4. ring \in [Keys -> Seq(Item)] /\ snap \in [Actors -> Seq(Item)]
      BY DEF RingInv, TypeOK
    <2>5. \A j \in Keys : ring'[j] \in Rings(log'[j])
      <3>1. \A j \in Keys : j # k => ring'[j] = ring[j]
        BY <1>2, <2>4
      <3> QED BY <1>2, <2>1, <2>2, <3>1 DEF Contents
    <2>6. \A b \in Actors : snap'[b] \in Rings(log'[Key(b)])
      <3>1. \A b \in Actors : b # a => snap'[b] = snap[b]
        BY <1>2, <2>4
      <3>2. snap'[a] = ring'[k]
        BY <1>2, <2>4
      <3>3. \A b \in Actors : Key(b) \in Keys
        BY KeyOf
      <3>4. \A b \in Actors : snap[b] \in Rings(log'[Key(b)])
        BY <2>1, <2>2, <3>3 DEF Contents
      <3>5. snap'[a] \in Rings(log'[Key(a)])
        BY <1>2, <3>2 DEF k
      <3> QED BY <3>1, <3>4, <3>5
    <2>7. \A j \in Keys : (stored'[j] \in Rings(log'[j]) \cup {Torn}) /\ (tmp'[j] \in Rings(log'[j]) \cup {Torn})
      BY <2>1, <2>2, <2>3 DEF Contents
    <2> QED BY <2>5, <2>6, <2>7 DEF Contents
  <1>7. Working'
    <2>1. /\ stage \in [Actors -> Stages] /\ item \in [Actors -> Item \cup {None}]
      BY DEF RingInv, TypeOK
    <2>2. stage'[a] = "save" /\ item'[a] = new /\ new \in log'[Key(a)]
      BY <1>1, <1>3, <2>1 DEF k
    <2>4. ASSUME NEW b \in Actors, b # a
          PROVE  /\ stage'[b] # "idle" => item'[b] \in Item /\ (item'[b].tick <=> b \in Tickers)
                 /\ stage'[b] \in {"save", "write", "rename"} => item'[b] \in log'[Key(b)]
                 /\ b \in Tickers /\ stage'[b] \in {"probe", "add"} => Origin(log'["handoffs"], item'[b])
      <3>1. stage'[b] = stage[b] /\ item'[b] = item[b] /\ Key(b) \in Keys
        BY <1>3, <2>1, <2>4, KeyOf
      <3>2. HasOrigin(item[b]) => Origin(log'["handoffs"], item[b])
        <4>1. "handoffs" \in Keys
          BY DEF Keys
        <4> QED BY <1>1, <4>1, OriginStays
      <3>3. Working
        BY DEF RingInv
      <3> QED BY <1>1, <3>1, <3>2, <3>3 DEF Working
    <2> QED BY <1>1, <2>2, <2>4 DEF Working, HasOrigin
  <1> QED BY <1>1, <1>5, <1>6, <1>7, AddOrigins, AddTodo DEF RingInv

(***************************************************************************)
(* Saves and restarts keep the rings.                                      *)
(***************************************************************************)
LEMMA InitRings == Init => RingInv
  <1> SUFFICES ASSUME Init PROVE RingInv
    OBVIOUS
  <1>1. /\ ring = [k \in Keys |-> <<>>] /\ stage = [a \in Actors |-> "idle"]
        /\ item = [a \in Actors |-> None] /\ snap = [a \in Actors |-> <<>>]
        /\ todo = {} /\ stored = [k \in Keys |-> <<>>]
        /\ version = 0 /\ seen = [a \in Actors |-> 0]
        /\ read = [a \in Actors |-> None] /\ inode = [k \in Keys |-> [tmp |-> 0, path |-> 0]]
        /\ tmp = [k \in Keys |-> <<>>] /\ clock = 0 /\ expired = {}
        /\ log = [k \in Keys |-> {}]
        /\ overlap = {} /\ kept = [k \in Keys |-> {}] /\ crowded = {}
    BY DEF Init
  <1>2. \A k \in Keys : <<>> \in Rings(log[k])
    BY RingsGrow
  <1>3. TypeOK
    <2>1. ring \in [Keys -> Seq(Item)] /\ snap \in [Actors -> Seq(Item)]
      BY <1>1
    <2>2. stored \in [Keys -> Seq(Item) \cup {Torn}] /\ tmp \in [Keys -> Seq(Item) \cup {Torn}]
      BY <1>1
    <2>3. inode \in [Keys -> [tmp : Nat, path : Nat]]
      BY <1>1
    <2>4. stage \in [Actors -> Stages] /\ item \in [Actors -> Item \cup {None}] /\ seen \in [Actors -> Nat]
      BY <1>1 DEF Stages
    <2>5. read \in [Actors -> [Keys -> Seq(Item) \cup {Torn}] \cup {None}]
      BY <1>1
    <2>6. \A h \in {log, kept} : h \in [Keys -> SUBSET Item]
      BY <1>1
    <2>7. todo = {} /\ version \in Nat /\ clock \in Nat /\ expired = {} /\ overlap = {} /\ crowded = {}
      BY <1>1
    <2> QED BY <2>1, <2>2, <2>3, <2>4, <2>5, <2>6, <2>7 DEF TypeOK
  <1>4. Numbered
    BY <1>1, FS_EmptySet DEF Numbered, AllItems
  <1>5. Contents
    BY <1>1, <1>2, KeyOf DEF Contents
  <1>6. Working /\ Todo /\ TicksHaveOrigin
    <2>1. "handoffs" \in Keys
      BY DEF Keys
    <2> QED BY <1>1, <2>1 DEF Working, Todo, TicksHaveOrigin
  <1> QED BY <1>3, <1>4, <1>5, <1>6 DEF RingInv

\* What a step of a save may do to the rings: nothing.
LEMMA SaveKeeps ==
  ASSUME RingInv, TypeOK', UNCHANGED <<ring, todo, log>>,
         \A a \in Actors : snap'[a] \in {snap[a], <<>>},
         \A k \in Keys : stored'[k] \in Rings(log[k]) \cup {Torn} /\ tmp'[k] \in Rings(log[k]) \cup {Torn},
         \A a \in Actors : stage'[a] = "idle" \/
            /\ item'[a] = item[a]
            /\ stage'[a] = stage[a] \/ (stage[a] \in {"save", "write"} /\ stage'[a] \in {"write", "rename"})
  PROVE  RingInv'
  <1>1. Numbered' /\ TicksHaveOrigin' /\ Todo'
    BY DEF RingInv, Numbered, AllItems, TicksHaveOrigin, Todo, OnEdge
  <1>2. Contents'
    <2>1. \A a \in Actors : snap'[a] \in Rings(log[Key(a)])
      BY RingsGrow DEF RingInv, Contents
    <2>2. \A k \in Keys : ring'[k] \in Rings(log'[k])
      BY DEF RingInv, Contents
    <2> QED BY <2>1, <2>2 DEF Contents
  <1>3. Working'
    <2>1. \A a \in Actors :
            /\ stage[a] # "idle" => item[a] \in Item /\ (item[a].tick <=> a \in Tickers)
            /\ stage[a] \in {"save", "write", "rename"} => item[a] \in log[Key(a)]
            /\ a \in Tickers /\ stage[a] \in {"probe", "add"} => HasOrigin(item[a])
      BY DEF RingInv, Working
    <2> QED BY <2>1 DEF Working, HasOrigin
  <1> QED BY <1>1, <1>2, <1>3 DEF RingInv

\* The answer to a request.
LEMMA AnswerIs ==
  ASSUME RingInv, NEW a \in Actors, NEW s \in BOOLEAN, stage[a] \in {"save", "write", "rename"}, Answer(a, s)
  PROVE  /\ stage' \in [Actors -> Stages] /\ item' \in [Actors -> Item \cup {None}]
         /\ snap' \in [Actors -> Seq(Item)] /\ seen' \in [Actors -> Nat]
         /\ read' \in [Actors -> [Keys -> Seq(Item) \cup {Torn}] \cup {None}]
         /\ kept' \in [Keys -> SUBSET Item] /\ crowded' \in SUBSET Keys
         /\ overlap' = overlap \ {a} /\ UNCHANGED <<ring, todo, clock, expired, log>>
         /\ stage'[a] = "idle" /\ snap'[a] = <<>> /\ read'[a] = None /\ item'[a] = None
         /\ \A b \in Actors : b # a =>
              /\ stage'[b] = stage[b] /\ item'[b] = item[b] /\ snap'[b] = snap[b]
              /\ seen'[b] = seen[b] /\ read'[b] = read[b]
         /\ \A k \in Keys : kept'[k] =
              IF s /\ a \notin overlap /\ k = Key(a) THEN kept[k] \cup {item[a]} ELSE kept[k]
         /\ crowded' = IF s /\ a \notin overlap THEN crowded \ {Key(a)} ELSE crowded
  <1>1. /\ stage' = [stage EXCEPT ![a] = "idle"] /\ item'  = [item EXCEPT ![a] = None]
        /\ snap'  = [snap EXCEPT ![a] = <<>>] /\ seen'  = [seen EXCEPT ![a] = 0]
        /\ read'  = [read EXCEPT ![a] = None]
        /\ kept'  = IF s /\ a \notin overlap
                THEN [kept EXCEPT ![Key(a)] = @ \cup {item[a]}] ELSE kept
        /\ crowded' = IF s /\ a \notin overlap THEN crowded \ {Key(a)} ELSE crowded
        /\ overlap' = overlap \ {a}
        /\ UNCHANGED <<ring, todo, clock, expired, log>>
    BY DEF Answer
  <1>2. /\ stage \in [Actors -> Stages] /\ item \in [Actors -> Item \cup {None}]
        /\ snap \in [Actors -> Seq(Item)] /\ seen \in [Actors -> Nat]
        /\ read \in [Actors -> [Keys -> Seq(Item) \cup {Torn}] \cup {None}]
        /\ kept \in [Keys -> SUBSET Item] /\ crowded \in SUBSET Keys
    BY DEF RingInv, TypeOK
  <1>3. item[a] \in Item /\ Key(a) \in Keys
    BY KeyOf DEF RingInv, Working
  <1>4. stage' \in [Actors -> Stages] /\ item' \in [Actors -> Item \cup {None}] /\ seen' \in [Actors -> Nat]
    BY <1>1, <1>2 DEF Stages
  <1>5. snap' \in [Actors -> Seq(Item)] /\ read' \in [Actors -> [Keys -> Seq(Item) \cup {Torn}] \cup {None}]
    BY <1>1, <1>2
  <1>6. kept' \in [Keys -> SUBSET Item] /\ crowded' \in SUBSET Keys
    BY <1>1, <1>2, <1>3
  <1>7. \A k \in Keys : kept'[k] =
              IF s /\ a \notin overlap /\ k = Key(a) THEN kept[k] \cup {item[a]} ELSE kept[k]
    BY <1>1, <1>2, <1>3
  <1>8. \A b \in Actors : b # a =>
              /\ stage'[b] = stage[b] /\ item'[b] = item[b] /\ snap'[b] = snap[b]
              /\ seen'[b] = seen[b] /\ read'[b] = read[b]
    BY <1>1, <1>2
  <1>9. stage'[a] = "idle" /\ snap'[a] = <<>> /\ read'[a] = None /\ item'[a] = None
    BY <1>1, <1>2
  <1> QED BY <1>1, <1>4, <1>5, <1>6, <1>7, <1>8, <1>9

\* An answered request, together with what it did to the store.
LEMMA AnswerKeeps ==
  ASSUME RingInv, NEW a \in Actors, NEW s \in BOOLEAN, stage[a] \in {"save", "write", "rename"}, Answer(a, s),
         stored' = [k \in Keys |-> stored'[k]], tmp' = [k \in Keys |-> tmp'[k]],
         \A k \in Keys : stored'[k] \in Rings(log[k]) \cup {Torn} /\ tmp'[k] \in Rings(log[k]) \cup {Torn},
         version' \in Nat, inode' \in [Keys -> [tmp : Nat, path : Nat]]
  PROVE  RingInv'
  <1>1. /\ stage' \in [Actors -> Stages] /\ item' \in [Actors -> Item \cup {None}]
         /\ snap' \in [Actors -> Seq(Item)] /\ seen' \in [Actors -> Nat]
         /\ read' \in [Actors -> [Keys -> Seq(Item) \cup {Torn}] \cup {None}]
         /\ kept' \in [Keys -> SUBSET Item] /\ crowded' \in SUBSET Keys
         /\ overlap' = overlap \ {a} /\ UNCHANGED <<ring, todo, clock, expired, log>>
         /\ stage'[a] = "idle" /\ snap'[a] = <<>> /\ read'[a] = None
         /\ \A b \in Actors : b # a =>
              /\ stage'[b] = stage[b] /\ item'[b] = item[b] /\ snap'[b] = snap[b]
              /\ seen'[b] = seen[b] /\ read'[b] = read[b]
    BY AnswerIs
  <1>2. \A k \in Keys : Rings(log[k]) \subseteq Seq(Item)
    <2>1. \A k \in Keys : log[k] \subseteq Item
      BY DEF RingInv, Numbered
    <2>2. \A k \in Keys : Rings(log[k]) \subseteq Rings(Item)
      BY <2>1, RingsGrow
    <2> QED BY <2>2 DEF Rings
  <1>3. TypeOK'
    <2>1. \A k \in Keys : stored'[k] \in Seq(Item) \cup {Torn} /\ tmp'[k] \in Seq(Item) \cup {Torn}
      BY <1>2
    <2>2. stored' \in [Keys -> Seq(Item) \cup {Torn}]
      BY <2>1
    <2>3. tmp' \in [Keys -> Seq(Item) \cup {Torn}]
      BY <2>1
    <2>4. overlap' \in SUBSET Actors /\ UNCHANGED <<ring, todo, clock, expired, log>>
      BY <1>1 DEF RingInv, TypeOK
    <2> QED BY <1>1, <2>2, <2>3, <2>4 DEF RingInv, TypeOK
  <1>4. \A b \in Actors : snap'[b] \in {snap[b], <<>>}
    BY <1>1
  <1>6. \A b \in Actors : stage'[b] = "idle" \/
            /\ item'[b] = item[b] /\ stage'[b] = stage[b]
    BY <1>1 DEF RingInv, Working
  <1> QED BY <1>1, <1>3, <1>4, <1>6, SaveKeeps

\* A save that fails is answered like any other.
LEMMA FailKeeps == ASSUME RingInv, NEW a \in Actors, SaveFails(a) PROVE RingInv'
  <1>1. stage[a] \in {"save", "write", "rename"} /\ Answer(a, FALSE) /\ UNCHANGED <<stored, version, inode, tmp>>
    BY DEF SaveFails
  <1>2. TypeOK /\ Contents
    BY DEF RingInv
  <1>3. stored' = [k \in Keys |-> stored'[k]] /\ tmp' = [k \in Keys |-> tmp'[k]]
        /\ version' \in Nat /\ inode' \in [Keys -> [tmp : Nat, path : Nat]]
    BY <1>1, <1>2 DEF TypeOK
  <1>4. \A k \in Keys : stored'[k] \in Rings(log[k]) \cup {Torn} /\ tmp'[k] \in Rings(log[k]) \cup {Torn}
    BY <1>1, <1>2 DEF Contents
  <1> QED BY <1>1, <1>3, <1>4, AnswerKeeps

\* What a save may write.
LEMMA RingsAreSequences ==
  ASSUME RingInv, NEW k \in Keys
  PROVE  /\ Rings(log[k]) \subseteq Seq(Item) /\ <<>> \in Rings(log[k])
         /\ stored[k] \in Rings(log[k]) \cup {Torn} /\ tmp[k] \in Rings(log[k]) \cup {Torn}
         /\ \A a \in Actors : snap[a] \in Rings(log[Key(a)])
  <1>1. log[k] \subseteq Item
    BY DEF RingInv, Numbered
  <1>2. Rings(log[k]) \subseteq Rings(Item) /\ <<>> \in Rings(log[k])
    BY <1>1, RingsGrow
  <1> QED BY <1>2 DEF Rings, RingInv, Contents

\* Get of the ConfigMap.
LEMMA CmGetKeeps == ASSUME RingInv, NEW a \in Actors, CmGet(a) PROVE RingInv'
  <1>1. /\ stage[a] = "save"
        /\ seen' = [seen EXCEPT ![a] = version]
        /\ read' = [read EXCEPT ![a] = stored]
        /\ stage' = [stage EXCEPT ![a] = "write"]
        /\ UNCHANGED <<ring, item, snap, todo, stored, version, inode, tmp, clock, expired, log, overlap, kept, crowded>>
    BY DEF CmGet, history
  <1>2. TypeOK
    BY DEF RingInv
  <1>3. /\ stage' \in [Actors -> Stages] /\ seen' \in [Actors -> Nat]
        /\ read' \in [Actors -> [Keys -> Seq(Item) \cup {Torn}] \cup {None}]
    BY <1>1, <1>2 DEF TypeOK, Stages
  <1>4. TypeOK'
    BY <1>1, <1>2, <1>3 DEF TypeOK
  <1>5. \A b \in Actors : b # a => stage'[b] = stage[b]
    BY <1>1, <1>2 DEF TypeOK
  <1>6. stage'[a] = "write"
    BY <1>1, <1>2 DEF TypeOK
  <1>7. \A k \in Keys : stored'[k] \in Rings(log[k]) \cup {Torn} /\ tmp'[k] \in Rings(log[k]) \cup {Torn}
    BY <1>1, RingsAreSequences
  <1> QED BY <1>1, <1>4, <1>5, <1>6, <1>7, SaveKeeps

\* Update of the ConfigMap: the other key is written back as it is stored.
LEMMA CmWriteKeeps == ASSUME IInv, RingInv, NEW a \in Actors, CmWrite(a) PROVE RingInv'
  <1>1. /\ Backend = "configmap" /\ stage[a] = "write" /\ inode' = inode /\ tmp' = tmp
        /\ IF Conflict(a)
           THEN Answer(a, FALSE) /\ UNCHANGED <<stored, version>>
           ELSE /\ stored' = [read[a] EXCEPT ![Key(a)] = snap[a]]
                /\ version' = version + 1 /\ Answer(a, TRUE)
    BY DEF CmWrite
  <1>2. stored \in [Keys -> Seq(Item) \cup {Torn}] /\ tmp \in [Keys -> Seq(Item) \cup {Torn}]
        /\ version \in Nat /\ inode \in [Keys -> [tmp : Nat, path : Nat]]
    BY DEF RingInv, TypeOK
  <1>3. \A k \in Keys : tmp'[k] \in Rings(log[k]) \cup {Torn}
    BY <1>1, RingsAreSequences
  <1>4. CASE Conflict(a)
    <2>1. \A k \in Keys : stored'[k] \in Rings(log[k]) \cup {Torn}
      BY <1>1, <1>4, RingsAreSequences
    <2>2. stored' = [k \in Keys |-> stored'[k]] /\ tmp' = [k \in Keys |-> tmp'[k]]
      BY <1>1, <1>2, <1>4
    <2> QED BY <1>1, <1>2, <1>3, <1>4, <2>1, <2>2, AnswerKeeps
  <1>5. CASE ~Conflict(a)
    <2>1. read[a] = stored
      BY <1>1, <1>5 DEF IInv, FreshReads, Conflict
    <2>2. stored' = [stored EXCEPT ![Key(a)] = snap[a]] /\ Key(a) \in Keys
      BY <1>1, <1>5, <2>1, KeyOf
    <2>3. \A k \in Keys : stored'[k] = IF k = Key(a) THEN snap[a] ELSE stored[k]
      BY <1>2, <2>2
    <2>4. \A k \in Keys : stored'[k] \in Rings(log[k]) \cup {Torn}
      BY <2>3, RingsAreSequences
    <2>5. stored' = [k \in Keys |-> stored'[k]]
      BY <1>2, <2>2
    <2>6. tmp' = [k \in Keys |-> tmp'[k]] /\ version' \in Nat
      BY <1>1, <1>2, <1>5
    <2> QED BY <1>1, <1>2, <1>3, <1>5, <2>4, <2>5, <2>6, AnswerKeeps
  <1> QED BY <1>4, <1>5

\* The temporary file is opened and cut.
LEMMA FileOpenKeeps == ASSUME RingInv, NEW a \in Actors, FileOpen(a) PROVE RingInv'
  <1> DEFINE k == Key(a)
  <1>1. /\ stage[a] = "save"
        /\ inode' = IF inode[k].tmp # 0 THEN inode ELSE [inode EXCEPT ![k].tmp = inode[k].path + 1]
        /\ seen' = [seen EXCEPT ![a] = inode'[k].tmp]
        /\ tmp' = [tmp EXCEPT ![k] = <<>>]
        /\ stage' = [stage EXCEPT ![a] = "write"]
        /\ UNCHANGED <<ring, item, snap, todo, stored, version, read, clock, expired, log, overlap, kept, crowded>>
    BY DEF FileOpen, history, Truncated
  <1>2. TypeOK /\ k \in Keys
    BY KeyOf DEF RingInv
  <1> HIDE DEF k
  <1>4. inode' \in [Keys -> [tmp : Nat, path : Nat]]
    <2> DEFINE I == [tmp : Nat, path : Nat]
               e == [inode[k] EXCEPT !.tmp = inode[k].path + 1]
    <2>1. inode \in [Keys -> I]
      BY <1>2 DEF TypeOK
    <2>2. e \in I
      <3>1. inode[k] \in I
        BY <1>2, <2>1
      <3> QED BY <3>1
    <2>3. inode' = inode \/ inode' = [inode EXCEPT ![k] = e]
      BY <1>1
    <2> HIDE DEF I, e
    <2>4. inode' \in [Keys -> I]
      BY <1>2, <2>1, <2>2, <2>3
    <2> QED BY <2>4 DEF I
  <1>5. /\ stage' \in [Actors -> Stages] /\ seen' \in [Actors -> Nat]
        /\ tmp' \in [Keys -> Seq(Item) \cup {Torn}]
    <2>1. inode'[k].tmp \in Nat
      BY <1>2, <1>4
    <2>2. stage \in [Actors -> Stages] /\ seen \in [Actors -> Nat] /\ tmp \in [Keys -> Seq(Item) \cup {Torn}]
      BY <1>2 DEF TypeOK
    <2>3. tmp' \in [Keys -> Seq(Item) \cup {Torn}]
      <3>1. <<>> \in Seq(Item)
        OBVIOUS
      <3> QED BY <1>1, <2>2, <3>1
    <2> QED BY <1>1, <2>1, <2>2, <2>3 DEF Stages
  <1>6. TypeOK'
    BY <1>1, <1>2, <1>4, <1>5 DEF TypeOK
  <1>7. stage'[a] = "write" /\ \A b \in Actors : b # a => stage'[b] = stage[b]
    BY <1>1, <1>2 DEF TypeOK
  <1>8. \A j \in Keys : stored'[j] \in Rings(log[j]) \cup {Torn} /\ tmp'[j] \in Rings(log[j]) \cup {Torn}
    <2>1. \A j \in Keys : tmp'[j] \in {tmp[j], <<>>}
      BY <1>1, <1>2 DEF TypeOK
    <2> QED BY <1>1, <2>1, RingsAreSequences
  <1> QED BY <1>1, <1>6, <1>7, <1>8, SaveKeeps

\* The temporary file, or by accident the file, is written.
LEMMA FileWriteKeeps == ASSUME RingInv, NEW a \in Actors, FileWrite(a) PROVE RingInv'
  <1> DEFINE k == Key(a)
  <1>1. /\ stage[a] = "write" /\ stage' = [stage EXCEPT ![a] = "rename"]
        /\ UNCHANGED <<ring, item, snap, todo, version, seen, read, inode, clock, expired, log, overlap, kept, crowded>>
        /\ \/ tmp' = tmp
           \/ \E c \in {snap[a], Torn} : tmp' = [tmp EXCEPT ![k] = c]
        /\ \/ stored' = stored
           \/ \E c \in {snap[a], Torn} : stored' = [stored EXCEPT ![k] = c]
    <2>1. \A old : Written(old, snap[a]) \subseteq {snap[a], Torn}
      BY DEF Written
    <2> QED BY <2>1 DEF FileWrite, history
  <1>2. TypeOK /\ k \in Keys /\ snap[a] \in Rings(log[k])
    BY KeyOf, RingsAreSequences DEF RingInv
  <1> HIDE DEF k
  <1>3. \A j \in Keys : tmp'[j] \in {tmp[j], Torn} \/ (j = k /\ tmp'[j] = snap[a])
    BY <1>1, <1>2 DEF TypeOK
  <1>4. \A j \in Keys : stored'[j] \in {stored[j], Torn} \/ (j = k /\ stored'[j] = snap[a])
    BY <1>1, <1>2 DEF TypeOK
  <1>5. \A j \in Keys : stored'[j] \in Rings(log[j]) \cup {Torn} /\ tmp'[j] \in Rings(log[j]) \cup {Torn}
    BY <1>2, <1>3, <1>4, RingsAreSequences
  <1>6. TypeOK'
    <2>1. \A j \in Keys : stored'[j] \in Seq(Item) \cup {Torn} /\ tmp'[j] \in Seq(Item) \cup {Torn}
      BY <1>5, RingsAreSequences
    <2>2. stored' = [j \in Keys |-> stored'[j]] /\ tmp' = [j \in Keys |-> tmp'[j]]
      BY <1>1, <1>2 DEF TypeOK
    <2>3. stored' \in [Keys -> Seq(Item) \cup {Torn}]
      BY <2>1, <2>2
    <2>4. tmp' \in [Keys -> Seq(Item) \cup {Torn}]
      BY <2>1, <2>2
    <2>5. stage' \in [Actors -> Stages]
      BY <1>1, <1>2 DEF TypeOK, Stages
    <2> QED BY <1>1, <1>2, <2>3, <2>4, <2>5 DEF TypeOK
  <1>7. stage'[a] = "rename" /\ \A b \in Actors : b # a => stage'[b] = stage[b]
    BY <1>1, <1>2 DEF TypeOK
  <1> QED BY <1>1, <1>5, <1>6, <1>7, SaveKeeps

\* The temporary file takes the place of the file.
LEMMA FileRenameKeeps == ASSUME RingInv, NEW a \in Actors, FileRename(a) PROVE RingInv'
  <1> DEFINE k == Key(a)
  <1>1. /\ stage[a] = "rename" /\ version' = version
        /\ \/ Answer(a, FALSE) /\ UNCHANGED <<stored, inode, tmp>>
           \/ /\ stored' = [stored EXCEPT ![k] = tmp[k]]
              /\ inode' = [inode EXCEPT ![k] = [tmp |-> 0, path |-> inode[k].tmp]]
              /\ tmp' = [tmp EXCEPT ![k] = <<>>]
              /\ Answer(a, TRUE)
    BY DEF FileRename
  <1>2. stored \in [Keys -> Seq(Item) \cup {Torn}] /\ tmp \in [Keys -> Seq(Item) \cup {Torn}]
        /\ version \in Nat /\ inode \in [Keys -> [tmp : Nat, path : Nat]] /\ k \in Keys
    BY KeyOf DEF RingInv, TypeOK
  <1> HIDE DEF k
  <1>3. \A j \in Keys : stored'[j] \in {stored[j], tmp[j]} /\ tmp'[j] \in {tmp[j], <<>>}
    BY ZenonT(60), <1>1, <1>2
  <1>4. \A j \in Keys : stored'[j] \in Rings(log[j]) \cup {Torn} /\ tmp'[j] \in Rings(log[j]) \cup {Torn}
    BY <1>3, RingsAreSequences
  <1>5. stored' = [j \in Keys |-> stored'[j]] /\ tmp' = [j \in Keys |-> tmp'[j]]
    BY <1>1, <1>2
  <1>6. inode' \in [Keys -> [tmp : Nat, path : Nat]]
    <2> DEFINE I == [tmp : Nat, path : Nat]
               e == [tmp |-> 0, path |-> inode[k].tmp]
    <2>1. inode \in [Keys -> I]
      BY <1>2
    <2>2. e \in I
      <3>1. inode[k] \in I
        BY <1>2, <2>1
      <3> QED BY <3>1
    <2>3. inode' = inode \/ inode' = [inode EXCEPT ![k] = e]
      BY <1>1
    <2> HIDE DEF I, e
    <2>4. inode' \in [Keys -> I]
      BY <1>2, <2>1, <2>2, <2>3
    <2> QED BY <2>4 DEF I
  <1>7. PICK s \in BOOLEAN : Answer(a, s)
    BY <1>1
  <1> QED BY <1>1, <1>2, <1>4, <1>5, <1>6, <1>7, AnswerKeeps

\* What a restart loads are rings, or it begins with empty ones.
LEMMA RestartRings ==
  ASSUME RingInv, Restart
  PROVE  \A k \in Keys : ring'[k] = <<>> \/ (stored[k] \in Rings(log[k]) /\ ring'[k] = Pruned(k, stored[k]))
  <1>1. PICK h \in Loads("handoffs"), o \in Loads("outcomes") :
            ring' = [k \in Keys |-> IF Fails(k, h, o) THEN <<>>
                                     ELSE Pruned(k, IF k = "handoffs" THEN h ELSE o)]
    BY DEF Restart
  <1>2. /\ h # Torn => h = stored["handoffs"] /\ stored["handoffs"] # Torn
        /\ o # Torn => o = stored["outcomes"] /\ stored["outcomes"] # Torn
    BY DEF Loads
  <1>3. \A k \in Keys : stored[k] \in Rings(log[k]) \cup {Torn}
    BY RingsAreSequences
  <1>4. \A k \in Keys : k = "handoffs" \/ k = "outcomes"
    BY DEF Keys
  <1>5. ASSUME NEW k \in Keys
        PROVE  ring'[k] = <<>> \/ (stored[k] \in Rings(log[k]) /\ ring'[k] = Pruned(k, stored[k]))
    <2>1. CASE Fails(k, h, o)
      BY <1>1, <2>1
    <2>2. CASE ~Fails(k, h, o)
      <3>1. ring'[k] = Pruned(k, IF k = "handoffs" THEN h ELSE o)
        BY <1>1, <2>2
      <3>2. (IF k = "handoffs" THEN h ELSE o) = stored[k] /\ stored[k] # Torn
        BY <1>2, <1>4, <2>2 DEF Fails
      <3>3. ring'[k] = Pruned(k, stored[k])
        BY <3>1, <3>2
      <3> QED BY <1>3, <3>2, <3>3
    <2> QED BY <2>1, <2>2
  <1> QED BY <1>5

\* A restart begins with what is stored, or with nothing.
LEMMA RestartKeeps == ASSUME RingInv, Restart PROVE RingInv'
  <1>1. /\ stage' = [a \in Actors |-> "idle"] /\ item' = [a \in Actors |-> None]
        /\ snap' = [a \in Actors |-> <<>>] /\ seen' = [a \in Actors |-> 0]
        /\ read' = [a \in Actors |-> None] /\ todo' = {} /\ overlap' = {}
        /\ UNCHANGED <<stored, version, inode, tmp, clock, expired, log, crowded>>
        /\ ring' = [k \in Keys |-> ring'[k]]
        /\ kept' = [k \in Keys |-> kept'[k]]
        /\ \A k \in Keys : kept'[k] = {} \/ kept'[k] = kept[k]
    BY DEF Restart
  <1>2. TypeOK /\ \A k \in Keys : log[k] \in SUBSET Item /\ IsFiniteSet(log[k])
    BY DEF RingInv, Numbered
  <1>3. \A k \in Keys : ring'[k] \in Rings(log[k])
    BY <1>2, RestartRings, PrunedIs, RingsAreSequences
  <1>4. TypeOK'
    <2>1. ring' \in [Keys -> Seq(Item)]
      <3>1. \A k \in Keys : ring'[k] \in Seq(Item)
        BY <1>3, RingsAreSequences
      <3> QED BY <1>1, <3>1
    <2>2. stage' \in [Actors -> Stages] /\ item' \in [Actors -> Item \cup {None}] /\ seen' \in [Actors -> Nat]
      BY <1>1 DEF Stages
    <2>3. snap' \in [Actors -> Seq(Item)]
      BY <1>1
    <2>4. read' \in [Actors -> [Keys -> Seq(Item) \cup {Torn}] \cup {None}]
      BY <1>1
    <2>5. kept' \in [Keys -> SUBSET Item]
      <3>1. \A k \in Keys : kept'[k] \in SUBSET Item
        BY <1>1, <1>2 DEF TypeOK
      <3> QED BY <1>1, <3>1
    <2> QED BY <1>1, <1>2, <2>1, <2>2, <2>3, <2>4, <2>5 DEF TypeOK
  <1>5. Numbered' /\ TicksHaveOrigin' /\ Todo'
    BY <1>1 DEF RingInv, Numbered, AllItems, TicksHaveOrigin, Todo
  <1>6. Contents'
    <2>1. \A a \in Actors : snap'[a] \in Rings(log[Key(a)])
      BY <1>1, KeyOf, RingsAreSequences
    <2> QED BY <1>1, <1>3, <2>1, RingsAreSequences DEF Contents
  <1>7. Working'
    BY <1>1 DEF Working
  <1> QED BY <1>4, <1>5, <1>6, <1>7 DEF RingInv

\* The lemma the ring's part of RingsSound rests on.
LEMMA StepRings == ASSUME IInv, RingInv, [Next]_vars PROVE RingInv'
  <1>1. CASE \E a \in Actors : Save(a)
    BY <1>1, CmGetKeeps, CmWriteKeeps, FileOpenKeeps, FileWriteKeeps, FileRenameKeeps, FailKeeps DEF Save
  <1>2. CASE \E t \in Tickers : Tick(t)
    BY <1>2, TickStartKeeps, TickEdgeKeeps, TickProbedKeeps DEF Tick
  <1>3. CASE UNCHANGED vars
    <2>1. UNCHANGED <<ring, snap, store, history, stage, item, todo, clock, expired>>
      BY <1>3 DEF vars, memory
    <2>2. Working' /\ Todo'
      <3>1. log' = log
        BY <2>1 DEF history
      <3> QED BY <2>1, <3>1 DEF RingInv, Working, HasOrigin, Origin, Todo, OnEdge
    <2> QED BY <2>1, <2>2, RequestKeeps DEF RingInv, TypeOK
  <1> QED BY <1>1, <1>2, <1>3, HandleKeeps, AddKeeps, ExpireKeeps, RestartKeeps DEF Next

(***************************************************************************)
(* The store can be read.                                                  *)
(***************************************************************************)
\* The stages of a save.
Busy == {"save", "write", "rename"}

\* Who has met no other save of its key is alone with it; who has, is still saving.
Solo ==
    /\ \A k \in Keys : \A a \in Saving(k) : a \notin overlap => Saving(k) = {a}
    /\ \A a \in overlap : stage[a] \in Busy

\* Who has the temporary file open, and to itself, is the one that filled it.
Filing(a) ==
    /\ stage[a] = "write" => seen[a] = inode[Key(a)].tmp /\ inode[Key(a)].tmp # 0 /\ tmp[Key(a)] = <<>>
    /\ stage[a] = "rename" => seen[a] = inode[Key(a)].tmp /\ inode[Key(a)].tmp # 0 /\ tmp[Key(a)] = snap[a]

\* The temporary file is not the file.
Younger(k) == inode[k].tmp = 0 \/ inode[k].tmp = inode[k].path + 1

\* What is known of the files.
FilesSound ==
    /\ \A k \in Keys : Younger(k)
    /\ \A a \in Actors : a \notin overlap => Filing(a)
    /\ \A k \in Keys : k \notin crowded => stored[k] # Torn /\ Saving(k) \cap overlap = {}

\* What is known of the ConfigMap.
MapSound ==
    /\ \A k \in Keys : stored[k] # Torn
    /\ \A a \in Actors : stage[a] # "rename"
    /\ crowded = {}

\* The invariant about the store.
StoreInv ==
    /\ Solo
    /\ Backend = "configmap" => MapSound
    /\ Backend = "file" => FilesSound

\* The files do not exist at first.
LEMMA InitStore == Init => StoreInv
  <1> SUFFICES ASSUME Init PROVE StoreInv
    OBVIOUS
  <1>1. /\ stage = [a \in Actors |-> "idle"] /\ stored = [k \in Keys |-> <<>>]
        /\ inode = [k \in Keys |-> [tmp |-> 0, path |-> 0]] /\ overlap = {} /\ crowded = {}
    BY DEF Init
  <1>2. \A k \in Keys : stored[k] # Torn
    <2>1. <<>> \in Seq(Item)
      OBVIOUS
    <2> QED BY <1>1, <2>1, CoordinatorAssumption
  <1>3. \A k \in Keys : Younger(k)
    BY <1>1 DEF Younger
  <1>4. \A a \in Actors : Filing(a) /\ stage[a] # "rename"
    BY <1>1 DEF Filing
  <1>5. Solo
    BY <1>1 DEF Solo, Saving
  <1> QED BY <1>1, <1>2, <1>3, <1>4, <1>5 DEF StoreInv, MapSound, FilesSound

\* A step that leaves the store, and those who save, as they are.
LEMMA StoreRests ==
  ASSUME StoreInv, UNCHANGED <<stored, inode, tmp, crowded>>,
         overlap' = overlap \/ (overlap' = {} /\ \A a \in Actors : stage'[a] \notin Busy),
         \A a \in Actors : stage'[a] \in Busy =>
            stage'[a] = stage[a] /\ seen'[a] = seen[a] /\ snap'[a] = snap[a],
         \A a \in overlap' : stage'[a] = stage[a]
  PROVE  StoreInv'
  <1>1. \A k \in Keys : Saving(k)' \subseteq Saving(k)
    BY DEF Saving, Busy
  <1>2. overlap' \subseteq overlap
    OBVIOUS
  <1>3. Solo'
    <2>1. ASSUME NEW k \in Keys, NEW a \in Saving(k)', a \notin overlap' PROVE Saving(k)' = {a}
      <3>1. a \in Saving(k) /\ a \in Actors /\ stage'[a] \in Busy
        BY <1>1, <2>1 DEF Saving, Busy
      <3>2. a \notin overlap
        BY <2>1, <3>1
      <3> QED BY <1>1, <2>1, <3>1, <3>2 DEF StoreInv, Solo
    <2>2. \A a \in overlap' : stage'[a] \in Busy
      BY <1>2 DEF StoreInv, Solo
    <2> QED BY <2>1, <2>2 DEF Solo
  <1>4. ASSUME Backend = "configmap" PROVE MapSound'
    <2>1. MapSound
      BY <1>4 DEF StoreInv
    <2> QED BY <2>1 DEF MapSound, Busy
  <1>5. ASSUME Backend = "file" PROVE FilesSound'
    <2>1. FilesSound
      BY <1>5 DEF StoreInv
    <2>2. \A k \in Keys : Younger(k)'
      BY <2>1 DEF FilesSound, Younger
    <2>3. ASSUME NEW a \in Actors, a \notin overlap' PROVE Filing(a)'
      <3>1. CASE stage'[a] \notin Busy
        BY <3>1 DEF Filing, Busy
      <3>2. CASE stage'[a] \in Busy
        <4>1. a \notin overlap
          BY <2>3, <3>2
        <4> QED BY <2>1, <3>2, <4>1 DEF FilesSound, Filing
      <3> QED BY <3>1, <3>2
    <2>4. \A k \in Keys : k \notin crowded' => stored'[k] # Torn /\ Saving(k)' \cap overlap' = {}
      BY <1>1, <1>2, <2>1 DEF FilesSound
    <2> QED BY <2>2, <2>3, <2>4 DEF FilesSound
  <1> QED BY <1>3, <1>4, <1>5 DEF StoreInv

\* Requests up to the mutex and ticks leave the store alone.
LEMMA RequestStore ==
  ASSUME RingInv, StoreInv,
         \/ \E a \in Senders : Handle(a)
         \/ \E a \in Reporters : Outcome(a)
         \/ \E t \in Tickers : Tick(t)
         \/ Expire
         \/ UNCHANGED vars
  PROVE  StoreInv'
  <1>1. stage \in [Actors -> Stages]
    BY DEF RingInv, TypeOK
  <1>2. /\ UNCHANGED <<store, history, snap>>
        /\ \A a \in Actors : stage'[a] = stage[a] \/ (stage[a] \notin Busy /\ stage'[a] \notin Busy)
    <2>1. ASSUME NEW a \in Actors, stage[a] \in {"idle", "probe"}, NEW s \in {"probe", "add"},
                 stage' = [stage EXCEPT ![a] = s]
          PROVE  \A b \in Actors : stage'[b] = stage[b] \/ (stage[b] \notin Busy /\ stage'[b] \notin Busy)
      BY <1>1, <2>1 DEF Busy
    <2>2. CASE \E a \in Senders : Handle(a)
      <3>1. PICK a \in Senders, e \in Edges \cup {None} : Handoff(a, e)
        BY <2>2 DEF Handle
      <3>2. a \in Actors
        BY DEF Actors
      <3> QED BY <2>1, <3>1, <3>2 DEF Handoff
    <2>3. CASE \E a \in Reporters : Outcome(a)
      <3>1. PICK a \in Reporters : Outcome(a)
        BY <2>3
      <3>2. a \in Actors
        BY DEF Actors
      <3> QED BY <2>1, <3>1, <3>2 DEF Outcome
    <2>4. ASSUME NEW t \in Tickers, Tick(t)
          PROVE  /\ UNCHANGED <<store, history, snap>>
                 /\ \A a \in Actors : stage'[a] = stage[a] \/ (stage[a] \notin Busy /\ stage'[a] \notin Busy)
      <3>1. t \in Actors
        BY DEF Actors
      <3>2. CASE TickStart(t)
        BY <3>2 DEF TickStart
      <3>3. CASE TickEdge(t)
        BY <2>1, <3>1, <3>3 DEF TickEdge
      <3>4. CASE TickProbed(t)
        BY <2>1, <3>1, <3>4 DEF TickProbed
      <3> QED BY <2>4, <3>2, <3>3, <3>4 DEF Tick
    <2>5. CASE Expire
      BY <2>5 DEF Expire, memory
    <2>6. CASE UNCHANGED vars
      BY <2>6 DEF vars, memory
    <2> QED BY <2>2, <2>3, <2>4, <2>5, <2>6
  <1>3. UNCHANGED <<stored, inode, tmp, seen, snap, overlap, crowded>>
    BY <1>2 DEF store, history
  <1>4. \A a \in overlap' : a \in Actors /\ stage[a] \in Busy
    BY <1>3 DEF RingInv, TypeOK, StoreInv, Solo
  <1> QED BY <1>2, <1>3, <1>4, StoreRests

\* Who begins to save while another save of its ring is under way overlaps with it.
LEMMA AddStore == ASSUME RingInv, StoreInv, NEW a \in Actors, Add(a) PROVE StoreInv'
  <1> DEFINE k == Key(a)
  <1>1. /\ stage[a] = "add" /\ stage' = [stage EXCEPT ![a] = "save"]
        /\ overlap' = IF Saving(k) = {} THEN overlap ELSE overlap \cup Saving(k) \cup {a}
        /\ crowded' = IF Crowds(k) THEN crowded \cup {k} ELSE crowded
        /\ UNCHANGED <<stored, inode, tmp, seen>>
        /\ k \in Keys
    BY KeyOf DEF Add, store
  <1>2. \A b \in Actors : b # a => snap'[b] = snap[b]
    BY DEF Add, RingInv, TypeOK
  <1>3. stage \in [Actors -> Stages] /\ overlap \subseteq Actors
    BY DEF RingInv, TypeOK
  <1>4. stage'[a] = "save" /\ \A b \in Actors : b # a => stage'[b] = stage[b]
    BY <1>1, <1>3
  <1>5. \A j \in Keys : Saving(j)' = IF j = k THEN Saving(j) \cup {a} ELSE Saving(j)
    BY <1>1, <1>4 DEF Saving
  <1>6. a \notin overlap /\ a \notin Saving(k)
    BY <1>1 DEF StoreInv, Solo, Busy, Saving
  <1> HIDE DEF k
  <1>7. Solo'
    <2>1. ASSUME NEW j \in Keys, NEW b \in Saving(j)', b \notin overlap' PROVE Saving(j)' = {b}
      <3>1. CASE j = k
        <4>1. Saving(k) = {}
          BY <1>1, <1>5, <2>1, <3>1
        <4> QED BY <1>5, <2>1, <3>1, <4>1
      <3>2. CASE j # k
        <4>1. b \in Saving(j) /\ b \notin overlap
          BY <1>1, <1>5, <2>1, <3>2
        <4> QED BY <1>5, <3>2, <4>1 DEF StoreInv, Solo
      <3> QED BY <3>1, <3>2
    <2>2. \A b \in overlap' : stage'[b] \in Busy
      <3>1. \A b \in overlap \cup Saving(k) : b \in Actors /\ stage[b] \in Busy
        BY <1>3 DEF StoreInv, Solo, Saving, Busy
      <3> QED BY <1>1, <1>4, <1>6, <3>1 DEF Busy
    <2> QED BY <2>1, <2>2 DEF Solo
  <1>8. ASSUME Backend = "configmap" PROVE MapSound'
    <2>1. MapSound /\ ~Crowds(k)
      BY <1>8 DEF StoreInv, Crowds
    <2> QED BY <1>1, <1>4, <2>1 DEF MapSound
  <1>9. ASSUME Backend = "file" PROVE FilesSound'
    <2>1. FilesSound
      BY <1>9 DEF StoreInv
    <2>2. \A j \in Keys : Younger(j)'
      BY <1>1, <2>1 DEF FilesSound, Younger
    <2>3. ASSUME NEW b \in Actors, b \notin overlap' PROVE Filing(b)'
      <3>1. CASE b = a
        BY <1>4, <3>1 DEF Filing
      <3>2. CASE b # a
        <4>1. b \notin overlap
          BY <1>1, <2>3
        <4> QED BY <1>1, <1>2, <1>4, <2>1, <3>2, <4>1 DEF FilesSound, Filing
      <3> QED BY <3>1, <3>2
    <2>4. ASSUME NEW j \in Keys, j \notin crowded' PROVE stored'[j] # Torn /\ Saving(j)' \cap overlap' = {}
      <3>1. j \notin crowded
        BY <1>1, <2>4
      <3>2. stored[j] # Torn /\ Saving(j) \cap overlap = {}
        BY <2>1, <3>1 DEF FilesSound
      <3>3. CASE j = k
        <4>1. Saving(k) = {}
          BY <1>1, <1>9, <2>4, <3>3 DEF Crowds
        <4> QED BY <1>1, <1>5, <1>6, <3>2, <3>3, <4>1
      <3>4. CASE j # k
        <4>1. Saving(j) \cap Saving(k) = {} /\ a \notin Saving(j)
          BY <3>4 DEF Saving, k
        <4> QED BY <1>1, <1>5, <3>2, <3>4, <4>1
      <3> QED BY <3>3, <3>4
    <2> QED BY <2>2, <2>3, <2>4 DEF FilesSound
  <1> QED BY <1>7, <1>8, <1>9 DEF StoreInv

\* After an answer the others overlap, or do not, as before.
LEMMA AnswerSolo ==
  ASSUME RingInv, StoreInv, NEW a \in Actors, NEW s \in BOOLEAN, stage[a] \in Busy, Answer(a, s)
  PROVE  /\ Solo' /\ stage'[a] = "idle" /\ overlap' = overlap \ {a}
         /\ \A k \in Keys : Saving(k)' = Saving(k) \ {a}
         /\ \A b \in Actors : b # a => stage'[b] = stage[b] /\ snap'[b] = snap[b] /\ seen'[b] = seen[b]
         /\ crowded' = IF s /\ a \notin overlap THEN crowded \ {Key(a)} ELSE crowded
  <1>1. /\ overlap' = overlap \ {a} /\ stage'[a] = "idle"
        /\ \A b \in Actors : b # a => stage'[b] = stage[b] /\ snap'[b] = snap[b] /\ seen'[b] = seen[b]
        /\ crowded' = IF s /\ a \notin overlap THEN crowded \ {Key(a)} ELSE crowded
    BY AnswerIs DEF Busy
  <1>2. \A k \in Keys : Saving(k)' = Saving(k) \ {a}
    BY <1>1 DEF Saving
  <1>3. ASSUME NEW k \in Keys, NEW b \in Saving(k)', b \notin overlap' PROVE Saving(k)' = {b}
    BY <1>1, <1>2, <1>3 DEF StoreInv, Solo
  <1>4. \A b \in overlap' : stage'[b] \in Busy
    BY <1>1 DEF StoreInv, Solo, RingInv, TypeOK
  <1> QED BY <1>1, <1>2, <1>3, <1>4 DEF Solo

\* A ConfigMap holds what a saver put there.
LEMMA MapAnswer ==
  ASSUME RingInv, StoreInv, Backend = "configmap",
         NEW a \in Actors, NEW s \in BOOLEAN, stage[a] \in Busy, Answer(a, s),
         \A k \in Keys : stored'[k] # Torn
  PROVE  StoreInv'
  <1>1. MapSound /\ Backend # "file"
    BY DEF StoreInv
  <1>2. MapSound'
    BY <1>1, AnswerSolo DEF MapSound
  <1> QED BY <1>1, <1>2, AnswerSolo DEF StoreInv

\* Get and Update of the ConfigMap.
LEMMA MapStore ==
  ASSUME IInv, RingInv, StoreInv, NEW a \in Actors, CmGet(a) \/ CmWrite(a) PROVE StoreInv'
  <1>0. Backend = "configmap" /\ Backend # "file" /\ MapSound
    BY DEF CmGet, CmWrite, StoreInv
  <1>1. stage \in [Actors -> Stages] /\ stored \in [Keys -> Seq(Item) \cup {Torn}] /\ snap[a] \in Seq(Item)
        /\ snap[a] # Torn
    BY CoordinatorAssumption DEF RingInv, TypeOK
  <1>2. CASE CmGet(a)
    <2>1. /\ stored' = stored /\ stage[a] = "save" /\ stage' = [stage EXCEPT ![a] = "write"]
          /\ UNCHANGED <<overlap, crowded>>
      BY <1>2 DEF CmGet, history
    <2>2. \A b \in Actors : stage'[b] \in Busy <=> stage[b] \in Busy
      BY <1>1, <2>1 DEF Busy
    <2>3. \A k \in Keys : Saving(k)' = Saving(k)
      BY <2>2 DEF Saving, Busy
    <2>4. Solo'
      BY <2>1, <2>2, <2>3 DEF StoreInv, Solo, RingInv, TypeOK
    <2>5. MapSound'
      BY <1>0, <1>1, <2>1 DEF MapSound
    <2> QED BY <1>0, <2>4, <2>5 DEF StoreInv
  <1>3. CASE CmWrite(a)
    <2>1. /\ stage[a] = "write"
          /\ IF Conflict(a)
             THEN Answer(a, FALSE) /\ UNCHANGED <<stored, version>>
             ELSE /\ stored' = [read[a] EXCEPT ![Key(a)] = snap[a]]
                  /\ Answer(a, TRUE)
      BY <1>3 DEF CmWrite
    <2>2. ~Conflict(a) => read[a] = stored
      BY <1>0, <2>1 DEF IInv, FreshReads, Conflict
    <2>3. \A k \in Keys : stored'[k] # Torn
      <3>1. \A k \in Keys : stored'[k] = stored[k] \/ stored'[k] = snap[a]
        BY <1>1, <2>1, <2>2
      <3> QED BY <1>0, <1>1, <3>1 DEF MapSound
    <2>4. PICK s \in BOOLEAN : Answer(a, s)
      BY <2>1
    <2> QED BY <1>0, <2>1, <2>3, <2>4, MapAnswer DEF Busy
  <1> QED BY <1>2, <1>3

\* What the others do with files of other keys, and those whose file is crowded, is
\* their own matter: a step of a save changes the files of one key.
LEMMA FileRests ==
  ASSUME RingInv, StoreInv, Backend = "file", NEW a \in Actors, stage[a] \in Busy,
         \A j \in Keys : j # Key(a) => inode'[j] = inode[j] /\ tmp'[j] = tmp[j],
         \A b \in Actors : b # a => stage'[b] = stage[b] /\ snap'[b] = snap[b] /\ seen'[b] = seen[b],
         overlap' \subseteq overlap, overlap \subseteq overlap' \cup {a},
         NEW b \in Actors, b # a, b \notin overlap'
  PROVE  Filing(b)'
  <1>1. b \notin overlap /\ Filing(b)
    BY DEF StoreInv, FilesSound
  <1>2. CASE stage[b] \notin Busy
    BY <1>2 DEF Filing, Busy
  <1>3. CASE stage[b] \in Busy
    <2>1. Key(b) \in Keys /\ b \in Saving(Key(b)) /\ a \in Saving(Key(a)) /\ Key(a) \in Keys
      BY <1>3, KeyOf DEF Saving, Busy
    <2>2. Key(b) # Key(a)
      BY <1>1, <2>1 DEF StoreInv, Solo
    <2> QED BY <1>1, <2>1, <2>2 DEF Filing
  <1> QED BY <1>2, <1>3

\* A step of a save that is not its last one.
LEMMA FileGoesOn ==
  ASSUME RingInv, StoreInv, Backend = "file", NEW a \in Actors, stage[a] \in Busy, NEW t \in Busy,
         stage' = [stage EXCEPT ![a] = t], UNCHANGED <<snap, overlap, crowded>>,
         \A j \in Keys : j # Key(a) => inode'[j] = inode[j] /\ tmp'[j] = tmp[j] /\ stored'[j] = stored[j],
         \A b \in Actors : b # a => seen'[b] = seen[b],
         \A j \in Keys : Younger(j)',
         a \notin overlap => Filing(a)' /\ stored' = stored
  PROVE  StoreInv'
  <1>1. stage \in [Actors -> Stages] /\ overlap \subseteq Actors
    BY DEF RingInv, TypeOK
  <1>2. stage'[a] = t /\ \A b \in Actors : b # a => stage'[b] = stage[b]
    BY <1>1
  <1>3. \A k \in Keys : Saving(k)' = Saving(k)
    BY <1>2 DEF Saving, Busy
  <1>4. Solo'
    BY <1>1, <1>2, <1>3 DEF StoreInv, Solo
  <1>5. \A b \in Actors : b \notin overlap' => Filing(b)'
    <2>1. ASSUME NEW b \in Actors, b # a, b \notin overlap' PROVE Filing(b)'
      BY <1>2, <2>1, FileRests
    <2> QED BY <2>1
  <1>6. ASSUME NEW k \in Keys, k \notin crowded' PROVE stored'[k] # Torn /\ Saving(k)' \cap overlap' = {}
    <2>1. stored[k] # Torn /\ Saving(k) \cap overlap = {}
      BY <1>6 DEF StoreInv, FilesSound
    <2>2. k = Key(a) => a \notin overlap
      BY <2>1 DEF Saving, Busy
    <2> QED BY <1>3, <2>1, <2>2
  <1>7. FilesSound'
    BY <1>5, <1>6 DEF FilesSound
  <1> QED BY <1>4, <1>7 DEF StoreInv

\* The temporary file is opened and cut.
LEMMA FileOpenStore ==
  ASSUME RingInv, StoreInv, NEW a \in Actors, FileOpen(a) PROVE StoreInv' /\ stored' = stored
  <1> DEFINE k == Key(a)
  <1>1. /\ Backend = "file" /\ stage[a] = "save"
        /\ inode' = IF inode[k].tmp # 0 THEN inode ELSE [inode EXCEPT ![k].tmp = inode[k].path + 1]
        /\ seen' = [seen EXCEPT ![a] = inode'[k].tmp]
        /\ tmp' = [tmp EXCEPT ![k] = <<>>]
        /\ stage' = [stage EXCEPT ![a] = "write"]
        /\ UNCHANGED <<snap, stored, overlap, crowded>>
    BY DEF FileOpen, history, Truncated
  <1>2. /\ stage \in [Actors -> Stages] /\ seen \in [Actors -> Nat] /\ k \in Keys
        /\ tmp \in [Keys -> Seq(Item) \cup {Torn}] /\ inode \in [Keys -> [tmp : Nat, path : Nat]]
    BY KeyOf DEF RingInv, TypeOK
  <1>3. \A j \in Keys : Younger(j)
    BY <1>1 DEF StoreInv, FilesSound
  <1> HIDE DEF k
  <1>4. /\ inode'[k].path = inode[k].path /\ inode'[k].tmp = inode[k].path + 1 /\ inode'[k].tmp # 0
        /\ \A j \in Keys : j # k => inode'[j] = inode[j] /\ tmp'[j] = tmp[j]
    <2>1. inode[k].path \in Nat /\ inode[k] \in [tmp : Nat, path : Nat]
      BY <1>2
    <2>2. CASE inode[k].tmp # 0
      BY <1>1, <1>2, <1>3, <2>1, <2>2 DEF Younger
    <2>3. CASE inode[k].tmp = 0
      <3>1. inode' = [inode EXCEPT ![k] = [inode[k] EXCEPT !.tmp = inode[k].path + 1]]
        BY <1>1, <2>3
      <3>2. inode'[k] = [inode[k] EXCEPT !.tmp = inode[k].path + 1]
        BY <1>2, <3>1
      <3>3. inode'[k].tmp = inode[k].path + 1 /\ inode'[k].path = inode[k].path
        BY <2>1, <3>2
      <3> QED BY <1>1, <1>2, <2>1, <3>1, <3>3
    <2> QED BY <2>2, <2>3
  <1>5. \A j \in Keys : Younger(j)'
    BY <1>3, <1>4 DEF Younger
  <1>6. Filing(a)'
    <2>1. stage'[a] = "write" /\ seen'[a] = inode'[k].tmp /\ tmp'[k] = <<>>
      BY <1>1, <1>2
    <2> QED BY <1>4, <2>1 DEF Filing, k
  <1>7. \A b \in Actors : b # a => seen'[b] = seen[b]
    BY <1>1, <1>2
  <1> QED BY <1>1, <1>4, <1>5, <1>6, <1>7, FileGoesOn DEF Busy, k

\* Who has the temporary file to itself finds it empty, and leaves the file alone.
LEMMA FileWriteStore ==
  ASSUME RingInv, StoreInv, NEW a \in Actors, FileWrite(a)
  PROVE  /\ StoreInv' /\ (a \notin overlap => stored' = stored)
         /\ \A j \in Keys : j # Key(a) => stored'[j] = stored[j]
  <1> DEFINE k == Key(a)
  <1>1. /\ Backend = "file" /\ stage[a] = "write" /\ stage' = [stage EXCEPT ![a] = "rename"]
        /\ UNCHANGED <<snap, inode, seen, overlap, crowded>>
    BY DEF FileWrite, history
  <1>2. /\ stage \in [Actors -> Stages] /\ k \in Keys /\ stored \in [Keys -> Seq(Item) \cup {Torn}]
        /\ tmp \in [Keys -> Seq(Item) \cup {Torn}] /\ inode \in [Keys -> [tmp : Nat, path : Nat]]
    BY KeyOf DEF RingInv, TypeOK
  <1>3. /\ tmp' = tmp \/ \E c : tmp' = [tmp EXCEPT ![k] = c]
        /\ stored' = stored \/ \E c : stored' = [stored EXCEPT ![k] = c]
    BY DEF FileWrite
  <1>4. \A j \in Keys : j # k => tmp'[j] = tmp[j] /\ stored'[j] = stored[j]
    BY <1>2, <1>3
  <1>5. ASSUME a \notin overlap PROVE Filing(a)' /\ stored' = stored
    <2>1. seen[a] = inode[k].tmp /\ inode[k].tmp # 0 /\ tmp[k] = <<>> /\ inode[k].tmp = inode[k].path + 1
      BY <1>1, <1>2, <1>5 DEF StoreInv, FilesSound, Filing, Younger
    <2>2. seen[a] # inode[k].path
      <3>1. inode[k].path \in Nat
        BY <1>2
      <3> QED BY <2>1, <3>1
    <2>3. stored' = stored /\ tmp' = [tmp EXCEPT ![k] = snap[a]]
      <3>1. Written(tmp[k], snap[a]) = {snap[a]}
        BY <2>1 DEF Written
      <3> QED BY <2>1, <2>2, <3>1 DEF FileWrite
    <2>4. stage'[a] = "rename" /\ tmp'[k] = snap[a]
      BY <1>1, <1>2, <2>3
    <2> QED BY <1>1, <2>1, <2>3, <2>4 DEF Filing
  <1>6. \A j \in Keys : Younger(j)'
    BY <1>1 DEF StoreInv, FilesSound, Younger
  <1> QED BY <1>1, <1>4, <1>5, <1>6, FileGoesOn DEF Busy

\* What is renamed is the snapshot in full, for who has the temporary file to itself.
LEMMA FileRenameStore ==
  ASSUME RingInv, StoreInv, NEW a \in Actors, FileRename(a)
  PROVE  /\ StoreInv'
         /\ a \notin overlap => stored' = [stored EXCEPT ![Key(a)] = snap[a]] /\ Answer(a, TRUE)
         /\ \A j \in Keys : j # Key(a) => stored'[j] = stored[j]
         /\ \E s \in BOOLEAN : Answer(a, s)
  <1> DEFINE k == Key(a)
  <1>1. /\ Backend = "file" /\ stage[a] = "rename" /\ Backend # "configmap" /\ stage[a] \in Busy
        /\ \/ inode[k].tmp = 0 /\ Answer(a, FALSE) /\ UNCHANGED <<stored, inode, tmp>>
           \/ /\ stored' = [stored EXCEPT ![k] = tmp[k]]
              /\ inode' = [inode EXCEPT ![k] = [tmp |-> 0, path |-> inode[k].tmp]]
              /\ tmp' = [tmp EXCEPT ![k] = <<>>]
              /\ Answer(a, TRUE)
    BY DEF FileRename, Busy
  <1>2. /\ tmp \in [Keys -> Seq(Item) \cup {Torn}] /\ inode \in [Keys -> [tmp : Nat, path : Nat]]
        /\ stored \in [Keys -> Seq(Item) \cup {Torn}] /\ snap[a] \in Seq(Item) /\ snap[a] # Torn /\ k \in Keys
    BY KeyOf, CoordinatorAssumption DEF RingInv, TypeOK
  <1>3. PICK s \in BOOLEAN : Answer(a, s)
    BY <1>1
  <1>4. /\ Solo' /\ stage'[a] = "idle" /\ overlap' = overlap \ {a}
        /\ \A j \in Keys : Saving(j)' = Saving(j) \ {a}
        /\ \A b \in Actors : b # a => stage'[b] = stage[b] /\ snap'[b] = snap[b] /\ seen'[b] = seen[b]
        /\ crowded' = IF s /\ a \notin overlap THEN crowded \ {Key(a)} ELSE crowded
    BY <1>1, <1>3, AnswerSolo
  <1> HIDE DEF k
  <1>5. ASSUME a \notin overlap PROVE stored' = [stored EXCEPT ![k] = snap[a]] /\ Answer(a, TRUE)
    <2>1. inode[k].tmp # 0 /\ tmp[k] = snap[a]
      BY <1>1, <1>5 DEF StoreInv, FilesSound, Filing, k
    <2> QED BY <1>1, <2>1
  <1>6. \A j \in Keys : j # k => stored'[j] = stored[j] /\ inode'[j] = inode[j] /\ tmp'[j] = tmp[j]
    BY <1>1, <1>2
  <1>7. \A j \in Keys : Younger(j)'
    <2>1. \A j \in Keys : Younger(j)
      BY <1>1 DEF StoreInv, FilesSound
    <2>2. inode'[k] = inode[k] \/ inode'[k].tmp = 0
      <3>1. \/ inode' = inode
            \/ inode' = [inode EXCEPT ![k] = [tmp |-> 0, path |-> inode[k].tmp]]
        BY <1>1
      <3>2. \/ inode' = inode
            \/ inode'[k] = [tmp |-> 0, path |-> inode[k].tmp]
        BY <1>2, <3>1
      <3> QED BY <3>2
    <2> QED BY <1>6, <2>1, <2>2 DEF Younger
  <1>8. ASSUME NEW b \in Actors, b \notin overlap' PROVE Filing(b)'
    <2>1. CASE b = a
      BY <1>4, <2>1 DEF Filing
    <2>2. CASE b # a
      BY <1>1, <1>4, <1>6, <1>8, <2>2, FileRests DEF k
    <2> QED BY <2>1, <2>2
  <1>9. ASSUME NEW j \in Keys, j \notin crowded' PROVE stored'[j] # Torn /\ Saving(j)' \cap overlap' = {}
    <2>1. CASE j \notin crowded
      <3>1. stored[j] # Torn /\ Saving(j) \cap overlap = {}
        BY <1>1, <2>1 DEF StoreInv, FilesSound
      <3>2. j = k => a \notin overlap
        BY <1>1, <3>1 DEF Saving, k
      <3>3. stored'[j] # Torn
        BY <1>2, <1>5, <1>6, <3>1, <3>2
      <3> QED BY <1>4, <3>1, <3>3
    <2>2. CASE j \in crowded
      <3>1. a \notin overlap /\ j = k
        BY <1>4, <1>9, <2>2 DEF k
      <3>2. stored'[j] # Torn
        BY <1>2, <1>5, <3>1
      <3>3. Saving(j) = {a}
        BY <1>1, <1>2, <3>1 DEF StoreInv, Solo, Saving, k
      <3> QED BY <1>4, <3>2, <3>3
    <2> QED BY <2>1, <2>2
  <1>10. FilesSound'
    BY <1>7, <1>8, <1>9 DEF FilesSound
  <1> QED BY <1>1, <1>3, <1>4, <1>5, <1>6, <1>10 DEF StoreInv, k

\* A save that fails leaves what it did to the temporary file.
LEMMA FailStore == ASSUME RingInv, StoreInv, NEW a \in Actors, SaveFails(a) PROVE StoreInv'
  <1>1. /\ stage[a] \in Busy /\ Answer(a, FALSE) /\ UNCHANGED <<stored, inode, tmp>>
    BY DEF SaveFails, Busy
  <1>2. /\ Solo' /\ stage'[a] = "idle" /\ overlap' = overlap \ {a}
        /\ \A j \in Keys : Saving(j)' = Saving(j) \ {a}
        /\ \A b \in Actors : b # a => stage'[b] = stage[b] /\ snap'[b] = snap[b] /\ seen'[b] = seen[b]
        /\ crowded' = crowded
    BY <1>1, AnswerSolo
  <1>3. ASSUME Backend = "configmap" PROVE MapSound'
    BY <1>1, <1>2, <1>3 DEF StoreInv, MapSound
  <1>4. ASSUME Backend = "file" PROVE FilesSound'
    <2>1. FilesSound
      BY <1>4 DEF StoreInv
    <2>2. \A j \in Keys : Younger(j)'
      BY <1>1, <2>1 DEF FilesSound, Younger
    <2>3. ASSUME NEW b \in Actors, b \notin overlap' PROVE Filing(b)'
      <3>1. CASE b = a
        BY <1>2, <3>1 DEF Filing
      <3>2. CASE b # a
        BY <1>1, <1>2, <1>4, <2>3, <3>2, FileRests
      <3> QED BY <3>1, <3>2
    <2>4. \A j \in Keys : j \notin crowded' => stored'[j] # Torn /\ Saving(j)' \cap overlap' = {}
      BY <1>1, <1>2, <2>1 DEF FilesSound
    <2> QED BY <2>2, <2>3, <2>4 DEF FilesSound
  <1> QED BY <1>2, <1>3, <1>4 DEF StoreInv

\* Every step leaves the store as the invariant says.
LEMMA StepStore == ASSUME IInv, RingInv, StoreInv, [Next]_vars PROVE StoreInv'
  <1>1. CASE Restart
    <2>1. stage' = [a \in Actors |-> "idle"] /\ overlap' = {} /\ UNCHANGED <<stored, inode, tmp, crowded>>
      BY <1>1 DEF Restart
    <2>2. \A a \in Actors : stage'[a] \notin Busy
      BY <2>1 DEF Busy
    <2> QED BY <2>1, <2>2, StoreRests
  <1>2. CASE \E a \in Actors : Save(a)
    BY <1>2, FailStore, MapStore, FileOpenStore, FileWriteStore, FileRenameStore DEF Save
  <1> QED BY <1>1, <1>2, RequestStore, AddStore DEF Next

\* All three together.
RingsAndStore == IInv /\ RingInv /\ StoreInv

\* The invariant of the two theorems that follow.
LEMMA AlwaysRingsAndStore == Spec => []RingsAndStore
  <1>1. Init => RingsAndStore
    BY InitIInv, InitRings, InitStore DEF RingsAndStore
  <1>2. RingsAndStore /\ [Next]_vars => RingsAndStore'
    <2> SUFFICES ASSUME RingsAndStore, [Next]_vars PROVE RingsAndStore'
      OBVIOUS
    <2>1. IInv'
      BY StepIInv DEF RingsAndStore
    <2> QED BY <2>1, StepRings, StepStore DEF RingsAndStore
  <1> QED BY <1>1, <1>2, PTL DEF Spec

\* Rings are in order.
LEMMA OrderIs == RingInv => InOrder
  BY RingIs DEF RingInv, Contents, InOrder

\* RingsSound, which a restart relies on: what is stored can be parsed, unless two
\* savers have met in its file; the rings are in order and ticks have an origin.  With
\* any number of savers, whoever dies or fails, and either store.
THEOREM RingsAreSound == Spec => []RingsSound
  <1>1. RingsAndStore => StoreReadable
    <2>1. Backend = "file" \/ Backend = "configmap"
      BY CoordinatorAssumption
    <2> QED BY <2>1 DEF RingsAndStore, StoreInv, MapSound, FilesSound, StoreReadable
  <1>2. RingsAndStore => RingsSound
    BY <1>1, OrderIs DEF RingsAndStore, RingInv, RingsSound
  <1> QED BY <1>2, AlwaysRingsAndStore, PTL

(***************************************************************************)
(* What was saved alone.                                                   *)
(***************************************************************************)
\* x is in s, or need not be anywhere any more.
Held(k, x, s) == x \in Elements(s) \/ Outlived(k, x)

\* An item being saved is in the snapshot and in the ring; one that was saved
\* alone is in the store, in the ring and in the snapshot of whoever saves next.
\* Of a crowded file nothing is said.
Alone ==
    \A k \in Keys :
        /\ \A a \in Saving(k) :
              /\ Held(k, item[a], snap[a]) /\ Held(k, item[a], ring[k])
              /\ a \notin overlap => Saving(k) = {a}
        /\ k \in crowded => kept[k] = {}
        /\ \A x \in kept[k] :
              /\ Held(k, x, stored[k]) /\ Held(k, x, ring[k])
              /\ \A a \in Saving(k) : Held(k, x, snap[a])

\* An item that is outlived stays so.
LEMMA OutlivedStays ==
  ASSUME RingInv, NEW k \in Keys, log[k] \subseteq log'[k], IsFiniteSet(log'[k]), expired \subseteq expired',
         NEW x, Outlived(k, x)
  PROVE  Outlived(k, x)'
  <1>1. /\ Cardinality(Newer(log[k], x)) <= Cardinality(Newer(log'[k], x))
        /\ Cardinality(Newer(log[k], x)) \in Nat /\ Cardinality(Newer(log'[k], x)) \in Nat
    BY OlderCount
  <1>2. Keep[k] \in Nat
    BY CoordinatorAssumption
  <1> QED BY <1>1, <1>2 DEF Outlived, Newer

\* What need not be held never has to be again.
LEMMA HeldStays ==
  ASSUME RingInv, NEW k \in Keys, log[k] \subseteq log'[k], IsFiniteSet(log'[k]), expired \subseteq expired',
         NEW x, NEW s, Held(k, x, s)
  PROVE  Held(k, x, s)'
  BY OutlivedStays DEF Held

\* Whoever is busy stays so with the same item and snapshot; what is stored changes,
\* if at all, where nothing is kept.
LEMMA AloneRests ==
  ASSUME RingInv, Alone, UNCHANGED <<ring, log, kept, overlap, crowded>>, expired \subseteq expired',
         \A k \in Keys : stored'[k] = stored[k] \/ kept[k] = {},
         \A a \in Actors : stage'[a] \in Busy <=> stage[a] \in Busy,
         \A a \in Actors : stage'[a] \in Busy => item'[a] = item[a] /\ snap'[a] = snap[a]
  PROVE  Alone'
  <1>1. \A k \in Keys : Saving(k)' = Saving(k)
    BY DEF Saving, Busy
  <1>2. \A k \in Keys : \A x, s : Held(k, x, s) => Held(k, x, s)'
    <2>1. \A k \in Keys : IsFiniteSet(log'[k]) /\ log[k] \subseteq log'[k]
      BY DEF RingInv, Numbered
    <2> QED BY <2>1, HeldStays
  <1>3. \A k \in Keys : \A a \in Saving(k) : a \in Actors /\ stage'[a] \in Busy /\ item'[a] = item[a] /\ snap'[a] = snap[a]
    BY DEF Saving, Busy
  <1>4. ASSUME NEW k \in Keys, NEW a \in Saving(k)'
        PROVE  /\ Held(k, item[a], snap[a])' /\ Held(k, item[a], ring[k])'
               /\ a \notin overlap' => Saving(k)' = {a}
    <2>1. a \in Saving(k) /\ item'[a] = item[a] /\ snap'[a] = snap[a]
      BY <1>1, <1>3, <1>4
    <2>2. Held(k, item[a], snap[a]) /\ Held(k, item[a], ring[k])
      BY <2>1 DEF Alone
    <2>3. a \notin overlap' => Saving(k)' = {a}
      BY <1>1, <2>1 DEF Alone
    <2>4. Held(k, item[a], snap[a])' /\ Held(k, item[a], ring[k])'
      BY <1>2, <2>1, <2>2 DEF Held, Outlived
    <2> QED BY <2>3, <2>4
  <1>5. ASSUME NEW k \in Keys, NEW x \in kept'[k]
        PROVE  /\ Held(k, x, stored[k])' /\ Held(k, x, ring[k])'
               /\ \A a \in Saving(k)' : Held(k, x, snap[a])'
    <2>1. x \in kept[k] /\ stored'[k] = stored[k]
      BY <1>5
    <2>2. /\ Held(k, x, stored[k]) /\ Held(k, x, ring[k])
          /\ \A a \in Saving(k) : Held(k, x, snap[a])
      BY <2>1 DEF Alone
    <2> QED BY <1>1, <1>2, <1>3, <2>1, <2>2 DEF Held, Outlived
  <1>6. \A k \in Keys : k \in crowded' => kept'[k] = {}
    BY DEF Alone
  <1> QED BY <1>4, <1>5, <1>6 DEF Alone

\* An answer, with or without a save.
LEMMA AnswerAlone ==
  ASSUME RingInv, Alone, NEW a \in Actors, NEW s \in BOOLEAN, stage[a] \in Busy, Answer(a, s),
         \A k \in Keys : k # Key(a) => stored'[k] = stored[k],
         IF s /\ a \notin overlap THEN stored'[Key(a)] = snap[a]
         ELSE stored'[Key(a)] \in {stored[Key(a)], snap[a]} \/ kept[Key(a)] = {}
  PROVE  Alone'
  <1>1. /\ overlap' = overlap \ {a} /\ ring' = ring /\ log' = log /\ expired' = expired
        /\ stage'[a] = "idle"
        /\ \A b \in Actors : b # a => stage'[b] = stage[b] /\ item'[b] = item[b] /\ snap'[b] = snap[b]
        /\ \A k \in Keys : kept'[k] =
              IF s /\ a \notin overlap /\ k = Key(a) THEN kept[k] \cup {item[a]} ELSE kept[k]
        /\ crowded' = IF s /\ a \notin overlap THEN crowded \ {Key(a)} ELSE crowded
    BY AnswerIs DEF Busy
  <1>2. \A k \in Keys : Saving(k)' = Saving(k) \ {a}
    BY <1>1 DEF Saving
  <1>3. a \in Saving(Key(a)) /\ Key(a) \in Keys
    BY KeyOf DEF Saving, Busy
  <1>4. \A k \in Keys : \A x, q : Held(k, x, q) <=> Held(k, x, q)'
    BY <1>1 DEF Held, Outlived
  <1>5. \A k \in Keys : kept[k] # {} =>
            stored'[k] = stored[k] \/ (k = Key(a) /\ stored'[k] = snap[a])
    OBVIOUS
  <1>6. ASSUME NEW k \in Keys, NEW b \in Saving(k)'
        PROVE  /\ Held(k, item[b], snap[b])' /\ Held(k, item[b], ring[k])'
               /\ b \notin overlap' => Saving(k)' = {b}
    <2>1. b \in Saving(k) /\ b # a /\ b \in Actors
      BY <1>2, <1>6 DEF Saving
    <2>2. item'[b] = item[b] /\ snap'[b] = snap[b]
      BY <1>1, <2>1
    <2>3. Held(k, item[b], snap[b]) /\ Held(k, item[b], ring[k])
      BY <2>1 DEF Alone
    <2>4. b \notin overlap' => Saving(k)' = {b}
      <3>1. b \notin overlap' => b \notin overlap
        BY <1>1, <2>1
      <3>2. b \notin overlap => Saving(k) = {b}
        BY <2>1 DEF Alone
      <3> QED BY <1>2, <2>1, <3>1, <3>2
    <2>5. Held(k, item[b], snap[b])' /\ Held(k, item[b], ring[k])'
      BY <1>1, <1>4, <2>2, <2>3 DEF Held, Outlived
    <2> QED BY <2>4, <2>5
  <1>7. ASSUME NEW k \in Keys, NEW x \in kept'[k]
        PROVE  /\ Held(k, x, stored[k])' /\ Held(k, x, ring[k])'
               /\ \A b \in Saving(k)' : Held(k, x, snap[b])'
    <2>1. CASE x \in kept[k]
      <3>1. /\ Held(k, x, stored[k]) /\ Held(k, x, ring[k])
            /\ \A b \in Saving(k) : Held(k, x, snap[b])
        BY <2>1 DEF Alone
      <3>2. Held(k, x, stored'[k])
        BY <1>3, <1>5, <2>1, <3>1
      <3>3. \A b \in Saving(k)' : Held(k, x, snap'[b])
        <4>1. \A b \in Saving(k)' : b \in Saving(k) /\ b # a /\ b \in Actors
          BY <1>2 DEF Saving
        <4> QED BY <1>1, <3>1, <4>1
      <3> QED BY <1>1, <3>1, <3>2, <3>3 DEF Held, Outlived
    <2>2. CASE x \notin kept[k]
      <3>1. s /\ a \notin overlap /\ k = Key(a) /\ x = item[a]
        BY <1>1, <1>7, <2>2
      <3>2. Saving(k) = {a} /\ Held(k, x, snap[a]) /\ Held(k, x, ring[k])
        BY <1>3, <3>1 DEF Alone
      <3>3. Saving(k)' = {}
        BY <1>2, <3>2
      <3>4. stored'[k] = snap[a]
        BY <3>1
      <3> QED BY <1>1, <3>2, <3>3, <3>4 DEF Held, Outlived
    <2> QED BY <2>1, <2>2
  <1>8. \A k \in Keys : k \in crowded' => kept'[k] = {}
    BY <1>1 DEF Alone
  <1> QED BY <1>6, <1>7, <1>8 DEF Alone

\* An item enters the ring, and with it the snapshot; others may be cut off by it.
LEMMA AddAlone == ASSUME RingInv, Alone, NEW a \in Actors, Add(a) PROVE Alone'
  <1> DEFINE new == [item[a] EXCEPT !.n = Cardinality(AllItems) + 1]
             k == Key(a)
             Past(j, x) == \/ j = "outcomes" /\ x.stamp \in expired'
                           \/ Cardinality(Newer(log'[j], x)) >= Keep[j]
  <1>1. /\ k \in Keys /\ new \in Item
        /\ \A j \in Keys : log[j] \subseteq log'[j] /\ IsFiniteSet(log'[j])
        /\ \A j \in Keys : j # k => log'[j] = log[j]
    BY KeyOf, AddNumbers
  <1>2. /\ ring' = [ring EXCEPT ![k] = ring'[k]]
        /\ snap' = [snap EXCEPT ![a] = ring'[k]]
        /\ \A x \in Elements(ring[k]) \cup {new} :
                    \/ x \in Elements(ring'[k])
                    \/ k = "outcomes" /\ x.stamp \in expired
                    \/ Cardinality(Newer(log'[k], x)) >= Keep[k]
    BY AddRing
  <1>3. /\ stage[a] = "add" /\ stage' = [stage EXCEPT ![a] = "save"] /\ item' = [item EXCEPT ![a] = new]
        /\ overlap' = IF Saving(k) = {} THEN overlap ELSE overlap \cup Saving(k) \cup {a}
        /\ crowded' = IF Crowds(k) THEN crowded \cup {k} ELSE crowded
        /\ kept' = IF Crowds(k) THEN [kept EXCEPT ![k] = {}] ELSE kept
        /\ UNCHANGED <<stored, expired>>
    BY DEF Add, store
  <1> HIDE DEF new, k
  <1>4. /\ stage \in [Actors -> Stages] /\ item \in [Actors -> Item \cup {None}]
        /\ ring \in [Keys -> Seq(Item)] /\ snap \in [Actors -> Seq(Item)]
        /\ kept \in [Keys -> SUBSET Item]
    BY DEF RingInv, TypeOK
  <1>5. /\ \A b \in Actors : b # a => stage'[b] = stage[b] /\ item'[b] = item[b] /\ snap'[b] = snap[b]
        /\ item'[a] = new /\ snap'[a] = ring'[k] /\ stage'[a] = "save"
        /\ \A j \in Keys : j # k => ring'[j] = ring[j]
    BY <1>2, <1>3, <1>4
  <1>6. \A j \in Keys : Saving(j)' = IF j = k THEN Saving(j) \cup {a} ELSE Saving(j)
    BY <1>3, <1>5 DEF Saving, k
  <1>7. a \notin Saving(k)
    BY <1>3 DEF Saving
  <1>8. \A j \in Keys : \A x, q : Held(j, x, q) => (x \in Elements(q) \/ Past(j, x))
    BY <1>1, <1>3, OutlivedStays DEF Held, Outlived, Newer
  <1>9. \A x \in Elements(ring[k]) \cup {new} : x \in Elements(ring'[k]) \/ Past(k, x)
    <2>1. \A x : (k = "outcomes" /\ x.stamp \in expired) \/ Cardinality(Newer(log'[k], x)) >= Keep[k] => Past(k, x)
      BY <1>3
    <2> HIDE DEF Past
    <2> QED BY <1>2, <2>1
  <1> HIDE DEF Past
  \* What is in the ring, or outlived, stays so.
  <1>10. \A j \in Keys : \A x : Held(j, x, ring[j]) => (x \in Elements(ring'[j]) \/ Past(j, x))
    BY <1>5, <1>8, <1>9
  <1>11. ASSUME NEW j \in Keys, NEW b \in Saving(j)'
         PROVE  /\ item'[b] \in Elements(snap'[b]) \/ Past(j, item'[b])
                /\ item'[b] \in Elements(ring'[j]) \/ Past(j, item'[b])
                /\ b \notin overlap' => Saving(j)' = {b}
    <2>1. CASE b = a
      <3>1. j = k
        BY <1>6, <1>11, <2>1 DEF Saving, k
      <3>2. new \in Elements(ring'[k]) \/ Past(k, new)
        BY <1>9
      <3>3. b \notin overlap' => Saving(k) = {}
        BY <1>3, <2>1
      <3> QED BY <1>5, <1>6, <2>1, <3>1, <3>2, <3>3
    <2>2. CASE b # a
      <3>1. b \in Saving(j) /\ b \in Actors
        BY <1>6, <1>11, <2>2 DEF Saving
      <3>2. Held(j, item[b], snap[b]) /\ Held(j, item[b], ring[j])
        BY <3>1 DEF Alone
      <3>3. b \notin overlap' => j # k /\ b \notin overlap
        BY <1>3, <3>1
      <3> QED BY <1>5, <1>6, <1>8, <1>10, <2>2, <3>1, <3>2, <3>3 DEF Alone
    <2> QED BY <2>1, <2>2
  <1>12. ASSUME NEW j \in Keys, NEW x \in kept'[j]
         PROVE  /\ x \in Elements(stored'[j]) \/ Past(j, x)
                /\ x \in Elements(ring'[j]) \/ Past(j, x)
                /\ \A b \in Saving(j)' : x \in Elements(snap'[b]) \/ Past(j, x)
    <2>0. x \in kept[j]
      BY <1>1, <1>3, <1>4, <1>12
    <2>1. /\ Held(j, x, stored[j]) /\ Held(j, x, ring[j])
          /\ \A b \in Saving(j) : Held(j, x, snap[b])
      BY <2>0 DEF Alone
    <2>2. x \in Elements(ring'[j]) \/ Past(j, x)
      BY <1>10, <2>1
    <2>3. ASSUME NEW b \in Saving(j)' PROVE x \in Elements(snap'[b]) \/ Past(j, x)
      <3>1. CASE b = a
        <4>1. j = k
          BY <1>6, <2>3, <3>1 DEF Saving, k
        <4> QED BY <1>5, <2>2, <3>1, <4>1
      <3>2. CASE b # a
        <4>1. b \in Saving(j) /\ b \in Actors
          BY <1>6, <2>3, <3>2 DEF Saving
        <4> QED BY <1>5, <1>8, <2>1, <3>2, <4>1
      <3> QED BY <3>1, <3>2
    <2> QED BY <1>3, <1>8, <2>1, <2>2, <2>3
  <1>13. \A j \in Keys : j \in crowded' => kept'[j] = {}
    BY <1>1, <1>3, <1>4 DEF Alone
  <1> QED BY <1>11, <1>12, <1>13 DEF Alone, Held, Outlived, Newer, Past

\* A restart finds what was saved alone, unless it cannot load the store.
LEMMA RestartAlone == ASSUME RingInv, Alone, Restart PROVE Alone'
  <1>1. /\ stage' = [a \in Actors |-> "idle"] /\ UNCHANGED <<stored, log, expired, crowded>>
        /\ \A k \in Keys : \/ kept'[k] = {}
                           \/ kept'[k] = kept[k] /\ stored[k] # Torn /\ ring'[k] = Pruned(k, stored[k])
    <2>1. PICK h \in Loads("handoffs"), o \in Loads("outcomes") :
            /\ ring' = [k \in Keys |-> IF Fails(k, h, o) THEN <<>>
                                        ELSE Pruned(k, IF k = "handoffs" THEN h ELSE o)]
            /\ kept' = [k \in Keys |-> IF Fails(k, h, o) THEN {} ELSE kept[k]]
      BY DEF Restart
    <2>2. /\ h # Torn => h = stored["handoffs"] /\ stored["handoffs"] # Torn
          /\ o # Torn => o = stored["outcomes"] /\ stored["outcomes"] # Torn
      BY DEF Loads
    <2>3. ASSUME NEW k \in Keys, ~Fails(k, h, o)
          PROVE  kept'[k] = kept[k] /\ stored[k] # Torn /\ ring'[k] = Pruned(k, stored[k])
      <3>1. ring'[k] = Pruned(k, IF k = "handoffs" THEN h ELSE o) /\ kept'[k] = kept[k]
        BY <2>1, <2>3
      <3>2. k = "handoffs" \/ k = "outcomes"
        BY DEF Keys
      <3>3. (IF k = "handoffs" THEN h ELSE o) = stored[k] /\ stored[k] # Torn
        BY <2>2, <2>3, <3>2 DEF Fails
      <3> QED BY <3>1, <3>3
    <2>4. \A k \in Keys : Fails(k, h, o) => kept'[k] = {}
      BY <2>1
    <2> QED BY <2>3, <2>4 DEF Restart
  <1>2. \A k \in Keys : Saving(k)' = {}
    BY <1>1 DEF Saving
  <1>3. ASSUME NEW k \in Keys, NEW x \in kept'[k]
        PROVE  Held(k, x, stored'[k]) /\ Held(k, x, ring'[k])
    <2>0. x \in kept[k] /\ stored[k] # Torn /\ ring'[k] = Pruned(k, stored[k])
      BY <1>1, <1>3
    <2>1. Held(k, x, stored[k])
      BY <2>0 DEF Alone
    <2>2. stored[k] \in Rings(log[k]) /\ log[k] \in SUBSET Item /\ IsFiniteSet(log[k])
      BY <2>0, RingsAreSequences DEF RingInv, Numbered
    <2>3. \A i \in DOMAIN stored[k] :
              \/ stored[k][i] \in Elements(Pruned(k, stored[k]))
              \/ k = "outcomes" /\ stored[k][i].stamp \in expired
              \/ Cardinality(Newer(log[k], stored[k][i])) >= Keep[k]
      BY <2>2, PrunedIs
    <2>4. x \in Elements(stored[k]) => x \in Elements(Pruned(k, stored[k])) \/ Outlived(k, x)
      BY <2>3 DEF Elements, Outlived, Newer
    <2> QED BY <1>1, <2>0, <2>1, <2>4 DEF Held
  <1>4. \A k \in Keys : k \in crowded' => kept'[k] = {}
    BY <1>1 DEF Alone
  <1> QED BY <1>1, <1>2, <1>3, <1>4 DEF Alone, Held, Outlived

\* Nothing is kept of a file that a saver of overlapping ones may change.
LEMMA CrowdedIs ==
  ASSUME StoreInv, Alone, Backend = "file", NEW a \in Actors, a \in overlap, stage[a] \in Busy
  PROVE  kept[Key(a)] = {}
  <1>1. Key(a) \in Keys /\ a \in Saving(Key(a))
    BY KeyOf DEF Saving, Busy
  <1>2. Key(a) \in crowded
    BY <1>1 DEF StoreInv, FilesSound
  <1> QED BY <1>1, <1>2 DEF Alone

\* What was saved alone stays, whoever saves next.
LEMMA StepAlone ==
  ASSUME IInv, RingInv, StoreInv, Alone, [Next]_vars PROVE Alone'
  <1>1. /\ stage \in [Actors -> Stages] /\ item \in [Actors -> Item \cup {None}] /\ snap \in [Actors -> Seq(Item)]
        /\ stored \in [Keys -> Seq(Item) \cup {Torn}]
    BY DEF RingInv, TypeOK
  \* Up to the mutex.
  <1>2. ASSUME NEW a \in Actors, stage[a] \in {"idle", "probe"}, NEW s \in {"probe", "add"},
               stage' = [stage EXCEPT ![a] = s], \A b \in Actors : b # a => item'[b] = item[b],
               UNCHANGED <<ring, snap, store, history>>, expired \subseteq expired'
        PROVE  Alone'
    <2>1. UNCHANGED <<stored, log, kept, overlap, crowded>>
      BY <1>2 DEF store, history
    <2>2. stage[a] \notin Busy /\ stage'[a] \notin Busy /\ \A b \in Actors : b # a => stage'[b] = stage[b]
      BY <1>1, <1>2 DEF Busy
    <2> QED BY <1>2, <2>1, <2>2, AloneRests
  <1>3. ASSUME NEW a \in Senders, NEW e \in Edges \cup {None}, Handoff(a, e) PROVE Alone'
    <2>1. a \in Actors /\ \A b \in Actors : b # a => item'[b] = item[b]
      BY <1>1, <1>3 DEF Handoff, Actors
    <2> QED BY <1>2, <1>3, <2>1 DEF Handoff
  <1>4. ASSUME NEW a \in Reporters, Outcome(a) PROVE Alone'
    <2>1. a \in Actors /\ (\A b \in Actors : b # a => item'[b] = item[b]) /\ expired \subseteq expired'
      BY <1>1, <1>4 DEF Outcome, Actors
    <2> QED BY <1>2, <1>4, <2>1 DEF Outcome
  <1>5. ASSUME NEW t \in Tickers, Tick(t) PROVE Alone'
    <2>1. t \in Actors
      BY DEF Actors
    <2>2. CASE TickStart(t)
      <3>1. UNCHANGED <<ring, stage, item, snap, stored, expired, log, kept, overlap, crowded>>
        BY <2>2 DEF TickStart, store, history
      <3> QED BY <3>1, AloneRests
    <2>3. CASE TickEdge(t)
      <3>1. \A b \in Actors : b # t => item'[b] = item[b]
        BY <1>1, <2>3 DEF TickEdge
      <3> QED BY <1>2, <2>1, <2>3, <3>1 DEF TickEdge
    <2>4. CASE TickProbed(t)
      <3>1. \A b \in Actors : b # t => item'[b] = item[b]
        BY <1>1, <2>4 DEF TickProbed
      <3> QED BY <1>2, <2>1, <2>4, <3>1 DEF TickProbed
    <2> QED BY <1>5, <2>2, <2>3, <2>4 DEF Tick
  \* Steps of a save that change nothing kept.
  <1>6. ASSUME NEW a \in Actors, stage[a] \in Busy, NEW s \in Busy, stage' = [stage EXCEPT ![a] = s],
               UNCHANGED <<ring, item, snap, expired, history>>,
               \A k \in Keys : stored'[k] = stored[k] \/ kept[k] = {}
        PROVE  Alone'
    <2>1. UNCHANGED <<log, kept, overlap, crowded>>
      BY <1>6 DEF history
    <2>2. \A b \in Actors : stage'[b] \in Busy <=> stage[b] \in Busy
      BY <1>1, <1>6
    <2> QED BY <1>6, <2>1, <2>2, AloneRests
  <1>7. ASSUME NEW a \in Actors, Save(a) PROVE Alone'
    <2>1. CASE SaveFails(a)
      <3>1. stage[a] \in Busy /\ Answer(a, FALSE) /\ stored' = stored
        BY <2>1 DEF SaveFails, Busy
      <3> QED BY <3>1, AnswerAlone
    <2>2. CASE CmGet(a)
      BY <1>6, <2>2 DEF CmGet, Busy
    <2>3. CASE CmWrite(a) /\ Conflict(a)
      <3>1. stage[a] \in Busy /\ Answer(a, FALSE) /\ stored' = stored
        BY <2>3 DEF CmWrite, Busy
      <3> QED BY <3>1, AnswerAlone
    <2>4. CASE CmWrite(a) /\ ~Conflict(a)
      <3>1. stage[a] \in Busy /\ Answer(a, TRUE) /\ stored' = [read[a] EXCEPT ![Key(a)] = snap[a]]
        BY <2>4 DEF CmWrite, Busy
      <3>2. read[a] = stored
        BY <2>4 DEF CmWrite, IInv, FreshReads, Conflict
      <3>3. /\ \A k \in Keys : k # Key(a) => stored'[k] = stored[k]
            /\ stored'[Key(a)] = snap[a]
        BY <1>1, <3>1, <3>2, KeyOf
      <3> QED BY <3>1, <3>3, AnswerAlone
    <2>5. CASE FileOpen(a)
      <3>1. stored' = stored
        BY <2>5 DEF FileOpen
      <3> QED BY <1>6, <2>5, <3>1 DEF FileOpen, Busy
    <2>6. CASE FileWrite(a)
      <3>1. Backend = "file" /\ stage[a] \in Busy
        BY <2>6 DEF FileWrite, Busy
      <3>2. \A k \in Keys : stored'[k] = stored[k] \/ kept[k] = {}
        BY <2>6, <3>1, FileWriteStore, CrowdedIs
      <3> QED BY <1>6, <2>6, <3>2 DEF FileWrite, Busy
    <2>7. CASE FileRename(a)
      <3>1. Backend = "file" /\ stage[a] \in Busy
        BY <2>7 DEF FileRename, Busy
      <3>2. PICK s \in BOOLEAN : Answer(a, s)
        BY <2>7, FileRenameStore
      <3>3. \A k \in Keys : k # Key(a) => stored'[k] = stored[k]
        BY <2>7, FileRenameStore
      <3>4. CASE a \notin overlap
        <4>1. stored'[Key(a)] = snap[a] /\ Answer(a, TRUE)
          BY <1>1, <2>7, <3>4, FileRenameStore, KeyOf
        <4> QED BY <3>1, <3>3, <3>4, <4>1, AnswerAlone
      <3>5. CASE a \in overlap
        BY <3>1, <3>2, <3>3, <3>5, CrowdedIs, AnswerAlone
      <3> QED BY <3>4, <3>5
    <2> QED BY <1>7, <2>1, <2>2, <2>3, <2>4, <2>5, <2>6, <2>7 DEF Save
  <1>8. CASE Expire \/ UNCHANGED vars
    <2>1. UNCHANGED <<ring, stage, item, snap, stored, log, kept, overlap, crowded>> /\ expired \subseteq expired'
      BY <1>8 DEF Expire, vars, memory, store, history
    <2> QED BY <2>1, AloneRests
  <1>9. CASE Restart
    BY <1>9, RestartAlone DEF StoreInv
  <1> QED BY <1>3, <1>4, <1>5, <1>7, <1>8, <1>9, AddAlone DEF Next, Handle

\* What was saved while no other save of its ring was under way stays in the store, or
\* has been outlived, whatever conflicts, fails or is killed later: in a ConfigMap also
\* whatever overlaps, in a file until two saves of the ring do.
THEOREM SavedAloneIsKept == Spec => []SavedAloneStays
  <1>1. Init => RingsAndStore /\ Alone
    <2>1. Init => RingsAndStore
      BY InitIInv, InitRings, InitStore DEF RingsAndStore
    <2>2. Init => Alone
      BY DEF Init, Alone, Saving
    <2> QED BY <2>1, <2>2
  <1>2. RingsAndStore /\ Alone /\ [Next]_vars => Alone'
    BY StepAlone DEF RingsAndStore
  <1>3. RingsAndStore /\ Alone => SavedAloneStays
    <2> SUFFICES ASSUME RingsAndStore, Alone, NEW k \in Keys, NEW x \in kept[k]
                 PROVE  InStore(k, x) \/ Outlived(k, x)
      BY DEF SavedAloneStays
    <2>1. Held(k, x, stored[k]) /\ k \notin crowded
      BY DEF Alone
    <2>2. stored[k] # Torn
      <3>1. Backend = "file" \/ Backend = "configmap"
        BY CoordinatorAssumption
      <3> QED BY <2>1, <3>1 DEF RingsAndStore, StoreInv, MapSound, FilesSound
    <2> QED BY <2>1, <2>2 DEF Held, InStore
  <1> QED BY <1>1, <1>2, <1>3, AlwaysRingsAndStore, PTL DEF Spec
=============================================================================
