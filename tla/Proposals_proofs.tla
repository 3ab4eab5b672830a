--------------------------- MODULE Proposals_proofs ---------------------------
(***************************************************************************)
(* Proofs about Proposals, for any loops, approvals and commands, any      *)
(* policies, faults and size of the ring.                                  *)
(***************************************************************************)
EXTENDS Proposals, FiniteSetTheorems, WellFoundedInduction, TLAPS

\* Every record there is: stored, loaded by a Put, or in an actor's hands.
Held == ring \cup (UNION {loaded[a] : a \in Actors}) \cup ({prop[a] : a \in Actors} \ {None})

\* Records made at one time are one proposal; applied ones were verified.
Sound ==
    /\ \A p \in Held : p.created <= made /\ (p.applied => p.id \in verified)
    /\ \A p, q \in Held : p.created = q.created => p.id = q.id

OnePerId(S) == \A p, q \in S : p.id = q.id => p = q

Rings ==
    /\ IsFiniteSet(ring) /\ OnePerId(ring)
    /\ Cardinality(ring) <= ProposalsMax
    /\ \A a \in Actors : IsFiniteSet(loaded[a]) /\ OnePerId(loaded[a])

\* An actor that is at work has a record to work on.
AtWork == \A a \in Actors : stage[a] # "idle" => prop[a] \in Proposal

IInv == TypeOK /\ Sound /\ Rings /\ AtWork /\ OnlyGatedMutations

(***************************************************************************)
(* The library's operators.                                                *)
(***************************************************************************)
\* FindOpen's "newest" is one of the records it chooses from.
LEMMA NewestIsOne ==
  ASSUME NEW S \in SUBSET Proposal, S # {}, NEW n \in Nat,
         \A p \in S : p.created <= n
  PROVE  Newest(S) \in S
  <1> DEFINE T == {n - p.created : p \in S}
  <1>1. T \subseteq Nat /\ T # {}
    BY DEF Proposal
  <1>2. PICK x \in T : \A y \in T : <<y, x>> \notin OpToRel(<, Nat)
    BY <1>1, NatLessThanWellFounded, WFMin
  <1>3. \A y \in T : ~(y < x)
    BY <1>1, <1>2 DEF OpToRel
  <1>4. PICK p \in S : x = n - p.created
    BY <1>2
  <1>5. \A q \in S : q.created <= p.created
    <2>1. TAKE q \in S
    <2>2. ~(n - q.created < n - p.created)
      BY <1>3, <1>4
    <2>3. q.created \in Nat /\ p.created \in Nat
      BY DEF Proposal
    <2>4. QED
      BY <2>2, <2>3
  <1>6. QED
    BY <1>5 DEF Newest

\* The id Propose works under is a number (FindOpen).
LEMMA KnownIdType ==
  ASSUME TypeOK, Sound, NEW i \in Incidents, NEW x \in Actions
  PROVE  KnownId(i, x) \in Nat
  <1>1. CASE OpenFor(i, x) = {}
    BY <1>1 DEF KnownId, TypeOK
  <1>2. CASE OpenFor(i, x) # {}
    <2>1. OpenFor(i, x) \in SUBSET Proposal
      BY DEF OpenFor, TypeOK
    <2>2. \A p \in OpenFor(i, x) : p.created <= made
      BY DEF OpenFor, Sound, Held
    <2>3. Newest(OpenFor(i, x)) \in Proposal
      BY <1>2, <2>1, <2>2, NewestIsOne DEF TypeOK
    <2>4. QED
      BY <1>2, <2>3 DEF KnownId, Proposal
  <1>3. QED
    BY <1>1, <1>2

\* The records that Put's sort (sort.Slice by CreatedAt) puts before p.
NewerThan(S, p) == {q \in S : q.created > p.created}

\* A record is told by its place in that order, which is below the length.
LEMMA PlaceInRing ==
  ASSUME NEW S \in SUBSET Proposal, IsFiniteSet(S),
         \A p, q \in S : p.created = q.created => p = q
  PROVE  /\ \A p \in S : /\ IsFiniteSet(NewerThan(S, p))
                         /\ Cardinality(NewerThan(S, p)) \in Nat
                         /\ Cardinality(NewerThan(S, p)) < Cardinality(S)
         /\ \A p, q \in S :
              Cardinality(NewerThan(S, p)) = Cardinality(NewerThan(S, q)) => p = q
  <1>1. \A p \in S : /\ IsFiniteSet(NewerThan(S, p))
                     /\ Cardinality(NewerThan(S, p)) \in Nat
                     /\ Cardinality(NewerThan(S, p)) < Cardinality(S)
    <2>1. TAKE p \in S
    <2>2. NewerThan(S, p) \in SUBSET S /\ p \notin NewerThan(S, p)
      BY DEF NewerThan, Proposal
    <2>3. IsFiniteSet(NewerThan(S, p)) /\ Cardinality(NewerThan(S, p)) <= Cardinality(S)
          /\ Cardinality(NewerThan(S, p)) # Cardinality(S)
      BY <2>2, FS_Subset
    <2>4. QED
      BY <2>3, FS_CardinalityType
  <1>2. \A p, q \in S : p.created < q.created =>
          Cardinality(NewerThan(S, q)) < Cardinality(NewerThan(S, p))
    <2>1. TAKE p, q \in S
    <2>2. HAVE p.created < q.created
    <2>3. NewerThan(S, q) \in SUBSET NewerThan(S, p)
      BY <2>2 DEF Proposal, NewerThan
    <2>4. q \in NewerThan(S, p) /\ q \notin NewerThan(S, q)
      BY <2>2 DEF Proposal, NewerThan
    <2>5. Cardinality(NewerThan(S, q)) <= Cardinality(NewerThan(S, p))
          /\ Cardinality(NewerThan(S, q)) # Cardinality(NewerThan(S, p))
      BY <1>1, <2>3, <2>4, FS_Subset
    <2>6. QED
      BY <1>1, <2>5
  <1>3. \A p, q \in S :
          Cardinality(NewerThan(S, p)) = Cardinality(NewerThan(S, q)) => p = q
    <2>1. TAKE p, q \in S
    <2>2. HAVE Cardinality(NewerThan(S, p)) = Cardinality(NewerThan(S, q))
    <2>3. ~(p.created < q.created) /\ ~(q.created < p.created)
      BY <1>1, <1>2, <2>2
    <2>4. p.created \in Nat /\ q.created \in Nat
      BY DEF Proposal
    <2>5. QED
      BY <2>3, <2>4
  <1>4. QED
    BY <1>1, <1>3

\* Places are counted from 0.
LEMMA Places ==
  ASSUME NEW n \in Nat
  PROVE  IsFiniteSet(0 .. n - 1) /\ Cardinality(0 .. n - 1) = n
  <1>1. 0 \in Int /\ n - 1 \in Int
    OBVIOUS
  <1>2. /\ IsFiniteSet(0 .. n - 1)
        /\ Cardinality(0 .. n - 1) = IF 0 > n - 1 THEN 0 ELSE (n - 1) - 0 + 1
    BY <1>1, FS_Interval, Zenon
  <1>3. QED
    BY <1>2

\* Put cuts the ring to ProposalsMax records: those that fewer than
\* ProposalsMax newer ones precede are no more than that, and exactly as many
\* when there are enough.
LEMMA CappedSize ==
  ASSUME NEW S \in SUBSET Proposal, IsFiniteSet(S),
         \A p, q \in S : p.created = q.created => p = q
  PROVE  /\ IsFiniteSet(Capped(S)) /\ Capped(S) \subseteq S
         /\ Cardinality(Capped(S)) <= ProposalsMax
         /\ Cardinality(S) >= ProposalsMax => Cardinality(Capped(S)) = ProposalsMax
         /\ Cardinality(S) <= ProposalsMax => Capped(S) = S
  <1>1. Capped(S) = {p \in S : Cardinality(NewerThan(S, p)) < ProposalsMax}
    BY DEF Capped, NewerThan
  <1>2. /\ \A p \in S : /\ Cardinality(NewerThan(S, p)) \in Nat
                        /\ Cardinality(NewerThan(S, p)) < Cardinality(S)
        /\ \A p, q \in S :
             Cardinality(NewerThan(S, p)) = Cardinality(NewerThan(S, q)) => p = q
    BY PlaceInRing
  <1>3. ProposalsMax \in Nat /\ Cardinality(S) \in Nat
    BY ProposalsAssumption, FS_CardinalityType
  <1> DEFINE place == [p \in S |-> Cardinality(NewerThan(S, p))]
             kept == [p \in Capped(S) |-> Cardinality(NewerThan(S, p))]
  <1>4. kept \in Injection(Capped(S), 0 .. ProposalsMax - 1)
    <2>1. kept \in [Capped(S) -> 0 .. ProposalsMax - 1]
      BY <1>1, <1>2, <1>3
    <2>2. \A p, q \in Capped(S) : kept[p] = kept[q] => p = q
      BY <1>1, <1>2
    <2> HIDE DEF kept
    <2>3. QED
      BY <2>1, <2>2 DEF Injection, IsInjective
  <1>5. /\ IsFiniteSet(Capped(S)) /\ Cardinality(Capped(S)) <= ProposalsMax
        /\ kept \in Surjection(Capped(S), 0 .. ProposalsMax - 1)
             => Cardinality(Capped(S)) = ProposalsMax
    <2> HIDE DEF kept
    <2>1. QED
      BY <1>3, <1>4, Places, FS_Injection
  <1>6. ASSUME Cardinality(S) >= ProposalsMax
        PROVE  kept \in Surjection(Capped(S), 0 .. ProposalsMax - 1)
    <2>1. place \in Injection(S, 0 .. Cardinality(S) - 1)
      <3>1. place \in [S -> 0 .. Cardinality(S) - 1]
        BY <1>2, <1>3
      <3>2. \A p, q \in S : place[p] = place[q] => p = q
        BY <1>2
      <3> HIDE DEF place
      <3>3. QED
        BY <3>1, <3>2 DEF Injection, IsInjective
    <2>2. place \in Surjection(S, 0 .. Cardinality(S) - 1)
      <3> HIDE DEF place
      <3>1. QED
        BY <1>3, <2>1, Places, FS_Injection
    <2>3. \A n \in 0 .. Cardinality(S) - 1 : \E p \in S : place[p] = n
      <3> HIDE DEF place
      <3>1. QED
        BY <2>2 DEF Surjection
    <2>4. \A n \in 0 .. ProposalsMax - 1 : \E p \in Capped(S) : kept[p] = n
      <3>1. TAKE n \in 0 .. ProposalsMax - 1
      <3>2. n \in 0 .. Cardinality(S) - 1
        BY <1>3, <1>6
      <3>3. PICK p \in S : Cardinality(NewerThan(S, p)) = n
        BY <2>3, <3>2
      <3>4. p \in Capped(S)
        BY <1>1, <1>3, <3>3
      <3>5. QED
        BY <3>3, <3>4
    <2>5. kept \in [Capped(S) -> 0 .. ProposalsMax - 1]
      BY <1>4 DEF Injection
    <2> HIDE DEF kept
    <2>6. QED
      BY <2>4, <2>5 DEF Surjection
  <1>7. Cardinality(S) <= ProposalsMax => Capped(S) = S
    BY <1>1, <1>2, <1>3
  <1>8. QED
    BY <1>1, <1>5, <1>6, <1>7

\* What Put saves holds one record per id, no two of one time, and is no
\* longer than ProposalsMax.
LEMMA UpsertedRing ==
  ASSUME NEW S \in SUBSET Proposal, NEW p \in Proposal,
         IsFiniteSet(S), OnePerId(S),
         \A q, r \in S \cup {p} : q.created = r.created => q.id = r.id
  PROVE  /\ Upserted(S, p) \subseteq S \cup {p}
         /\ IsFiniteSet(Upserted(S, p)) /\ OnePerId(Upserted(S, p))
         /\ Cardinality(Upserted(S, p)) <= ProposalsMax
  <1> DEFINE kept == {q \in S : q.id # p.id}
             U == kept \cup {p}
  <1>1. U \in SUBSET Proposal /\ U \subseteq S \cup {p}
    OBVIOUS
  <1>2. IsFiniteSet(U)
    <2>1. kept \in SUBSET S
      OBVIOUS
    <2>2. IsFiniteSet(kept)
      BY <2>1, FS_Subset
    <2> HIDE DEF kept
    <2>3. QED
      BY <2>2, FS_AddElement
  <1>3. OnePerId(U)
    BY DEF OnePerId
  <1>4. \A q, r \in U : q.created = r.created => q = r
    BY <1>1, <1>3 DEF OnePerId
  <1>5. Upserted(S, p) = Capped(U)
    BY DEF Upserted
  <1> HIDE DEF U
  <1>6. QED
    BY <1>1, <1>2, <1>3, <1>4, <1>5, CappedSize DEF OnePerId

(***************************************************************************)
(* The invariant.                                                          *)
(***************************************************************************)
\* Records that are copied, dropped, or given a verdict stay sound.
LEMMA SoundStep ==
  ASSUME Sound, made' = made,
         \A p \in Held' : \E q \in Held :
            /\ p.id = q.id /\ p.created = q.created
            /\ p.applied => p.id \in verified'
  PROVE  Sound'
  BY DEF Sound

\* The same, when records are only copied or dropped.
LEMMA SoundShrinks ==
  ASSUME Sound, made' = made, verified \subseteq verified', Held' \subseteq Held
  PROVE  Sound'
  BY SoundStep DEF Sound

\* The ledger starts empty (NewProposalLibrary).
LEMMA InitIInv == Init => IInv
  <1> SUFFICES ASSUME Init PROVE IInv
    OBVIOUS
  <1>1. TypeOK
    BY ProposalsAssumption DEF Init, TypeOK, Stages
  <1>2. Held = {}
    BY DEF Init, Held
  <1>3. Sound
    BY <1>2 DEF Sound
  <1>4. Rings
    <2>1. ring = {} /\ \A a \in Actors : loaded[a] = {}
      BY DEF Init
    <2>2. Cardinality(ring) <= ProposalsMax
      BY <2>1, FS_EmptySet, ProposalsAssumption
    <2>3. QED
      BY <2>1, <2>2, FS_EmptySet DEF Rings, OnePerId
  <1>5. AtWork /\ OnlyGatedMutations
    BY DEF Init, AtWork, OnlyGatedMutations
  <1>6. QED
    BY <1>1, <1>3, <1>4, <1>5 DEF IInv

\* A loop makes a record of its own (ProposeFromContext).
LEMMA ProposeStep ==
  ASSUME IInv, NEW w \in Workers, ProposeFromContext(w)
  PROVE  IInv'
  <1>1. PICK i \in Incidents, x \in Actions, t \in Targets, c \in Confidences :
          Propose(w, i, x, t, c)
    BY DEF ProposeFromContext
  <1>2. PICK id \in {KnownId(i, x)} \cup LoadFails(made + 1) :
          prop' = [prop EXCEPT ![w] =
                  [id |-> id, created |-> made + 1, incident |-> i, action |-> x,
                   target |-> t, confidence |-> c, decision |-> Decided(Policy[Agent], x, c),
                   applied |-> FALSE]]
    BY <1>1 DEF Propose
  <1> DEFINE p == [id |-> id, created |-> made + 1, incident |-> i, action |-> x,
                   target |-> t, confidence |-> c, decision |-> Decided(Policy[Agent], x, c),
                   applied |-> FALSE]
  <1>3. id \in Nat
    BY <1>2, KnownIdType DEF IInv, LoadFails, TypeOK
  <1>4. Decided(Policy[Agent], x, c) \in Decisions
    BY DEF Decided, Decisions
  <1>5. p \in Proposal
    BY <1>3, <1>4 DEF Proposal, IInv, TypeOK
  <1>6. w \in Actors
    BY DEF Actors
  <1>7. prop' = [prop EXCEPT ![w] = p]
    BY <1>2
  <1>8. /\ made' = made + 1 /\ made \in Nat
        /\ stage' = [stage EXCEPT ![w] = "store"]
        /\ UNCHANGED <<ring, holder, loaded, approvals, history>>
    BY <1>1 DEF Propose, IInv, TypeOK
  <1>9. p.created = made + 1 /\ p.applied = FALSE
    OBVIOUS
  <1> HIDE DEF p
  <1>10. TypeOK'
    BY <1>5, <1>6, <1>7, <1>8 DEF IInv, TypeOK, Stages, history
  <1>11. Sound'
    <2>1. Held' \subseteq Held \cup {p}
      BY <1>6, <1>7, <1>8 DEF Held, IInv, TypeOK
    <2>2. \A q \in Held : q.created <= made /\ q \in Proposal
      BY DEF IInv, Sound, Held, TypeOK
    <2>3. \A q \in Held : q.created <= made + 1 /\ q.created # made + 1
      BY <1>8, <2>2 DEF Proposal
    <2>4. verified' = verified
      BY <1>8 DEF history
    <2>5. QED
      BY <1>8, <1>9, <2>1, <2>3, <2>4 DEF IInv, Sound
  <1>12. Rings'
    BY <1>8 DEF IInv, Rings, OnePerId
  <1>13. AtWork' /\ OnlyGatedMutations'
    BY <1>5, <1>6, <1>7, <1>8 DEF IInv, TypeOK, AtWork, OnlyGatedMutations, history
  <1>14. QED
    BY <1>10, <1>11, <1>12, <1>13 DEF IInv

\* Put loads the ring, or takes it for empty.
LEMMA PutLoadStep ==
  ASSUME IInv, NEW a \in Actors, PutLoad(a)
  PROVE  IInv'
  <1>1. /\ loaded' = [loaded EXCEPT ![a] = ring] \/ loaded' = [loaded EXCEPT ![a] = {}]
        /\ holder' = [holder EXCEPT ![Process(a)] = a]
        /\ stage' = [stage EXCEPT ![a] = IF stage[a] = "store" THEN "storing" ELSE "recording"]
        /\ stage[a] # "idle"
        /\ disturbed' \in BOOLEAN
        /\ UNCHANGED <<ring, prop, made, approvals, announced, mutated, verified, unsaved, killed>>
    BY DEF PutLoad, IInv, TypeOK, Overlaps
  <1>2. TypeOK'
    BY <1>1 DEF IInv, TypeOK, Stages
  <1>3. Held' \subseteq Held
    BY <1>1 DEF Held, IInv, TypeOK
  <1>4. Sound'
    BY <1>1, <1>3, SoundShrinks DEF IInv
  <1>5. Rings'
    <2>1. \A b \in Actors : loaded'[b] = loaded[b] \/ loaded'[b] = ring \/ loaded'[b] = {}
      BY <1>1 DEF IInv, TypeOK
    <2>2. IsFiniteSet({}) /\ OnePerId({})
      BY FS_EmptySet DEF OnePerId
    <2>3. ring' = ring
      BY <1>1
    <2>4. QED
      BY <2>1, <2>2, <2>3 DEF IInv, Rings, OnePerId
  <1>6. AtWork' /\ OnlyGatedMutations'
    BY <1>1 DEF IInv, TypeOK, AtWork, OnlyGatedMutations
  <1>7. QED
    BY <1>2, <1>4, <1>5, <1>6 DEF IInv

\* Put saves, or fails to, and unlocks.
LEMMA PutReturnsStep ==
  ASSUME IInv, NEW a \in Actors, PutSave(a) \/ PutFails(a)
  PROVE  IInv'
  <1>1. /\ stage[a] # "idle"
        /\ holder' = [holder EXCEPT ![Process(a)] = None]
        /\ loaded' = [loaded EXCEPT ![a] = {}]
        /\ stage' = [stage EXCEPT ![a] = IF stage[a] = "storing" THEN "notify" ELSE "idle"]
        /\ prop' = IF stage[a] = "storing" THEN prop ELSE [prop EXCEPT ![a] = None]
        /\ UNCHANGED <<made, approvals, announced, mutated, verified, disturbed, killed>>
    BY DEF PutSave, PutFails, PutReturns, InPut
  <1>2. prop[a] \in Proposal /\ prop[a] # None /\ loaded[a] \in SUBSET Proposal
    BY <1>1, ProposalsAssumption DEF IInv, AtWork, TypeOK
  <1>3. loaded[a] \cup {prop[a]} \subseteq Held
    BY <1>2 DEF Held
  <1>4. /\ Upserted(loaded[a], prop[a]) \subseteq loaded[a] \cup {prop[a]}
        /\ IsFiniteSet(Upserted(loaded[a], prop[a]))
        /\ OnePerId(Upserted(loaded[a], prop[a]))
        /\ Cardinality(Upserted(loaded[a], prop[a])) <= ProposalsMax
    <2>1. IsFiniteSet(loaded[a]) /\ OnePerId(loaded[a])
      BY DEF IInv, Rings
    <2>2. \A q, r \in loaded[a] \cup {prop[a]} : q.created = r.created => q.id = r.id
      BY <1>3 DEF IInv, Sound
    <2>3. QED
      BY <1>2, <2>1, <2>2, UpsertedRing
  <1>5. ring' = Upserted(loaded[a], prop[a]) \/ ring' = ring
    BY DEF PutSave, PutFails
  <1>6. ring' \subseteq Held /\ ring' \in SUBSET Proposal
    BY <1>2, <1>3, <1>4, <1>5 DEF Held, IInv, TypeOK
  <1>7. TypeOK'
    <2>1. unsaved' \in SUBSET [id : Nat, verdict : BOOLEAN]
      <3>1. prop[a].id \in Nat
        BY <1>2 DEF Proposal
      <3>2. [id |-> prop[a].id, verdict |-> stage[a] = "recording"] \in [id : Nat, verdict : BOOLEAN]
        BY <3>1
      <3>3. QED
        BY <3>2 DEF PutSave, PutFails, IInv, TypeOK
    <2>2. QED
      BY <1>1, <1>6, <2>1 DEF IInv, TypeOK, Stages
  <1>8. Held' \subseteq Held
    BY <1>1, <1>6 DEF Held, IInv, TypeOK
  <1>9. Sound'
    BY <1>1, <1>8, SoundShrinks DEF IInv
  <1>10. Rings'
    <2>1. IsFiniteSet({}) /\ OnePerId({})
      BY FS_EmptySet DEF OnePerId
    <2>2. \A b \in Actors : loaded'[b] = IF b = a THEN {} ELSE loaded[b]
      BY <1>1 DEF IInv, TypeOK
    <2>3. \A b \in Actors : IsFiniteSet(loaded'[b]) /\ OnePerId(loaded'[b])
      BY <2>1, <2>2 DEF IInv, Rings
    <2>4. IsFiniteSet(ring') /\ OnePerId(ring') /\ Cardinality(ring') <= ProposalsMax
      BY <1>4, <1>5 DEF IInv, Rings
    <2>5. QED
      BY <2>3, <2>4 DEF Rings, OnePerId
  <1>11. AtWork' /\ OnlyGatedMutations'
    BY <1>1 DEF IInv, TypeOK, AtWork, OnlyGatedMutations
  <1>12. QED
    BY <1>7, <1>9, <1>10, <1>11 DEF IInv

\* The alert goes out; the loop applies, or is done (emitChange).
LEMMA NotifyStep ==
  ASSUME IInv, NEW w \in Workers, Notify(w)
  PROVE  IInv'
  <1>1. w \in Actors
    BY DEF Actors
  <1>2. /\ stage[w] = "notify"
        /\ \/ stage' = [stage EXCEPT ![w] = "apply"] /\ prop' = prop
           \/ stage' = [stage EXCEPT ![w] = "idle"] /\ prop' = [prop EXCEPT ![w] = None]
        /\ UNCHANGED <<ring, holder, loaded, made, approvals, mutated, verified, unsaved,
                       disturbed, killed>>
    BY DEF Notify
  <1>3. prop[w] \in Proposal
    BY <1>1, <1>2 DEF IInv, AtWork
  <1>4. announced' \in SUBSET Nat
    <2>1. announced' \subseteq announced \cup {prop[w].id}
      BY DEF Notify
    <2>2. QED
      BY <1>3, <2>1 DEF IInv, TypeOK, Proposal
  <1>5. TypeOK'
    BY <1>1, <1>2, <1>4 DEF IInv, TypeOK, Stages
  <1>6. Held' \subseteq Held
    BY <1>1, <1>2 DEF Held, IInv, TypeOK
  <1>7. Sound'
    BY <1>2, <1>6, SoundShrinks DEF IInv
  <1>8. Rings'
    BY <1>2 DEF IInv, Rings, OnePerId
  <1>9. AtWork' /\ OnlyGatedMutations'
    BY <1>1, <1>2, <1>3 DEF IInv, TypeOK, AtWork, OnlyGatedMutations
  <1>10. QED
    BY <1>5, <1>7, <1>8, <1>9 DEF IInv

\* An approval or a command takes a stored record (Get).
LEMMA GetStep ==
  ASSUME IInv, NEW a \in Approvers \cup Commands, Get(a)
  PROVE  IInv'
  <1>1. a \in Actors
    BY DEF Actors
  <1>2. PICK p \in ring : prop' = [prop EXCEPT ![a] = p]
    BY DEF Get
  <1>3. /\ approvals' = approvals + 1
        /\ stage' = [stage EXCEPT ![a] = "apply"]
        /\ UNCHANGED <<ring, holder, loaded, made, history>>
    BY DEF Get
  <1>4. p \in Proposal
    BY DEF IInv, TypeOK
  <1>5. TypeOK'
    BY <1>1, <1>2, <1>3, <1>4 DEF IInv, TypeOK, Stages, history
  <1>6. Held' \subseteq Held
    BY <1>1, <1>2, <1>3 DEF Held, IInv, TypeOK
  <1>7. Sound'
    BY <1>3, <1>6, SoundShrinks DEF IInv, history
  <1>8. Rings'
    BY <1>3 DEF IInv, Rings, OnePerId
  <1>9. AtWork' /\ OnlyGatedMutations'
    BY <1>1, <1>2, <1>3, <1>4 DEF IInv, TypeOK, AtWork, OnlyGatedMutations, history
  <1>10. QED
    BY <1>5, <1>7, <1>8, <1>9 DEF IInv

\* Gate lets through what OnlyGatedMutations asks for (ApplyProposal).
LEMMA MutatesGated ==
  ASSUME IInv, NEW a \in Actors, Mutates(a)
  PROVE  /\ mutated' \in SUBSET Mutation
         /\ OnlyGatedMutations'
  <1> DEFINE m == [id |-> prop[a].id, incident |-> prop[a].incident,
                   action |-> prop[a].action, target |-> prop[a].target,
                   confidence |-> prop[a].confidence, by |-> Process(a)]
  <1>1. mutated' = mutated \cup {m} /\ Gate(Policy[Process(a)], prop[a]) /\ stage[a] = "apply"
    BY DEF Mutates
  <1>2. prop[a] \in Proposal
    BY <1>1 DEF IInv, AtWork
  <1>3. Process(a) \in Processes
    BY DEF Process, Processes
  <1>4. m \in Mutation
    BY <1>2, <1>3 DEF Proposal, Mutation
  <1>5. /\ Policy[m.by].auto /\ m.action \in Policy[m.by].allow
        /\ m.confidence >= Policy[m.by].floor
    BY <1>1 DEF Gate
  <1> HIDE DEF m
  <1>6. QED
    BY <1>1, <1>4, <1>5 DEF IInv, TypeOK, OnlyGatedMutations

\* A verdict that says applied only of a verified record keeps the invariant.
LEMMA VerdictStep ==
  ASSUME IInv, NEW a \in Actors, stage[a] # "idle",
         NEW d \in Decisions, NEW b \in BOOLEAN, Verdict(a, d, b),
         verified \subseteq verified', verified' \in SUBSET Nat,
         b => prop[a].id \in verified',
         mutated' \in SUBSET Mutation,
         OnlyGatedMutations'
  PROVE  IInv'
  <1> DEFINE p == [prop[a] EXCEPT !.decision = d, !.applied = b]
  <1>1. prop[a] \in Proposal /\ prop[a] # None
    BY ProposalsAssumption DEF IInv, AtWork
  <1>2. /\ p \in Proposal
        /\ p.id = prop[a].id /\ p.created = prop[a].created /\ p.applied = b
    BY <1>1 DEF Proposal
  <1>3. /\ prop' = [prop EXCEPT ![a] = p]
        /\ stage' = [stage EXCEPT ![a] = "record"]
        /\ UNCHANGED <<ring, holder, loaded, made, approvals, announced, unsaved,
                       disturbed, killed>>
    <2>1. prop' = [prop EXCEPT ![a] = [@ EXCEPT !.decision = d, !.applied = b]]
      BY DEF Verdict, IInv, TypeOK
    <2>2. QED
      BY <2>1 DEF Verdict
  <1> HIDE DEF p
  <1>4. TypeOK'
    BY <1>2, <1>3 DEF IInv, TypeOK, Stages
  <1>5. Sound'
    <2>1. Held' \subseteq Held \cup {p}
      BY <1>3 DEF Held, IInv, TypeOK
    <2>2. prop[a] \in Held
      BY <1>1 DEF Held
    <2>3. \A q \in Held : q.applied => q.id \in verified'
      BY DEF IInv, Sound
    <2>4. QED
      BY <1>2, <1>3, <2>1, <2>2, <2>3, SoundStep DEF IInv
  <1>6. Rings'
    BY <1>3 DEF IInv, Rings, OnePerId
  <1>7. AtWork'
    BY <1>2, <1>3 DEF IInv, TypeOK, AtWork
  <1>8. QED
    BY <1>4, <1>5, <1>6, <1>7 DEF IInv

\* The policy refuses, the mutation is made, or fails (ApplyProposal).
LEMMA MutateStep ==
  ASSUME IInv, NEW a \in Actors, ApplyDenied(a) \/ Mutate(a) \/ MutateFails(a)
  PROVE  IInv'
  <1>1. stage[a] = "apply" /\ prop[a] \in Proposal /\ prop[a] \in Held
    BY ProposalsAssumption DEF ApplyDenied, Mutate, MutateFails, Mutates, IInv, AtWork, Held
  <1>3. CASE ApplyDenied(a)
    <2>1. Process(a) \in Processes
      BY DEF Process, Processes
    <2>2. (Policy[Process(a)].auto /\ prop[a].applied) \in BOOLEAN
      OBVIOUS
    <2>3. Verdict(a, "denied", Policy[Process(a)].auto /\ prop[a].applied)
          /\ mutated' = mutated /\ verified' = verified
      BY <1>3 DEF ApplyDenied
    <2>4. prop[a].applied => prop[a].id \in verified
      BY <1>1 DEF IInv, Sound
    <2>5. QED
      BY <1>1, <2>2, <2>3, <2>4, VerdictStep DEF IInv, TypeOK, OnlyGatedMutations, Decisions
  <1>4. CASE Mutate(a)
    <2>1. /\ Mutates(a) /\ stage' = [stage EXCEPT ![a] = "verify"]
          /\ UNCHANGED <<ring, holder, prop, loaded, made, approvals, announced, verified,
                         unsaved, disturbed, killed>>
      BY <1>4 DEF Mutate
    <2>2. TypeOK' /\ OnlyGatedMutations'
      BY <2>1, MutatesGated DEF IInv, TypeOK, Stages
    <2>3. Held' = Held
      BY <2>1 DEF Held
    <2>4. Sound'
      BY <2>1, <2>3, SoundShrinks DEF IInv
    <2>5. Rings' /\ AtWork'
      BY <1>1, <2>1 DEF IInv, TypeOK, Rings, OnePerId, AtWork
    <2>6. QED
      BY <2>2, <2>4, <2>5 DEF IInv
  <1>5. CASE MutateFails(a)
    <2>1. Verdict(a, "failed", FALSE) /\ verified' = verified
          /\ (Mutates(a) \/ mutated' = mutated)
      BY <1>5 DEF MutateFails
    <2>2. /\ mutated' \in SUBSET Mutation
          /\ OnlyGatedMutations'
      BY <2>1, MutatesGated DEF IInv, TypeOK, OnlyGatedMutations
    <2>3. QED
      BY <1>1, <2>1, <2>2, VerdictStep DEF IInv, TypeOK, Decisions
  <1>6. QED
    BY <1>3, <1>4, <1>5

\* The verification passes, is pending, or fails (finalizeAfterMutate).
LEMMA VerifyStep ==
  ASSUME IInv, NEW a \in Actors, VerifyPasses(a) \/ VerifyPending(a) \/ VerifyFails(a)
  PROVE  IInv'
  <1>1. stage[a] = "verify" /\ prop[a] \in Proposal
    BY DEF VerifyPasses, VerifyPending, VerifyFails, IInv, AtWork
  <1>2. mutated' = mutated
    BY DEF VerifyPasses, VerifyPending, VerifyFails
  <1>3. CASE VerifyPasses(a)
    <2>1. verified' = verified \cup {prop[a].id} /\ prop[a].id \in Nat
          /\ prop[a].applied \in BOOLEAN
      BY <1>1, <1>3 DEF VerifyPasses, Proposal
    <2>2. Verdict(a, "failed", prop[a].applied) \/ Verdict(a, "applied", TRUE)
      BY <1>3 DEF VerifyPasses
    <2>3. QED
      BY <1>1, <1>2, <2>1, <2>2, VerdictStep
      DEF IInv, TypeOK, OnlyGatedMutations, Decisions
  <1>4. CASE VerifyPending(a) \/ VerifyFails(a)
    <2>1. verified' = verified
          /\ (Verdict(a, "applied", FALSE) \/ Verdict(a, "failed", FALSE))
      BY <1>4 DEF VerifyPending, VerifyFails
    <2>2. QED
      BY <1>1, <1>2, <2>1, VerdictStep DEF IInv, TypeOK, OnlyGatedMutations, Decisions
  <1>5. QED
    BY <1>3, <1>4

\* A process is killed: its actors lose what they held.
LEMMA KillStep ==
  ASSUME IInv, NEW p \in Processes, Kill(p)
  PROVE  IInv'
  <1> DEFINE gone == {a \in Actors : Process(a) = p}
  <1>1. /\ holder' = [holder EXCEPT ![p] = None]
        /\ stage'  = [a \in Actors |-> IF a \in gone THEN "idle" ELSE stage[a]]
        /\ prop'   = [a \in Actors |-> IF a \in gone THEN None ELSE prop[a]]
        /\ loaded' = [a \in Actors |-> IF a \in gone THEN {} ELSE loaded[a]]
        /\ killed' = killed \cup {p}
        /\ UNCHANGED <<ring, made, approvals, announced, mutated, verified, unsaved, disturbed>>
    BY DEF Kill
  <1> HIDE DEF gone
  <1>2. TypeOK'
    BY <1>1 DEF IInv, TypeOK, Stages
  <1>3. Held' \subseteq Held
    BY <1>1 DEF Held, IInv, TypeOK
  <1>4. Sound'
    BY <1>1, <1>3, SoundShrinks DEF IInv
  <1>5. Rings'
    <2>1. IsFiniteSet({}) /\ OnePerId({})
      BY FS_EmptySet DEF OnePerId
    <2>2. \A b \in Actors : loaded'[b] = {} \/ loaded'[b] = loaded[b]
      BY <1>1
    <2>3. \A b \in Actors : IsFiniteSet(loaded'[b]) /\ OnePerId(loaded'[b])
      BY <2>1, <2>2 DEF IInv, Rings
    <2>4. QED
      BY <1>1, <2>3 DEF IInv, Rings, OnePerId
  <1>6. AtWork' /\ OnlyGatedMutations'
    BY <1>1 DEF IInv, AtWork, OnlyGatedMutations
  <1>7. QED
    BY <1>2, <1>4, <1>5, <1>6 DEF IInv

(***************************************************************************)
(* What ids stand for.                                                     *)
(***************************************************************************)
\* Stored, loaded, in hand or carried out: one id, one action, and no id is
\* ahead of the counter that new ones come from.
OneAction == \A r \in Held \cup mutated :
    /\ r.id <= made
    /\ \A s \in Held \cup mutated : SameAction(r, s)

\* The action of a record is that of one there was before.
AsBefore(r) == \E s \in Held \cup mutated :
    r.id = s.id /\ r.incident = s.incident /\ r.action = s.action

\* A record keeps its id, incident and action through copies, verdicts and
\* mutations.
LEMMA SameActionStep ==
  ASSUME OneAction, made' = made, \A r \in (Held \cup mutated)' : AsBefore(r)
  PROVE  OneAction'
  <1> SUFFICES ASSUME NEW r \in (Held \cup mutated)'
               PROVE  /\ r.id <= made
                      /\ \A s \in (Held \cup mutated)' : SameAction(r, s)
    BY DEF OneAction
  <1>1. PICK q \in Held \cup mutated :
          r.id = q.id /\ r.incident = q.incident /\ r.action = q.action
    BY DEF AsBefore
  <1>2. \A s \in (Held \cup mutated)' : SameAction(r, s)
    BY <1>1 DEF AsBefore, OneAction, SameAction
  <1>3. QED
    BY <1>1, <1>2 DEF OneAction

\* A loop takes the id of the open proposal for the same incident and action,
\* or one that nobody has used (FindOpen).
LEMMA ProposeUnderId ==
  ASSUME IInv, OneAction, NEW w \in Workers, ProposeFromContext(w)
  PROVE  OneAction'
  <1>1. PICK i \in Incidents, x \in Actions, t \in Targets, c \in Confidences :
          Propose(w, i, x, t, c)
    BY DEF ProposeFromContext
  <1>2. PICK id \in {KnownId(i, x)} \cup LoadFails(made + 1) :
          prop' = [prop EXCEPT ![w] =
                  [id |-> id, created |-> made + 1, incident |-> i, action |-> x,
                   target |-> t, confidence |-> c, decision |-> Decided(Policy[Agent], x, c),
                   applied |-> FALSE]]
    BY <1>1 DEF Propose
  <1> DEFINE p == [id |-> id, created |-> made + 1, incident |-> i, action |-> x,
                   target |-> t, confidence |-> c, decision |-> Decided(Policy[Agent], x, c),
                   applied |-> FALSE]
  <1>3. prop' = [prop EXCEPT ![w] = p] /\ p.id = id /\ p.incident = i /\ p.action = x
    BY <1>2
  <1> HIDE DEF p
  <1>4. /\ made' = made + 1 /\ made \in Nat
        /\ UNCHANGED <<ring, loaded, mutated>>
    BY <1>1 DEF Propose, IInv, TypeOK, history
  <1>5. (Held \cup mutated)' \subseteq (Held \cup mutated) \cup {p}
    BY <1>3, <1>4 DEF Held, IInv, TypeOK, Actors
  <1>6. \A r \in Held \cup mutated : r.id \in Nat /\ r.id <= made
    BY DEF OneAction, Held, IInv, TypeOK, Proposal, Mutation
  <1>7. \/ id = made + 1
        \/ \E q \in Held : q.id = id /\ q.incident = i /\ q.action = x
    <2>1. CASE OpenFor(i, x) = {}
      BY <2>1 DEF KnownId, LoadFails
    <2>2. CASE OpenFor(i, x) # {}
      <3>1. OpenFor(i, x) \in SUBSET Proposal /\ OpenFor(i, x) \subseteq Held
        BY DEF OpenFor, IInv, TypeOK, Held
      <3>2. \A q \in OpenFor(i, x) : q.created <= made
        BY <3>1 DEF IInv, Sound
      <3>3. Newest(OpenFor(i, x)) \in OpenFor(i, x)
        BY <1>4, <2>2, <3>1, <3>2, NewestIsOne
      <3>4. KnownId(i, x) = Newest(OpenFor(i, x)).id
        BY <2>2 DEF KnownId
      <3>5. \A q \in OpenFor(i, x) : q.incident = i /\ q.action = x
        BY DEF OpenFor
      <3>6. QED
        BY <3>1, <3>3, <3>4, <3>5 DEF LoadFails
    <2>3. QED
      BY <2>1, <2>2
  <1>8. \A r \in Held \cup mutated : SameAction(p, r) /\ SameAction(r, p)
    <2>1. CASE id = made + 1
      <3>1. \A r \in Held \cup mutated : r.id # id
        BY <1>4, <1>6, <2>1
      <3>2. QED
        BY <1>3, <3>1 DEF SameAction
    <2>2. CASE \E q \in Held : q.id = id /\ q.incident = i /\ q.action = x
      BY <1>3, <2>2 DEF SameAction, OneAction
    <2>3. QED
      BY <1>7, <2>1, <2>2
  <1>9. p.id <= made + 1 /\ \A r \in Held \cup mutated : r.id <= made + 1
    BY <1>3, <1>4, <1>6, <1>7
  <1>10. SameAction(p, p)
    BY DEF SameAction
  <1>11. QED
    BY <1>4, <1>5, <1>8, <1>9, <1>10 DEF OneAction

\* Whatever else a step does, it copies, drops, judges or carries out records
\* that are there.
LEMMA OthersUnderId ==
  ASSUME IInv, OneAction, [Next]_vars,
         ~ \E w \in Workers : ProposeFromContext(w)
  PROVE  OneAction'
  <1> USE ProposalsAssumption
  <1>1. ASSUME NEW w \in Workers, Notify(w)
        PROVE  Held' \subseteq Held /\ mutated' = mutated /\ made' = made
    <2>1. w \in Actors /\ UNCHANGED <<ring, loaded, made, mutated>>
          /\ (prop' = prop \/ prop' = [prop EXCEPT ![w] = None])
      BY <1>1 DEF Actors, Notify
    <2>2. QED
      BY <2>1 DEF Held, IInv, TypeOK
  <1>2. ASSUME NEW a \in Approvers \cup Commands, Get(a)
        PROVE  Held' \subseteq Held /\ mutated' = mutated /\ made' = made
    <2>1. a \in Actors /\ UNCHANGED <<ring, loaded, made, mutated>>
          /\ \E p \in ring : prop' = [prop EXCEPT ![a] = p]
      BY <1>2 DEF Actors, Get, history
    <2>2. QED
      BY <2>1 DEF Held, IInv, TypeOK
  <1>3. ASSUME NEW a \in Actors, PutLoad(a)
        PROVE  Held' \subseteq Held /\ mutated' = mutated /\ made' = made
    BY <1>3 DEF PutLoad, Held, IInv, TypeOK
  <1>4. ASSUME NEW a \in Actors, PutSave(a) \/ PutFails(a)
        PROVE  Held' \subseteq Held /\ mutated' = mutated /\ made' = made
    <2>1. prop[a] \in Proposal /\ prop[a] # None
      BY <1>4 DEF PutSave, PutFails, PutReturns, InPut, IInv, AtWork
    <2>2. /\ ring' = Upserted(loaded[a], prop[a]) \/ ring' = ring
          /\ loaded' = [loaded EXCEPT ![a] = {}]
          /\ prop' = prop \/ prop' = [prop EXCEPT ![a] = None]
          /\ made' = made /\ mutated' = mutated
      BY <1>4 DEF PutSave, PutFails, PutReturns
    <2>3. Upserted(loaded[a], prop[a]) \subseteq loaded[a] \cup {prop[a]}
      BY DEF Upserted, Capped
    <2>4. loaded[a] \cup {prop[a]} \subseteq Held
      BY <2>1 DEF Held
    <2>5. QED
      BY <2>2, <2>3, <2>4 DEF Held, IInv, TypeOK
  <1>5. ASSUME NEW a \in Actors, ApplyProposal(a)
        PROVE  made' = made /\ \A r \in (Held \cup mutated)' : AsBefore(r)
    <2>1. prop[a] \in Proposal /\ prop[a] \in Held
      <3>1. stage[a] # "idle"
        BY <1>5 DEF ApplyProposal, ApplyDenied, Mutate, MutateFails, Mutates,
                    VerifyPasses, VerifyPending, VerifyFails
      <3>2. QED
        BY <3>1 DEF IInv, AtWork, Held
    <2> DEFINE Carried ==
           /\ UNCHANGED <<ring, loaded, made>>
           /\ \A b \in Actors :
                \/ prop'[b] = prop[b]
                \/ /\ prop'[b].id = prop[a].id
                   /\ prop'[b].incident = prop[a].incident
                   /\ prop'[b].action = prop[a].action
    <2>2. ASSUME NEW d, NEW c, Verdict(a, d, c)
          PROVE  Carried
      <3> DEFINE q == [prop[a] EXCEPT !.decision = d, !.applied = c]
      <3>1. q.id = prop[a].id /\ q.incident = prop[a].incident /\ q.action = prop[a].action
        BY <2>1 DEF Proposal
      <3>2. prop' = [prop EXCEPT ![a] = q] /\ UNCHANGED <<ring, loaded, made>>
        BY <2>2 DEF Verdict, IInv, TypeOK
      <3> HIDE DEF q
      <3>3. QED
        BY <3>1, <3>2 DEF IInv, TypeOK
    <2>3. Carried
      <3>1. CASE Mutate(a)
        BY <3>1 DEF Mutate
      <3>2. CASE ApplyDenied(a) \/ MutateFails(a)
        BY <2>2, <3>2 DEF ApplyDenied, MutateFails
      <3>3. CASE VerifyPasses(a) \/ VerifyPending(a) \/ VerifyFails(a)
        BY <2>2, <3>3 DEF VerifyPasses, VerifyPending, VerifyFails
      <3>4. QED
        BY <1>5, <3>1, <3>2, <3>3 DEF ApplyProposal
    <2>4. mutated' = mutated \/ Mutates(a)
      BY <1>5 DEF ApplyProposal, ApplyDenied, Mutate, MutateFails,
                  VerifyPasses, VerifyPending, VerifyFails
    <2>5. \A r \in Held \cup mutated : AsBefore(r)
      BY DEF AsBefore
    <2>6. \A r \in mutated' : AsBefore(r)
      <3> DEFINE m == [id |-> prop[a].id, incident |-> prop[a].incident,
                       action |-> prop[a].action, target |-> prop[a].target,
                       confidence |-> prop[a].confidence, by |-> Process(a)]
      <3>1. mutated' \subseteq mutated \cup {m}
        BY <2>4 DEF Mutates
      <3>2. AsBefore(m)
        BY <2>1 DEF AsBefore
      <3> HIDE DEF m
      <3>3. QED
        BY <2>5, <3>1, <3>2
    <2>7. \A r \in Held' : AsBefore(r)
      <3>1. \A b \in Actors : prop'[b] = prop[b] \/ AsBefore(prop'[b])
        BY <2>1, <2>3 DEF AsBefore
      <3>2. \A r \in Held' : r \in Held \/ AsBefore(r)
        BY <2>3, <3>1 DEF Held
      <3>3. QED
        BY <2>5, <3>2
    <2>8. QED
      BY <2>3, <2>6, <2>7
  <1>6. ASSUME NEW p \in Processes, Kill(p)
        PROVE  Held' \subseteq Held /\ mutated' = mutated /\ made' = made
    <2>1. /\ UNCHANGED <<ring, made, mutated>>
          /\ \A a \in Actors : /\ prop'[a] = prop[a] \/ prop'[a] = None
                               /\ loaded'[a] = loaded[a] \/ loaded'[a] = {}
      BY <1>6 DEF Kill
    <2>2. QED
      BY <2>1 DEF Held
  <1>7. CASE UNCHANGED vars
    <2>1. UNCHANGED <<ring, loaded, prop, made, mutated>>
      BY <1>7 DEF vars, history
    <2>2. QED
      BY <2>1 DEF OneAction, Held
  <1>8. CASE Held' \subseteq Held /\ mutated' = mutated /\ made' = made
    BY <1>8, SameActionStep DEF AsBefore
  <1>9. QED
    BY <1>1, <1>2, <1>3, <1>4, <1>5, <1>6, <1>7, <1>8, SameActionStep DEF Next, Put

(***************************************************************************)
(* What was announced.  As long as no load fails and no two processes are  *)
(* in Put at once, each Put saves what is stored with one record added or  *)
(* replaced.                                                               *)
(***************************************************************************)
\* The id can be looked up in S, or S is full.
Stored(S, i) == (\E p \in S : p.id = i) \/ Cardinality(S) = ProposalsMax

\* The id is stored, or the Put before its alert failed.
Settled(i) == Stored(ring, i) \/ [id |-> i, verdict |-> FALSE] \in unsaved

\* Only one is in Put; it has the mutex, and its copy is the stored ring.
Exclusive == \A a \in Actors : InPut(a) =>
    /\ holder[Process(a)] = a /\ loaded[a] = ring
    /\ \A b \in Actors : InPut(b) => b = a

\* A loop that is about to announce has stored what it announces.
ReadyToAnnounce == \A a \in Actors : stage[a] = "notify" => Settled(prop[a].id)

AllAnnounced == \A i \in announced : Settled(i)

Announcing == ~disturbed => Exclusive /\ ReadyToAnnounce /\ AllAnnounced

\* What Put saves still has the ids that were stored, and that of its record,
\* unless it is full; a ring that is full stays so.
LEMMA UpsertedKeeps ==
  ASSUME NEW S \in SUBSET Proposal, NEW p \in Proposal,
         IsFiniteSet(S), OnePerId(S),
         \A q, r \in S \cup {p} : q.created = r.created => q.id = r.id
  PROVE  \/ Cardinality(Upserted(S, p)) = ProposalsMax
         \/ /\ Cardinality(S) < ProposalsMax
            /\ \A q \in S \cup {p} : \E r \in Upserted(S, p) : r.id = q.id
  <1> DEFINE kept == {q \in S : q.id # p.id}
             U == kept \cup {p}
             f == [q \in S |-> IF q.id = p.id THEN p ELSE q]
  <1>1. U \in SUBSET Proposal /\ U \subseteq S \cup {p} /\ p \in U
    OBVIOUS
  <1>2. IsFiniteSet(U)
    <2>1. kept \in SUBSET S
      OBVIOUS
    <2>2. IsFiniteSet(kept)
      BY <2>1, FS_Subset
    <2> HIDE DEF kept
    <2>3. QED
      BY <2>2, FS_AddElement
  <1>3. OnePerId(U)
    BY DEF OnePerId
  <1>4. \A q, r \in U : q.created = r.created => q = r
    BY <1>1, <1>3 DEF OnePerId
  <1>5. Upserted(S, p) = Capped(U)
    BY DEF Upserted
  <1>6. f \in Injection(S, U)
    <2>1. f \in [S -> U]
      OBVIOUS
    <2>2. \A q, r \in S : f[q] = f[r] => q = r
      BY DEF OnePerId
    <2> HIDE DEF f, U
    <2>3. QED
      BY <2>1, <2>2 DEF Injection, IsInjective
  <1>7. \A q \in S \cup {p} : \E r \in U : r.id = q.id
    OBVIOUS
  <1> HIDE DEF U, f
  <1>8. Cardinality(S) <= Cardinality(U) /\ Cardinality(S) \in Nat /\ Cardinality(U) \in Nat
    BY <1>2, <1>6, FS_Injection, FS_CardinalityType
  <1>9. ProposalsMax \in Nat
    BY ProposalsAssumption
  <1>10. CASE Cardinality(U) >= ProposalsMax
    BY <1>1, <1>2, <1>4, <1>5, <1>10, CappedSize
  <1>11. CASE Cardinality(U) < ProposalsMax
    <2>1. Upserted(S, p) = U
      BY <1>1, <1>2, <1>4, <1>5, <1>8, <1>9, <1>11, CappedSize
    <2>2. QED
      BY <1>7, <1>8, <1>9, <1>11, <2>1
  <1>12. QED
    BY <1>8, <1>9, <1>10, <1>11

\* Put saves: every stored id stays, its own is now one of them.
LEMMA PutSaveAnnounces ==
  ASSUME IInv, Announcing, NEW a \in Actors, PutSave(a)
  PROVE  Announcing'
  <1>1. /\ InPut(a)
        /\ ring' = Upserted(loaded[a], prop[a])
        /\ stage' = [stage EXCEPT ![a] = IF stage[a] = "storing" THEN "notify" ELSE "idle"]
        /\ prop' = IF stage[a] = "storing" THEN prop ELSE [prop EXCEPT ![a] = None]
        /\ UNCHANGED <<announced, unsaved, disturbed>>
    BY DEF PutSave, PutReturns
  <1> SUFFICES ASSUME ~disturbed
               PROVE  Exclusive' /\ ReadyToAnnounce' /\ AllAnnounced'
    BY <1>1 DEF Announcing
  <1>2. loaded[a] = ring /\ \A b \in Actors : InPut(b) => b = a
    BY <1>1 DEF Announcing, Exclusive
  <1>3. prop[a] \in Proposal /\ prop[a] # None
    BY <1>1, ProposalsAssumption DEF IInv, AtWork, InPut
  <1>4. \/ Cardinality(ring') = ProposalsMax
        \/ /\ Cardinality(ring) < ProposalsMax
           /\ \A q \in ring \cup {prop[a]} : \E r \in ring' : r.id = q.id
    <2>1. ring \cup {prop[a]} \subseteq Held
      BY <1>3 DEF Held
    <2>2. ring \in SUBSET Proposal /\ IsFiniteSet(ring) /\ OnePerId(ring)
      BY DEF IInv, TypeOK, Rings
    <2>3. \A q, r \in ring \cup {prop[a]} : q.created = r.created => q.id = r.id
      BY <2>1 DEF IInv, Sound
    <2>4. QED
      BY <1>1, <1>2, <1>3, <2>2, <2>3, UpsertedKeeps
  <1>5. \A i : Settled(i) => Settled(i)'
    BY <1>1, <1>4, ProposalsAssumption DEF Settled, Stored
  <1>6. Stored(ring', prop[a].id)
    BY <1>4 DEF Stored
  <1>7. Exclusive'
    BY <1>1, <1>2 DEF IInv, TypeOK, Exclusive, InPut
  <1>8. ReadyToAnnounce'
    <2> SUFFICES ASSUME NEW b \in Actors, stage'[b] = "notify"
                 PROVE  Stored(ring', prop'[b].id)
                        \/ [id |-> prop'[b].id, verdict |-> FALSE] \in unsaved'
      BY DEF ReadyToAnnounce, Settled, Stored
    <2>1. CASE b = a
      <3>1. prop'[b] = prop[a]
        BY <1>1, <2>1 DEF IInv, TypeOK
      <3>2. QED
        BY <1>6, <3>1 DEF Settled, Stored
    <2>2. CASE b # a
      <3>1. stage[b] = "notify" /\ prop'[b] = prop[b]
        BY <1>1, <2>2 DEF IInv, TypeOK
      <3>2. Settled(prop[b].id)
        BY <3>1 DEF Announcing, ReadyToAnnounce
      <3>3. QED
        BY <1>1, <1>5, <3>1, <3>2 DEF Settled, Stored
    <2>3. QED
      BY <2>1, <2>2
  <1>9. AllAnnounced'
    BY <1>1, <1>5 DEF Announcing, AllAnnounced
  <1>10. QED
    BY <1>7, <1>8, <1>9

\* Put fails to save: nothing is stored, and the record is known as unsaved.
LEMMA PutFailsAnnounces ==
  ASSUME IInv, Announcing, NEW a \in Actors, PutFails(a)
  PROVE  Announcing'
  <1>1. /\ InPut(a)
        /\ unsaved' = unsaved \cup {[id |-> prop[a].id, verdict |-> stage[a] = "recording"]}
        /\ stage' = [stage EXCEPT ![a] = IF stage[a] = "storing" THEN "notify" ELSE "idle"]
        /\ prop' = IF stage[a] = "storing" THEN prop ELSE [prop EXCEPT ![a] = None]
        /\ UNCHANGED <<ring, announced, disturbed>>
    BY DEF PutFails, PutReturns
  <1> SUFFICES ASSUME ~disturbed
               PROVE  Exclusive' /\ ReadyToAnnounce' /\ AllAnnounced'
    BY <1>1 DEF Announcing
  <1>2. \A b \in Actors : InPut(b) => b = a
    BY <1>1 DEF Announcing, Exclusive
  <1>3. \A i : Settled(i) => Stored(ring', i) \/ [id |-> i, verdict |-> FALSE] \in unsaved'
    BY <1>1 DEF Settled
  <1>4. Exclusive'
    BY <1>1, <1>2 DEF IInv, TypeOK, Exclusive, InPut
  <1>5. ReadyToAnnounce'
    <2> SUFFICES ASSUME NEW b \in Actors, stage'[b] = "notify"
                 PROVE  Stored(ring', prop'[b].id)
                        \/ [id |-> prop'[b].id, verdict |-> FALSE] \in unsaved'
      BY DEF ReadyToAnnounce, Settled, Stored
    <2>1. CASE b = a
      <3>1. stage[a] = "storing" /\ prop'[b] = prop[a]
        BY <1>1, <2>1 DEF IInv, TypeOK
      <3>2. [id |-> prop[a].id, verdict |-> FALSE] \in unsaved'
        BY <1>1, <3>1
      <3>3. prop'[b].id = prop[a].id
        BY <3>1
      <3>4. QED
        BY <3>2, <3>3, Zenon
    <2>2. CASE b # a
      <3>1. stage[b] = "notify" /\ prop'[b] = prop[b]
        BY <1>1, <2>2 DEF IInv, TypeOK
      <3>2. Settled(prop[b].id)
        BY <3>1 DEF Announcing, ReadyToAnnounce
      <3>3. QED
        BY <1>3, <3>1, <3>2
    <2>3. QED
      BY <2>1, <2>2
  <1>6. AllAnnounced'
    BY <1>1, <1>3 DEF Announcing, AllAnnounced, Settled, Stored
  <1>7. QED
    BY <1>4, <1>5, <1>6

\* Put loads, with the mutex to itself, or the ring is disturbed.
LEMMA PutLoadAnnounces ==
  ASSUME IInv, Announcing, NEW a \in Actors, PutLoad(a)
  PROVE  Announcing'
  <1> SUFFICES ASSUME ~disturbed'
               PROVE  Exclusive' /\ ReadyToAnnounce' /\ AllAnnounced'
    BY DEF Announcing
  <1>1. /\ ~disturbed /\ ~Overlaps(a)
        /\ holder[Process(a)] = None
        /\ holder' = [holder EXCEPT ![Process(a)] = a]
        /\ loaded' = [loaded EXCEPT ![a] = ring]
        /\ \E s \in {"storing", "recording"} : stage' = [stage EXCEPT ![a] = s]
        /\ UNCHANGED <<ring, prop, announced, unsaved>>
    BY DEF PutLoad, LockFree
  <1>2. \A b \in Actors : ~InPut(b)
    <2> SUFFICES ASSUME NEW b \in Actors, InPut(b) PROVE FALSE
      OBVIOUS
    <2>1. Process(b) = Process(a)
      BY <1>1 DEF Overlaps
    <2>2. holder[Process(b)] = b
      BY <1>1 DEF Announcing, Exclusive
    <2>3. QED
      BY <1>1, <2>1, <2>2, ProposalsAssumption
  <1>3. Process(a) \in Processes
    BY DEF Process, Processes
  <1>4. Exclusive'
    BY <1>1, <1>2, <1>3 DEF IInv, TypeOK, Exclusive, InPut
  <1>5. ReadyToAnnounce' /\ AllAnnounced'
    BY <1>1 DEF IInv, TypeOK, Announcing, ReadyToAnnounce, AllAnnounced, Settled, Stored
  <1>6. QED
    BY <1>4, <1>5

\* The other steps do not touch the ring, and announce only what is stored.
LEMMA OthersAnnounce ==
  ASSUME IInv, Announcing, [Next]_vars,
         ~ \E a \in Actors : Put(a)
  PROVE  Announcing'
  <1> DEFINE Quiet ==
        /\ UNCHANGED <<ring, loaded, unsaved, disturbed>>
        /\ \A b \in Actors :
             /\ stage'[b] \in {"storing", "recording", "notify"}
                  => stage'[b] = stage[b] /\ prop'[b] = prop[b]
             /\ stage'[b] \in {"storing", "recording"}
                  => holder'[Process(b)] = holder[Process(b)]
  <1>1. ASSUME Quiet
        PROVE  (Exclusive => Exclusive') /\ (ReadyToAnnounce => ReadyToAnnounce')
               /\ (\A i : Settled(i)' <=> Settled(i))
    BY <1>1 DEF Exclusive, InPut, ReadyToAnnounce, Settled, Stored
  <1>2. ASSUME Quiet, announced' = announced
        PROVE  Announcing'
    BY <1>1, <1>2 DEF Announcing, AllAnnounced
  <1>3. ASSUME NEW w \in Workers, ProposeFromContext(w)
        PROVE  Quiet /\ announced' = announced
    <2>1. /\ stage' = [stage EXCEPT ![w] = "store"]
          /\ \E p : prop' = [prop EXCEPT ![w] = p]
          /\ UNCHANGED <<ring, holder, loaded, announced, unsaved, disturbed>>
      BY <1>3 DEF ProposeFromContext, Propose, history
    <2>2. QED
      BY <2>1 DEF IInv, TypeOK, Actors
  <1>4. ASSUME NEW w \in Workers, Notify(w)
        PROVE  Announcing'
    <2>1. w \in Actors
      BY DEF Actors
    <2>2. /\ stage[w] = "notify"
          /\ \E s \in {"apply", "idle"} : stage' = [stage EXCEPT ![w] = s]
          /\ prop' = prop \/ prop' = [prop EXCEPT ![w] = None]
          /\ UNCHANGED <<ring, holder, loaded, unsaved, disturbed>>
          /\ announced' \subseteq announced \cup {prop[w].id}
      BY <1>4 DEF Notify
    <2>3. Quiet
      BY <2>1, <2>2 DEF IInv, TypeOK
    <2>4. ~disturbed => \A i \in announced' : Settled(i)
      BY <2>1, <2>2 DEF Announcing, ReadyToAnnounce, AllAnnounced
    <2>5. ~disturbed => AllAnnounced'
      BY <1>1, <2>3, <2>4 DEF AllAnnounced
    <2> HIDE DEF Quiet
    <2>6. QED
      BY <1>1, <2>2, <2>3, <2>5 DEF Announcing
  <1>5. ASSUME NEW a \in Approvers \cup Commands, Get(a)
        PROVE  Quiet /\ announced' = announced
    <2>1. /\ stage' = [stage EXCEPT ![a] = "apply"]
          /\ \E p : prop' = [prop EXCEPT ![a] = p]
          /\ UNCHANGED <<ring, holder, loaded, announced, unsaved, disturbed>>
      BY <1>5 DEF Get, history
    <2>2. QED
      BY <2>1 DEF IInv, TypeOK, Actors
  <1>6. ASSUME NEW a \in Actors, ApplyProposal(a)
        PROVE  Quiet /\ announced' = announced
    <2>1. /\ \E s \in {"record", "verify"} : stage' = [stage EXCEPT ![a] = s]
          /\ prop' = prop \/ \E p : prop' = [prop EXCEPT ![a] = p]
          /\ UNCHANGED <<ring, holder, loaded, announced, unsaved, disturbed>>
      BY <1>6 DEF ApplyProposal, ApplyDenied, Mutate, MutateFails, VerifyPasses,
                  VerifyPending, VerifyFails, Verdict
    <2>2. QED
      BY <2>1 DEF IInv, TypeOK
  <1>7. ASSUME NEW p \in Processes, Kill(p)
        PROVE  Announcing'
    <2>1. /\ \A b \in Actors :
               \/ stage'[b] = "idle"
               \/ /\ Process(b) # p /\ stage'[b] = stage[b]
                  /\ prop'[b] = prop[b] /\ loaded'[b] = loaded[b]
          /\ holder' = [holder EXCEPT ![p] = None]
          /\ UNCHANGED <<ring, announced, unsaved, disturbed>>
      BY <1>7 DEF Kill
    <2>2. \A b \in Actors : Process(b) \in Processes
      BY DEF Process, Processes
    <2>3. Exclusive => Exclusive'
      BY <2>1, <2>2 DEF IInv, TypeOK, Exclusive, InPut
    <2>4. ReadyToAnnounce => ReadyToAnnounce'
      BY <2>1 DEF ReadyToAnnounce, Settled, Stored
    <2>5. AllAnnounced => AllAnnounced'
      BY <2>1 DEF AllAnnounced, Settled, Stored
    <2>6. QED
      BY <2>1, <2>3, <2>4, <2>5 DEF Announcing
  <1>8. ASSUME UNCHANGED vars
        PROVE  Quiet /\ announced' = announced
    BY <1>8 DEF vars, history
  <1> HIDE DEF Quiet
  <1>9. QED
    BY <1>2, <1>3, <1>4, <1>5, <1>6, <1>7, <1>8 DEF Next

(***************************************************************************)
(* The theorems.                                                           *)
(***************************************************************************)
\* The inductive invariant holds in every state of the ledger.
THEOREM AlwaysIInv == Spec => []IInv
  <1>1. IInv /\ [Next]_vars => IInv'
    <2> SUFFICES ASSUME IInv, [Next]_vars PROVE IInv'
      OBVIOUS
    <2>1. ASSUME NEW w \in Workers, ProposeFromContext(w) \/ Notify(w)
          PROVE  IInv'
      BY <2>1, ProposeStep, NotifyStep
    <2>2. ASSUME NEW a \in Approvers \cup Commands, Get(a)
          PROVE  IInv'
      BY <2>2, GetStep
    <2>3. ASSUME NEW a \in Actors, Put(a) \/ ApplyProposal(a)
          PROVE  IInv'
      BY <2>3, PutLoadStep, PutReturnsStep, MutateStep, VerifyStep DEF Put, ApplyProposal
    <2>4. ASSUME NEW p \in Processes, Kill(p)
          PROVE  IInv'
      BY <2>4, KillStep
    <2>5. CASE UNCHANGED vars
      <3>1. UNCHANGED <<ring, holder, stage, prop, loaded, made, approvals,
                        announced, mutated, verified, unsaved, disturbed, killed>>
        BY <2>5 DEF vars, history
      <3>2. QED
        BY <3>1 DEF IInv, TypeOK, Sound, Held, Rings, OnePerId, AtWork, OnlyGatedMutations
    <2>6. QED
      BY <2>1, <2>2, <2>3, <2>4, <2>5 DEF Next
  <1>2. QED
    BY InitIInv, <1>1, PTL DEF Spec

\* Every variable of the ledger keeps its type.
THEOREM TypeCorrect == Spec => []TypeOK
  <1>1. IInv => TypeOK
    BY DEF IInv
  <1>2. QED
    BY AlwaysIInv, <1>1, PTL

\* The stored ring has one record per id and per creation time and at most
\* ProposalsMax of them (Put), although processes save copies that are old.
THEOREM LedgerConsistent == Spec => []RingConsistent
  <1>1. IInv => RingConsistent
    BY DEF IInv, Rings, Sound, Held, OnePerId, RingConsistent
  <1>2. QED
    BY AlwaysIInv, <1>1, PTL

\* A stored record says applied only if its mutation was verified, or had
\* nothing to verify (finalizeAfterMutate).
THEOREM AppliedVerified == Spec => []AppliedWasVerified
  <1>1. IInv => AppliedWasVerified
    BY DEF IInv, Sound, Held, AppliedWasVerified
  <1>2. QED
    BY AlwaysIInv, <1>1, PTL

\* Whoever mutates the cluster has the leave of its own policy (ApplyProposal).
THEOREM MutationsGated == Spec => []OnlyGatedMutations
  <1>1. IInv => OnlyGatedMutations
    BY DEF IInv
  <1>2. QED
    BY AlwaysIInv, <1>1, PTL

\* One id, one action on one incident: nothing else is ever stored or carried
\* out under it (FindOpen, Put), whatever targets the records have, and whoever
\* stores old copies.
THEOREM OneActionPerId == Spec => []IdNamesOneAction
  <1>1. Init => OneAction
    BY DEF Init, OneAction, Held
  <1>2. IInv /\ OneAction /\ [Next]_vars => OneAction'
    BY ProposeUnderId, OthersUnderId
  <1>3. OneAction => IdNamesOneAction
    BY DEF OneAction, IdNamesOneAction, Held
  <1>4. QED
    BY AlwaysIInv, <1>1, <1>2, <1>3, PTL DEF Spec

\* An id an alert has named can be looked up until the ring is full ("persists
\* proposals before notify"), unless the Put before the alert failed to save it,
\* for any number of loops, approvals and commands, later updates and verdicts,
\* failing saves and kills, as long as no load fails in Put and no two
\* processes are in Put at once.
THEOREM AnnouncedIsStored == Spec => []AnnouncedStored
  <1>1. Init => Announcing
    BY DEF Init, Announcing, Exclusive, InPut, ReadyToAnnounce, AllAnnounced
  <1>2. IInv /\ Announcing /\ [Next]_vars => Announcing'
    <2> SUFFICES ASSUME IInv, Announcing, [Next]_vars PROVE Announcing'
      OBVIOUS
    <2>1. CASE \E a \in Actors : Put(a)
      BY <2>1, PutSaveAnnounces, PutFailsAnnounces, PutLoadAnnounces DEF Put
    <2>2. CASE ~ \E a \in Actors : Put(a)
      BY <2>2, OthersAnnounce
    <2>3. QED
      BY <2>1, <2>2
  <1>3. Announcing => AnnouncedStored
    BY DEF Announcing, AllAnnounced, Settled, Stored, AnnouncedStored
  <1>4. QED
    BY AlwaysIInv, <1>1, <1>2, <1>3, PTL DEF Spec
=============================================================================
