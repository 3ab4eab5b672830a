--------------------------- MODULE Incidents_proofs ---------------------------
(***************************************************************************)
(* Proofs about Incidents, for any workloads, signals, watches, flags,     *)
(* backend of the store and faults.  Three invariants: IInv (types and the *)
(* consistency of builder and snapshots), Covers (severities), FileInv     *)
(* (what overlapping saves may leave in the file).                         *)
(***************************************************************************)
EXTENDS Incidents, SequenceTheorems, TLAPS

Good(b) == UniqueIn(b) /\ ClosedIn(b) /\ NumberedIn(b)

\* The step of FreshIds, for a builder before and after a call.
Fresh(b, c) == \A k \in Keys :
    IsOpen(c, k) => HoldsId(b, k, c.open[k].id) \/ c.open[k].id > b.seq

(***************************************************************************)
(* The methods of the builder keep its type and its consistency.           *)
(***************************************************************************)
\* A new builder (NewBuilder) is well typed and consistent.
LEMMA EmptyGood == EmptyBuilder \in Builder /\ Good(EmptyBuilder)
  BY BuilderAssumption
  DEF EmptyBuilder, Builder, Good, UniqueIn, ClosedIn, NumberedIn, IsOpen, Ids

\* newIncident builds an incident (openNewLocked).
LEMMA NewIncidentType ==
  ASSUME NEW id \in Ids, NEW s \in Signals, NEW t \in Nat
  PROVE  newIncident(id, s, t) \in Incident
  BY BuilderAssumption DEF newIncident, Incident, Evidence

\* attachEvidence keeps the type and the id of an incident.
LEMMA AttachType ==
  ASSUME NEW inc \in Incident, NEW s \in Signals, NEW t \in Nat
  PROVE  /\ attachEvidence(inc, s, t) \in Incident
         /\ attachEvidence(inc, s, t).id = inc.id
  <1>1. Append(inc.evidence, s) \in Seq(Evidence)
    BY DEF Incident, Evidence
  <1>2. Worse(inc.severity, Rank[s]) \in 0..5
    BY BuilderAssumption DEF Worse, Incident
  <1>3. QED
    BY <1>1, <1>2 DEF attachEvidence, Incident

\* lastEvidence keeps the tail of a sequence of evidence (exportLocked).
LEMMA LastEvidenceType ==
  ASSUME NEW ev \in Seq(Evidence)
  PROVE  lastEvidence(ev) \in Seq(Evidence)
  <1>1. CASE Len(ev) > MaxEvidence
    <2>1. Len(ev) \in Nat
      OBVIOUS
    <2>2. \A i \in Len(ev) - MaxEvidence + 1 .. Len(ev) : ev[i] \in Evidence
      BY <2>1, <1>1, BuilderAssumption
    <2>3. SubSeq(ev, Len(ev) - MaxEvidence + 1, Len(ev)) \in Seq(Evidence)
      BY <2>1, <2>2, <1>1, BuilderAssumption, SubSeqProperties
    <2>4. QED
      BY <2>3, <1>1 DEF lastEvidence
  <1>2. CASE ~(Len(ev) > MaxEvidence)
    BY <1>2 DEF lastEvidence
  <1>3. QED
    BY <1>1, <1>2

\* Recording a fingerprint leaves the incidents alone.
LEMMA SeenGood ==
  ASSUME NEW b \in Builder, NEW k \in Keys, NEW s \in Signals, NEW t \in Nat
  PROVE  /\ seen(b, k, s, t) \in Builder
         /\ seen(b, k, s, t).open = b.open
         /\ seen(b, k, s, t).recent = b.recent
         /\ seen(b, k, s, t).seq = b.seq
         /\ Good(b) => Good(seen(b, k, s, t))
  BY DEF seen, Builder, Good, UniqueIn, ClosedIn, NumberedIn, IsOpen

\* openNewLocked hands out a number no open or closed incident has.
LEMMA OpenNewGood ==
  ASSUME NEW b \in Builder, NEW k \in Keys, NEW s \in Signals, NEW t \in Nat,
         b.seq < MaxSeq
  PROVE  /\ openNewLocked(b, k, s, t) \in Builder
         /\ Good(b) => Good(openNewLocked(b, k, s, t))
         /\ Fresh(b, openNewLocked(b, k, s, t))
  <1> DEFINE inc == newIncident(b.seq + 1, s, t)
             c == openNewLocked(b, k, s, t)
  <1>1. b.seq \in Nat /\ b.seq + 1 \in Ids
    BY BuilderAssumption DEF Builder, Ids
  <1>2. inc \in Incident /\ inc.id = b.seq + 1
    BY <1>1, NewIncidentType DEF newIncident
  <1>3. /\ c.open = [b.open EXCEPT ![k] = inc]
        /\ c.recent = b.recent
        /\ c.seq = b.seq + 1
        /\ c.dedupe = b.dedupe
    BY DEF openNewLocked, Builder
  <1>4. c \in Builder
    <2>1. c = [[b EXCEPT !.open = [b.open EXCEPT ![k] = inc]] EXCEPT !.seq = b.seq + 1]
      BY DEF openNewLocked, Builder
    <2>2. [b.open EXCEPT ![k] = inc] \in [Keys -> Incident \cup {None}]
      BY <1>2 DEF Builder
    <2>3. b.seq + 1 \in 0..MaxSeq
      BY <1>1, BuilderAssumption DEF Ids
    <2> HIDE DEF c
    <2>4. QED
      BY <2>1, <2>2, <2>3 DEF Builder
  <1>5. ASSUME Good(b) PROVE Good(c)
    <2>1. \A j \in Keys : c.open[j] = IF j = k THEN inc ELSE b.open[j]
      BY <1>3 DEF Builder
    <2>2. \A j \in Keys : IsOpen(b, j) => b.open[j] \in Incident /\ b.open[j].id \in Nat
      BY DEF IsOpen, Builder, Incident, Ids
    <2>3. \A j \in Keys : b.recent[j].id \in Nat
      BY DEF Builder, Ids
    <2>4. \A j \in Keys : IsOpen(b, j) => b.open[j].id <= b.seq
      BY <1>5 DEF Good, NumberedIn
    <2>5. \A j \in Keys : b.recent[j].id <= b.seq
      BY <1>5 DEF Good, NumberedIn
    <2>6. UniqueIn(c)
      BY <1>1, <1>2, <1>5, <2>1, <2>2, <2>4 DEF UniqueIn, IsOpen, Good
    <2>7. ClosedIn(c)
      BY <1>1, <1>2, <1>3, <1>5, <2>1, <2>3, <2>5 DEF ClosedIn, IsOpen, Good
    <2>8. NumberedIn(c)
      BY <1>1, <1>2, <1>3, <2>1, <2>2, <2>3, <2>4, <2>5 DEF NumberedIn, IsOpen
    <2>9. QED
      BY <2>6, <2>7, <2>8 DEF Good
  <1>6. Fresh(b, c)
    <2>1. \A j \in Keys : c.open[j] = IF j = k THEN inc ELSE b.open[j]
      BY <1>3 DEF Builder
    <2>2. QED
      BY <1>1, <1>2, <2>1 DEF Fresh, HoldsId, IsOpen
  <1>7. QED
    BY <1>4, <1>5, <1>6

\* closeLocked moves an open incident's id to the closed ones.
LEMMA CloseGood ==
  ASSUME NEW b \in Builder, NEW k \in Keys, NEW t \in Nat, IsOpen(b, k)
  PROVE  /\ closeLocked(b, k, t) \in Builder
         /\ closeLocked(b, k, t).seq = b.seq
         /\ Good(b) => Good(closeLocked(b, k, t))
         /\ Fresh(b, closeLocked(b, k, t))
  <1> DEFINE c == closeLocked(b, k, t)
  <1>1. b.open[k] \in Incident /\ b.open[k].id \in Ids
    BY DEF IsOpen, Builder, Incident
  <1>2. /\ c.open = [b.open EXCEPT ![k] = None]
        /\ c.recent = [b.recent EXCEPT ![k] = [at |-> t, id |-> b.open[k].id]]
        /\ c.seq = b.seq
        /\ c.dedupe = b.dedupe
    BY DEF closeLocked, Builder
  <1>3. c \in Builder
    BY <1>1 DEF closeLocked, Builder
  <1>4. \A j \in Keys : c.open[j] = IF j = k THEN None ELSE b.open[j]
    BY <1>2 DEF Builder
  <1>5. \A j \in Keys : c.recent[j].id = IF j = k THEN b.open[k].id ELSE b.recent[j].id
    BY <1>2 DEF Builder
  <1>6. Good(b) => Good(c)
    BY <1>2, <1>4, <1>5 DEF Good, UniqueIn, ClosedIn, NumberedIn, IsOpen
  <1>7. Fresh(b, c)
    BY <1>4 DEF Fresh, HoldsId, IsOpen
  <1>8. QED
    BY <1>2, <1>3, <1>6, <1>7

\* Attaching evidence to an open incident (Ingest) keeps its id.
LEMMA PutGood ==
  ASSUME NEW b \in Builder, NEW k \in Keys, NEW inc \in Incident,
         HoldsId(b, k, inc.id)
  PROVE  /\ put(b, k, inc) \in Builder
         /\ put(b, k, inc).seq = b.seq
         /\ Good(b) => Good(put(b, k, inc))
         /\ Fresh(b, put(b, k, inc))
  <1> DEFINE c == put(b, k, inc)
  <1>1. /\ c.open = [b.open EXCEPT ![k] = inc]
        /\ c.recent = b.recent
        /\ c.seq = b.seq
        /\ c \in Builder
    BY DEF put, Builder
  <1>2. \A j \in Keys : c.open[j] = IF j = k THEN inc ELSE b.open[j]
    BY <1>1 DEF Builder
  <1>3. inc # None /\ IsOpen(b, k) /\ b.open[k].id = inc.id
    BY BuilderAssumption DEF HoldsId
  <1>4. Good(b) => Good(c)
    BY <1>1, <1>2, <1>3 DEF Good, UniqueIn, ClosedIn, NumberedIn, IsOpen
  <1>5. Fresh(b, c)
    BY <1>2, <1>3 DEF Fresh, HoldsId, IsOpen
  <1>6. QED
    BY <1>1, <1>4, <1>5

\* A builder whose open incidents change, but neither their keys nor their
\* ids, stays consistent.
LEMMA SameIdsGood ==
  ASSUME NEW b \in Builder, NEW f \in [Keys -> Incident \cup {None}],
         \A k \in Keys : IF IsOpen(b, k) THEN f[k] # None /\ f[k].id = b.open[k].id
                                         ELSE f[k] = None
  PROVE  /\ [b EXCEPT !.open = f] \in Builder
         /\ Good(b) => Good([b EXCEPT !.open = f])
         /\ Fresh(b, [b EXCEPT !.open = f])
  <1> DEFINE c == [b EXCEPT !.open = f]
  <1>1. c \in Builder /\ c.open = f /\ c.recent = b.recent /\ c.seq = b.seq
    BY DEF Builder
  <1>2. Good(b) => Good(c)
    BY <1>1 DEF Good, UniqueIn, ClosedIn, NumberedIn, IsOpen
  <1>3. Fresh(b, c)
    BY <1>1 DEF Fresh, HoldsId, IsOpen
  <1>4. QED
    BY <1>1, <1>2, <1>3

\* SyncIncident puts a copy back only over the open incident with its id.
LEMMA SyncedGood ==
  ASSUME NEW b \in Builder, NEW inc \in Incident
  PROVE  /\ synced(b, inc) \in Builder
         /\ Good(b) => Good(synced(b, inc))
         /\ Fresh(b, synced(b, inc))
  <1> DEFINE f == [k \in Keys |-> IF HoldsId(b, k, inc.id) THEN inc ELSE b.open[k]]
  <1>1. f \in [Keys -> Incident \cup {None}]
    BY DEF Builder
  <1>2. \A k \in Keys : IF IsOpen(b, k) THEN f[k] # None /\ f[k].id = b.open[k].id
                                        ELSE f[k] = None
    BY BuilderAssumption DEF HoldsId, IsOpen
  <1>3. synced(b, inc) = [b EXCEPT !.open = f]
    BY DEF synced
  <1> HIDE DEF f
  <1>4. QED
    BY <1>1, <1>2, <1>3, SameIdsGood

\* SetNotifierThread changes the thread and the time of one open incident.
LEMMA WithThreadGood ==
  ASSUME NEW b \in Builder, NEW id \in Ids, NEW ts \in Nat, NEW t \in Nat
  PROVE  /\ withThread(b, id, ts, t) \in Builder
         /\ Good(b) => Good(withThread(b, id, ts, t))
         /\ Fresh(b, withThread(b, id, ts, t))
  <1> DEFINE g(k) == [b.open[k] EXCEPT !.thread = ts, !.updated = t]
             f == [k \in Keys |-> IF HoldsId(b, k, id) THEN g(k) ELSE b.open[k]]
  <1>1. ASSUME NEW k \in Keys, IsOpen(b, k)
        PROVE  g(k) \in Incident /\ g(k).id = b.open[k].id /\ g(k) # None
    <2>1. b.open[k] \in Incident
      BY <1>1 DEF IsOpen, Builder
    <2>2. g(k) \in Incident /\ g(k).id = b.open[k].id
      BY <2>1 DEF Incident
    <2>3. QED
      BY <2>2, BuilderAssumption
  <1>2. f \in [Keys -> Incident \cup {None}]
    BY <1>1 DEF Builder, HoldsId
  <1>3. \A k \in Keys : IF IsOpen(b, k) THEN f[k] # None /\ f[k].id = b.open[k].id
                                        ELSE f[k] = None
    BY <1>1 DEF HoldsId, IsOpen
  <1>4. withThread(b, id, ts, t) = [b EXCEPT !.open = f]
    BY DEF withThread
  <1> HIDE DEF f
  <1>5. QED
    BY <1>2, <1>3, <1>4, SameIdsGood

\* A snapshot is the builder with its evidence cut (exportLocked).
LEMMA ExportGood ==
  ASSUME NEW b \in Builder
  PROVE  /\ exportLocked(b) \in Builder
         /\ Good(b) => Good(exportLocked(b))
  <1> DEFINE g(k) == [b.open[k] EXCEPT !.evidence = lastEvidence(b.open[k].evidence)]
             f == [k \in Keys |-> IF IsOpen(b, k) THEN g(k) ELSE None]
  <1>1. ASSUME NEW k \in Keys, IsOpen(b, k)
        PROVE  g(k) \in Incident /\ g(k).id = b.open[k].id /\ g(k) # None
    <2>1. b.open[k] \in Incident /\ b.open[k].evidence \in Seq(Evidence)
      BY <1>1 DEF IsOpen, Builder, Incident
    <2>2. lastEvidence(b.open[k].evidence) \in Seq(Evidence)
      BY <2>1, LastEvidenceType
    <2>3. g(k) \in Incident /\ g(k).id = b.open[k].id
      BY <2>1, <2>2 DEF Incident
    <2>4. QED
      BY <2>3, BuilderAssumption
  <1>2. f \in [Keys -> Incident \cup {None}]
    BY <1>1
  <1>3. \A k \in Keys : IF IsOpen(b, k) THEN f[k] # None /\ f[k].id = b.open[k].id
                                        ELSE f[k] = None
    BY <1>1
  <1>4. exportLocked(b) = [b EXCEPT !.open = f]
    BY DEF exportLocked
  <1> HIDE DEF f
  <1>5. QED
    BY <1>2, <1>3, <1>4, SameIdsGood

\* Sweep closes the quiet incidents.
LEMMA SweptGood ==
  ASSUME NEW b \in Builder, NEW t \in Nat
  PROVE  /\ swept(b, t) \in Builder
         /\ swept(b, t).seq = b.seq
         /\ \A k \in Keys : swept(b, t).open[k] \in {b.open[k], None}
         /\ Good(b) => Good(swept(b, t))
         /\ Fresh(b, swept(b, t))
  <1> DEFINE c == swept(b, t)
  <1>1. /\ c.open = [k \in Keys |-> IF Quiet(b, k, t) THEN None ELSE b.open[k]]
        /\ c.recent = [k \in Keys |-> IF Quiet(b, k, t)
                                      THEN [at |-> t, id |-> b.open[k].id]
                                      ELSE b.recent[k]]
        /\ c.seq = b.seq
    BY DEF swept
  <1>2. \A k \in Keys : Quiet(b, k, t) => b.open[k].id \in Ids
    BY DEF Quiet, IsOpen, Builder, Incident
  <1>3. c.recent \in [Keys -> [at : Nat, id : Ids \cup {0}]]
    BY <1>1, <1>2 DEF Builder
  <1>4. c.dedupe \in [Keys -> [Signals -> Nat]]
    BY DEF swept, Builder
  <1>5. c \in Builder
    BY <1>1, <1>3, <1>4 DEF swept, Builder
  <1>6. \A k \in Keys : c.open[k] = IF Quiet(b, k, t) THEN None ELSE b.open[k]
    BY <1>1
  <1>7. ASSUME NEW k \in Keys
        PROVE  c.recent[k].id = IF Quiet(b, k, t) THEN b.open[k].id ELSE b.recent[k].id
    <2>1. CASE Quiet(b, k, t)
      <3>1. c.recent[k] = [at |-> t, id |-> b.open[k].id]
        BY <1>1, <2>1
      <3>2. QED
        BY <3>1, <2>1
    <2>2. CASE ~Quiet(b, k, t)
      <3>1. c.recent[k] = b.recent[k]
        BY <1>1, <2>2
      <3>2. QED
        BY <3>1, <2>2
    <2>3. QED
      BY <2>1, <2>2
  <1>8. \A k \in Keys : Quiet(b, k, t) => IsOpen(b, k)
    BY DEF Quiet
  <1>9. Good(b) => Good(c)
    BY <1>1, <1>6, <1>7, <1>8 DEF Good, UniqueIn, ClosedIn, NumberedIn, IsOpen
  <1>10. Fresh(b, c)
    BY <1>6 DEF Fresh, HoldsId, IsOpen
  <1>11. QED
    BY <1>1, <1>5, <1>6, <1>9, <1>10

\* Nothing changes: no incident gets another number.
LEMMA FreshSame == ASSUME NEW b, NEW c, c.open = b.open PROVE Fresh(b, c)
  BY DEF Fresh, HoldsId, IsOpen

\* Two calls in one handler, the first of which hands out no number.
LEMMA FreshTwice ==
  ASSUME NEW b, NEW c, NEW d, Fresh(b, c), Fresh(c, d), c.seq = b.seq
  PROVE  Fresh(b, d)
  BY DEF Fresh, HoldsId

(***************************************************************************)
(* The inductive invariant.  The stored and the exported snapshots must be *)
(* as consistent as the builder, since any of them may be restored, and    *)
(* each stage of a goroutine must find what the stages before it left.     *)
(***************************************************************************)
Stored ==
    /\ disk \in Builder => Good(disk)
    /\ tmp \in Builder => Good(tmp)
    /\ \A a \in Actors : snap[a] # None => Good(snap[a])

Working == \A a \in Actors :
    /\ stage[a] = "idle" => after[a] = "idle"
    /\ stage[a] \in {"attach", "notify", "post", "apply"} => ch[a] # None
    /\ stage[a] \in {"export", "save", "write", "rename"} /\ after[a] # "idle" => ch[a] # None
    /\ stage[a] \in {"save", "write", "rename"} => snap[a] # None

IInv == TypeOK /\ Good(mem) /\ Stored /\ Working

\* The agent starts (newAgentRunCmd) in a state that satisfies it.
LEMMA InitIInv == Init => IInv
  <1> SUFFICES ASSUME Init PROVE IInv
    OBVIOUS
  <1>1. EmptyBuilder \in Builder /\ Good(EmptyBuilder)
    BY EmptyGood
  <1>2. TypeOK
    BY <1>1, BuilderAssumption, IncidentsAssumption
    DEF Init, Idle, TypeOK, Actors, Stages, Handles
  <1>3. Stored /\ Good(mem)
    BY <1>1, IncidentsAssumption DEF Stored, Init, Idle
  <1>4. Working
    BY DEF Working, Init, Idle
  <1>5. QED
    BY <1>2, <1>3, <1>4 DEF IInv

(***************************************************************************)
(* The event handler.                                                      *)
(***************************************************************************)
\* What every emitted change of the handler has in common keeps the invariant,
\* whatever consistent builder Ingest left.
LEMMA IngestedStep ==
  ASSUME IInv, NEW r \in Resources, NEW k \in Keys, NEW inc \in Incident,
         NEW kind \in {"opened", "reopened", "updated", "closed"},
         Ingested(r, k, kind, inc), mem' \in Builder, Good(mem')
  PROVE  IInv'
  <1>1. r \in Actors /\ [kind |-> kind, key |-> k, inc |-> inc] \in Change
    BY DEF Actors, Change
  <1>2. [kind |-> kind, key |-> k, inc |-> inc] # None
    BY <1>1, IncidentsAssumption
  <1>3. TypeOK'
    BY <1>1 DEF IInv, TypeOK, Ingested, slack, store, saving, Stages
  <1>4. Stored'
    BY DEF IInv, Stored, Ingested, store
  <1>5. Working'
    BY <1>1, <1>2 DEF IInv, Working, TypeOK, Ingested
  <1>6. QED
    BY <1>3, <1>4, <1>5 DEF IInv

\* Builder.Ingest: opens, joins, rotates, recovers.
LEMMA IngestStep ==
  ASSUME IInv, NEW r \in Resources, Ingest(r)
  PROVE  IInv' /\ Fresh(mem, mem')
  <1> PICK k \in Keys, s \in Signals :
          \/ IngestOpens(r, k, s) \/ IngestJoins(r, k, s)
          \/ IngestRotates(r, k, s) \/ IngestRecovers(r, k, s)
    BY DEF Ingest
  <1> DEFINE b == seen(mem, k, s, now)
  <1>1. mem \in Builder /\ now \in Nat /\ Good(mem) /\ mem.seq \in Nat
    BY BuilderAssumption DEF IInv, TypeOK, Builder
  <1>2. /\ b \in Builder /\ Good(b)
        /\ b.open = mem.open /\ b.recent = mem.recent /\ b.seq = mem.seq
    BY <1>1, SeenGood
  <1>3. Fresh(mem, b)
    BY <1>2, FreshSame
  <1>4. ASSUME IsOpen(mem, k)
        PROVE  mem.open[k] \in Incident
    BY <1>1, <1>4 DEF IsOpen, Builder
  <1>5. ASSUME IsOpen(mem, k)
        PROVE  /\ attachEvidence(mem.open[k], s, now) \in Incident
               /\ attachEvidence(mem.open[k], s, now).id = mem.open[k].id
    BY <1>1, <1>4, <1>5, AttachType
  <1>6. ASSUME mem.seq < MaxSeq
        PROVE  newIncident(mem.seq + 1, s, now) \in Incident
    <2>1. mem.seq + 1 \in Ids
      BY <1>1, <1>6, BuilderAssumption DEF Ids
    <2>2. QED
      BY <2>1, <1>1, NewIncidentType
  <1> HIDE DEF b
  <1>7. CASE IngestOpens(r, k, s)
    <2>1. mem' = openNewLocked(b, k, s, now) /\ b.seq < MaxSeq
      BY <1>7, <1>2 DEF IngestOpens, b
    <2>2. mem' \in Builder /\ Good(mem') /\ Fresh(b, mem')
      BY <2>1, <1>1, <1>2, OpenNewGood
    <2>3. Fresh(mem, mem')
      BY <2>2, <1>2, <1>3, FreshTwice
    <2>4. PICK kind \in {"reopened", "opened"} :
              Ingested(r, k, kind, newIncident(mem.seq + 1, s, now))
      BY <1>7 DEF IngestOpens
    <2>5. IInv'
      BY <2>1, <2>2, <2>4, <1>2, <1>6, IngestedStep
    <2>6. QED
      BY <2>3, <2>5
  <1>8. CASE IngestJoins(r, k, s)
    <2>1. PICK inc \in Incident : /\ inc.id = mem.open[k].id
                                  /\ mem' = put(b, k, inc)
                                  /\ Ingested(r, k, "updated", inc)
                                  /\ IsOpen(mem, k)
      BY <1>8, <1>5 DEF IngestJoins, b
    <2>2. HoldsId(b, k, inc.id)
      BY <2>1, <1>2 DEF HoldsId, IsOpen
    <2>3. mem' \in Builder /\ Good(mem') /\ Fresh(b, mem')
      BY <2>1, <2>2, <1>2, PutGood
    <2>4. Fresh(mem, mem')
      BY <2>3, <1>2, <1>3, FreshTwice
    <2>5. IInv'
      BY <2>1, <2>3, IngestedStep
    <2>6. QED
      BY <2>4, <2>5
  <1>9. CASE IngestRotates(r, k, s)
    <2> DEFINE c == closeLocked(b, k, now)
    <2>1. mem' = openNewLocked(c, k, s, now) /\ mem.seq < MaxSeq /\ IsOpen(b, k)
      BY <1>9, <1>2 DEF IngestRotates, b, IsOpen
    <2>2. c \in Builder /\ c.seq = b.seq /\ Good(c) /\ Fresh(b, c)
      BY <2>1, <1>1, <1>2, CloseGood
    <2> HIDE DEF c
    <2>3. mem' \in Builder /\ Good(mem') /\ Fresh(c, mem')
      BY <2>1, <2>2, <1>1, <1>2, OpenNewGood
    <2>4. Fresh(mem, mem')
      BY <2>2, <2>3, <1>2, <1>3, FreshTwice
    <2>5. Ingested(r, k, "opened", newIncident(mem.seq + 1, s, now))
      BY <1>9 DEF IngestRotates
    <2>6. IInv'
      BY <2>1, <2>3, <2>5, <1>6, IngestedStep
    <2>7. QED
      BY <2>4, <2>6
  <1>10. CASE IngestRecovers(r, k, s)
    <2>1. /\ mem' = closeLocked(mem, k, now) /\ IsOpen(mem, k)
          /\ Ingested(r, k, "closed", attachEvidence(mem.open[k], s, now))
      BY <1>10 DEF IngestRecovers
    <2>2. mem' \in Builder /\ Good(mem') /\ Fresh(mem, mem')
      BY <2>1, <1>1, CloseGood
    <2>3. IInv'
      BY <2>1, <2>2, <1>5, IngestedStep
    <2>4. QED
      BY <2>2, <2>3
  <1>11. QED
    BY <1>7, <1>8, <1>9, <1>10

\* The log fetch and SyncIncident.
LEMMA SyncLogsStep ==
  ASSUME IInv, NEW r \in Resources, SyncLogs(r)
  PROVE  IInv' /\ Fresh(mem, mem')
  <1>1. r \in Actors /\ mem \in Builder /\ Good(mem)
    BY DEF IInv, TypeOK, Actors
  <1>2. ch[r] \in Change
    BY <1>1 DEF IInv, TypeOK, Working, SyncLogs
  <1>3. PICK tail \in {<<>>, <<"log">>} :
            LET inc == [ch[r].inc EXCEPT !.evidence = @ \o tail]
            IN  mem' = synced(mem, inc) /\ ch' = [ch EXCEPT ![r].inc = inc]
    BY DEF SyncLogs
  <1> DEFINE inc == [ch[r].inc EXCEPT !.evidence = @ \o tail]
             c == [ch[r] EXCEPT !.inc = inc]
  <1>4. inc \in Incident
    <2>1. tail \in Seq(Evidence)
      <3>1. "log" \in Evidence
        BY DEF Evidence
      <3>2. <<>> \in Seq(Evidence) /\ <<"log">> \in Seq(Evidence)
        BY <3>1
      <3>3. QED
        BY <3>2
    <2>2. ch[r].inc \in Incident /\ ch[r].inc.evidence \in Seq(Evidence)
      BY <1>2 DEF Change, Incident
    <2>3. ch[r].inc.evidence \o tail \in Seq(Evidence)
      BY <2>1, <2>2, ConcatProperties
    <2>4. QED
      BY <2>2, <2>3 DEF Incident
  <1>5. mem' = synced(mem, inc) /\ ch' = [ch EXCEPT ![r] = c]
    BY <1>3
  <1> HIDE DEF inc
  <1>6. c \in Change /\ c # None
    BY <1>2, <1>4, IncidentsAssumption DEF Change
  <1> HIDE DEF c
  <1>7. mem' \in Builder /\ Good(mem') /\ Fresh(mem, mem')
    BY <1>1, <1>4, <1>5, SyncedGood
  <1>8. TypeOK'
    BY <1>1, <1>5, <1>6, <1>7 DEF IInv, TypeOK, SyncLogs, slack, store, saving, Stages
  <1>9. Stored'
    BY DEF IInv, Stored, SyncLogs, store
  <1>10. Working'
    BY <1>1, <1>5, <1>6 DEF IInv, Working, TypeOK, SyncLogs
  <1>11. QED
    BY <1>7, <1>8, <1>9, <1>10 DEF IInv

(***************************************************************************)
(* Persist.                                                                *)
(***************************************************************************)
\* Persist returns to where the goroutine came from, whatever became of the save.
LEMMA ReturnsStep ==
  ASSUME IInv, NEW a \in Actors, PersistReturns(a),
         stage[a] \in {"export", "save", "write", "rename"},
         disk' \in Builder \cup Unreadable, disk' \in Builder => Good(disk'),
         tmp' \in {tmp, None}, handle' \in [Actors -> Handles], crowded' \in BOOLEAN
  PROVE  IInv'
  <1>1. mem \in Builder /\ Good(mem) /\ None \notin Builder
    BY IncidentsAssumption DEF IInv, TypeOK
  <1>2. TypeOK'
    <2>1. /\ snap' \in [Actors -> Builder \cup {None}]
          /\ stage' \in [Actors -> Stages]
          /\ after' \in [Actors -> {"notify", "apply", "idle"}]
          /\ ch' \in [Actors -> Change \cup {None}]
          /\ overlap' \in SUBSET Actors
      BY DEF IInv, TypeOK, PersistReturns, Stages
    <2>2. tmp' \in Builder \cup Unreadable \cup {None}
      BY DEF IInv, TypeOK
    <2>3. QED
      BY <2>1, <2>2 DEF IInv, TypeOK, PersistReturns, slack
  <1>3. Stored'
    BY <1>1 DEF IInv, TypeOK, Stored, PersistReturns
  <1>4. Working'
    BY DEF IInv, TypeOK, Working, PersistReturns
  <1>5. QED
    BY <1>1, <1>2, <1>3, <1>4 DEF IInv, PersistReturns

\* Persist exports the builder, and saves or loses the copy.
LEMMA PersistStep ==
  ASSUME IInv, NEW a \in Actors, Persist(a)
  PROVE  IInv' /\ Fresh(mem, mem')
  <1>1. mem' = mem /\ mem \in Builder /\ Good(mem)
    BY DEF IInv, TypeOK, Persist, Save, Export, SaveFails, NoStore, PersistReturns,
           CmGet, CmWrite, FileOpen, FileWrite, FileRename
  <1>2. Fresh(mem, mem')
    BY <1>1, FreshSame
  <1>3. CASE Export(a)
    <2>1. exportLocked(mem) \in Builder /\ Good(exportLocked(mem))
      BY <1>1, ExportGood
    <2>2. exportLocked(mem) # None
      BY <2>1, IncidentsAssumption
    <2>3. TypeOK'
      <3>1. overlap' \in SUBSET Actors /\ crowded' \in BOOLEAN
        BY <1>3 DEF IInv, TypeOK, Export, Saving
      <3>2. snap' \in [Actors -> Builder \cup {None}] /\ stage' \in [Actors -> Stages]
        BY <1>3, <2>1 DEF IInv, TypeOK, Export, Stages
      <3>3. QED
        BY <1>3, <3>1, <3>2 DEF IInv, TypeOK, Export, slack
    <2>4. Stored'
      BY <1>3, <2>1 DEF IInv, TypeOK, Stored, Export
    <2>5. Working'
      BY <1>3, <2>2 DEF IInv, TypeOK, Working, Export
    <2>6. QED
      BY <1>1, <1>2, <2>3, <2>4, <2>5 DEF IInv
  <1>4. stage[a] \in {"save", "write", "rename"} => snap[a] \in Builder /\ Good(snap[a])
    BY DEF IInv, TypeOK, Stored, Working
  <1>5. CASE CmGet(a) \/ FileOpen(a)
    <2>1. /\ stage[a] = "save" /\ stage' = [stage EXCEPT ![a] = "write"]
          /\ tmp' \in {tmp, Blank}
          /\ handle' = [handle EXCEPT ![a] = "current"] \/ handle' = [handle EXCEPT ![a] = "tmp"]
          /\ UNCHANGED <<now, up, mem, disk, overlap, crowded, after, ch, rest, snap, thread,
                         slack, crashes>>
      BY <1>5 DEF CmGet, FileOpen
    <2>2. handle' \in [Actors -> Handles] /\ stage' \in [Actors -> Stages]
      BY <2>1 DEF IInv, TypeOK, Handles, Stages
    <2>3. TypeOK'
      BY <2>1, <2>2 DEF IInv, TypeOK, Unreadable, slack
    <2>4. Blank \notin Builder
      BY IncidentsAssumption
    <2>5. Stored' /\ Working'
      BY <2>1, <2>4 DEF IInv, TypeOK, Stored, Working
    <2>6. QED
      BY <1>1, <1>2, <2>3, <2>5 DEF IInv
  <1>6. CASE FileWrite(a)
    <2>1. /\ stage[a] = "write" /\ stage' = [stage EXCEPT ![a] = "rename"]
          /\ disk' \in {disk, snap[a], Torn} /\ tmp' \in {tmp, snap[a], Torn}
          /\ UNCHANGED <<now, up, mem, saving, after, ch, rest, snap, thread, slack, crashes>>
      BY <1>6 DEF FileWrite, Written
    <2>2. stage' \in [Actors -> Stages]
      BY <2>1 DEF IInv, TypeOK, Stages
    <2>3. TypeOK'
      BY <1>4, <2>1, <2>2 DEF IInv, TypeOK, Unreadable, slack, saving
    <2>4. Torn \notin Builder
      BY IncidentsAssumption
    <2>5. Stored'
      BY <1>4, <2>1, <2>4 DEF IInv, TypeOK, Stored
    <2>6. Working'
      BY <2>1 DEF IInv, TypeOK, Working
    <2>7. QED
      BY <1>1, <1>2, <2>3, <2>5, <2>6 DEF IInv
  <1>7. CASE CmWrite(a)
    <2>1. PersistReturns(a) /\ stage[a] = "write" /\ tmp' = tmp /\ crowded' = crowded
          /\ disk' \in {disk, snap[a]}
      BY <1>7 DEF CmWrite
    <2>2. handle' \in [Actors -> Handles]
      BY <1>7 DEF CmWrite, IInv, TypeOK, Handles
    <2>3. disk' \in Builder \cup Unreadable /\ (disk' \in Builder => Good(disk'))
      BY <1>4, <2>1 DEF IInv, TypeOK, Stored
    <2>4. QED
      BY <1>2, <2>1, <2>2, <2>3, ReturnsStep DEF IInv, TypeOK
  <1>8. CASE FileRename(a)
    <2>1. /\ PersistReturns(a) /\ stage[a] = "rename" /\ tmp' \in {tmp, None}
          /\ disk' \in {disk, tmp} /\ (tmp = None => disk' = disk)
      BY <1>8 DEF FileRename
    <2>2. \A h \in Handles : Renamed(h) \in Handles
      BY DEF Handles, Renamed
    <2>3. handle' \in [Actors -> Handles]
      <3>1. "none" \in Handles /\ handle \in [Actors -> Handles]
        BY DEF IInv, TypeOK, Handles
      <3>2. QED
        BY <1>8, <2>2, <3>1 DEF FileRename
    <2>4. disk' \in Builder \cup Unreadable /\ (disk' \in Builder => Good(disk'))
      BY <2>1 DEF IInv, TypeOK, Stored
    <2>5. crowded' \in BOOLEAN
      BY <1>8 DEF FileRename, IInv, TypeOK
    <2>6. QED
      BY <1>2, <2>1, <2>3, <2>4, <2>5, ReturnsStep
  <1>9. CASE SaveFails(a) \/ NoStore(a)
    <2>1. /\ PersistReturns(a) /\ stage[a] \in {"export", "save", "write", "rename"}
          /\ UNCHANGED <<disk, tmp, crowded>>
          /\ handle' = handle \/ handle' = [handle EXCEPT ![a] = "none"]
      BY <1>9 DEF SaveFails, NoStore
    <2>2. handle' \in [Actors -> Handles]
      BY <2>1 DEF IInv, TypeOK, Handles
    <2>3. disk' \in Builder \cup Unreadable /\ (disk' \in Builder => Good(disk'))
          /\ crowded' \in BOOLEAN
      BY <2>1 DEF IInv, TypeOK, Stored
    <2>4. QED
      BY <1>2, <2>1, <2>2, <2>3, ReturnsStep
  <1>10. QED
    BY <1>3, <1>5, <1>6, <1>7, <1>8, <1>9 DEF Persist, Save

(***************************************************************************)
(* emitChange and the sweeper.                                             *)
(***************************************************************************)
\* Going on to the next change to emit, or to the end (emitChange returns).
LEMMA EmitNextStep ==
  ASSUME IInv, NEW a \in Actors, NEW todo \in SUBSET Change, EmitNext(a, todo),
         mem' \in Builder, Good(mem'),
         UNCHANGED <<now, up, store, snap, thread, slack, crashes>>
  PROVE  IInv'
  <1>1. CASE todo = {} /\ ch' = [ch EXCEPT ![a] = None]
             /\ rest' = [rest EXCEPT ![a] = {}]
             /\ stage' = [stage EXCEPT ![a] = IF a = Sweeper THEN "export" ELSE "idle"]
    <2>1. TypeOK'
      BY <1>1 DEF IInv, TypeOK, EmitNext, slack, store, saving, Stages
    <2>2. Stored'
      BY DEF IInv, Stored, store
    <2>3. Working'
      BY <1>1 DEF IInv, TypeOK, Working, EmitNext
    <2>4. QED
      BY <2>1, <2>2, <2>3 DEF IInv
  <1>2. ASSUME NEW c \in todo, ch' = [ch EXCEPT ![a] = c],
               rest' = [rest EXCEPT ![a] = todo \ {c}],
               stage' = [stage EXCEPT ![a] = "notify"]
        PROVE  IInv'
    <2>1. c \in Change /\ c # None /\ todo \ {c} \in SUBSET Change
      BY IncidentsAssumption
    <2>2. TypeOK'
      BY <1>2, <2>1 DEF IInv, TypeOK, EmitNext, slack, store, saving, Stages
    <2>3. Stored'
      BY DEF IInv, Stored, store
    <2>4. Working'
      BY <1>2, <2>1 DEF IInv, TypeOK, Working, EmitNext
    <2>5. QED
      BY <2>2, <2>3, <2>4 DEF IInv
  <1>3. QED
    BY <1>1, <1>2 DEF EmitNext

\* emitChange: lookup, post, stamp.
LEMMA EmitStep ==
  ASSUME IInv, NEW a \in Actors, emitChange(a)
  PROVE  IInv' /\ Fresh(mem, mem')
  <1>1. /\ mem \in Builder /\ Good(mem) /\ now \in Nat /\ posts \in Nat
        /\ ch[a] \in Change \cup {None} /\ rest[a] \in SUBSET Change
        /\ thread[a] \in Nat
    BY DEF IInv, TypeOK
  <1>2. ASSUME ch[a] # None
        PROVE  /\ ch[a] \in Change /\ ch[a].key \in Keys /\ ch[a].inc \in Incident
               /\ ch[a].inc.id \in Ids /\ ch[a].inc.thread \in Nat
    BY <1>1, <1>2 DEF Change, Incident
  <1>3. CASE EmitReturns(a)
    <2>1. mem' = mem /\ Fresh(mem, mem')
      BY <1>3, FreshSame DEF EmitReturns
    <2>2. IInv'
      BY <1>1, <1>3, <2>1, EmitNextStep DEF EmitReturns
    <2>3. QED
      BY <2>1, <2>2
  <1>4. CASE LookupThread(a)
    <2>1. mem' = mem /\ Fresh(mem, mem') /\ ch[a] # None
      BY <1>4, FreshSame DEF LookupThread, IInv, Working
    <2>2. threads[ch[a].inc.id] \in Nat
      BY <1>2, <2>1 DEF IInv, TypeOK
    <2>3. NotifierThread(mem, ch[a].inc.id) \in Nat
      BY <1>1 DEF NotifierThread, HoldsId, IsOpen, Builder, Incident
    <2>4. thread' \in [Actors -> Nat]
      BY <1>2, <1>4, <2>1, <2>2, <2>3 DEF LookupThread, IInv, TypeOK
    <2>5. TypeOK'
      BY <1>1, <1>4, <2>1, <2>4 DEF IInv, TypeOK, LookupThread, slack, store, saving, Stages
    <2>6. Stored'
      BY <1>4 DEF IInv, Stored, LookupThread, store
    <2>7. Working'
      BY <1>4, <2>1 DEF IInv, TypeOK, Working, LookupThread
    <2>8. QED
      BY <1>1, <2>1, <2>5, <2>6, <2>7 DEF IInv
  <1>5. CASE Post(a)
    <2>1. ch[a] # None /\ Posted(a) \in Nat
      BY <1>1, <1>5 DEF Post, Posted, IInv, Working
    <2>2. mem' \in Builder /\ Good(mem') /\ Fresh(mem, mem')
      BY <1>1, <1>2, <1>5, <2>1, WithThreadGood DEF Post
    <2>3. TypeOK'
      BY <1>1, <1>2, <1>5, <2>1, <2>2 DEF IInv, TypeOK, Post, Stages, store, saving
    <2>4. Stored'
      BY <1>5 DEF IInv, Stored, Post, store
    <2>5. Working'
      BY <1>5, <2>1 DEF IInv, TypeOK, Working, Post
    <2>6. QED
      BY <2>2, <2>3, <2>4, <2>5 DEF IInv
  <1>6. CASE PostFails(a)
    <2>1. mem' = mem /\ Fresh(mem, mem') /\ ch[a] # None
      BY <1>6, FreshSame DEF PostFails, IInv, Working
    <2>2. TypeOK'
      BY <1>1, <1>6, <2>1 DEF IInv, TypeOK, PostFails, slack, store, saving, Stages
    <2>3. Stored'
      BY <1>6 DEF IInv, Stored, PostFails, store
    <2>4. Working'
      BY <1>6, <2>1 DEF IInv, TypeOK, Working, PostFails
    <2>5. QED
      BY <1>1, <2>1, <2>2, <2>3, <2>4 DEF IInv
  <1>7. CASE StampOutcome(a)
    <2>1. ch[a] # None
      BY <1>7 DEF StampOutcome, IInv, Working
    <2>2. mem' \in Builder /\ Good(mem') /\ Fresh(mem, mem')
      BY <1>1, <1>2, <1>7, <2>1, SyncedGood DEF StampOutcome
    <2>3. TypeOK'
      BY <1>7, <2>2 DEF IInv, TypeOK, StampOutcome, slack, store, saving, Stages
    <2>4. Stored'
      BY <1>7 DEF IInv, Stored, StampOutcome, store
    <2>5. Working'
      BY <1>7, <2>1 DEF IInv, TypeOK, Working, StampOutcome
    <2>6. QED
      BY <2>2, <2>3, <2>4, <2>5 DEF IInv
  <1>8. QED
    BY <1>3, <1>4, <1>5, <1>6, <1>7 DEF emitChange

\* Builder.Sweep under the sweeper's ticker.
LEMMA SweepStep ==
  ASSUME IInv, Sweep
  PROVE  IInv' /\ Fresh(mem, mem')
  <1> DEFINE closed(k) == [kind |-> "closed", key |-> k,
                           inc |-> [mem.open[k] EXCEPT !.updated = now]]
             todo == {closed(k) : k \in {j \in Keys : Quiet(mem, j, now)}}
  <1>1. mem \in Builder /\ Good(mem) /\ now \in Nat /\ Sweeper \in Actors
    BY DEF IInv, TypeOK, Actors
  <1>2. mem' \in Builder /\ Good(mem') /\ Fresh(mem, mem')
    BY <1>1, SweptGood DEF Sweep
  <1>3. ASSUME NEW k \in Keys, Quiet(mem, k, now)
        PROVE  closed(k) \in Change
    <2>1. mem.open[k] \in Incident
      BY <1>1, <1>3 DEF Quiet, IsOpen, Builder
    <2>2. [mem.open[k] EXCEPT !.updated = now] \in Incident
      BY <1>1, <2>1 DEF Incident
    <2>3. QED
      BY <2>2 DEF Change
  <1>4. todo \in SUBSET Change
    BY <1>3
  <1>5. EmitNext(Sweeper, todo) /\ UNCHANGED <<now, up, store, snap, thread, slack, crashes>>
    BY DEF Sweep
  <1> HIDE DEF todo
  <1>6. IInv'
    BY <1>1, <1>2, <1>4, <1>5, EmitNextStep
  <1>7. QED
    BY <1>2, <1>6

\* The outcome stamped by an approval in Slack (ApproveProposal).
LEMMA ApproveStep ==
  ASSUME IInv, ApproveInSlack
  PROVE  IInv' /\ Fresh(mem, mem')
  <1>1. mem \in Builder /\ Good(mem) /\ SlackAsk \in Actors
    BY DEF IInv, TypeOK, Actors
  <1>2. PICK id \in OpenIds(mem) : mem' = synced(mem, fromProposal(id))
    BY DEF ApproveInSlack
  <1>3. fromProposal(id) \in Incident
    <2>1. id \in Ids
      BY <1>1 DEF OpenIds, IsOpen, Builder, Incident
    <2>2. "apply" \in Evidence
      BY DEF Evidence
    <2>3. <<"apply">> \in Seq(Evidence)
      BY <2>2
    <2>4. QED
      BY <2>1, <2>3 DEF fromProposal, Incident
  <1>4. mem' \in Builder /\ Good(mem') /\ Fresh(mem, mem')
    BY <1>1, <1>2, <1>3, SyncedGood
  <1>5. TypeOK'
    BY <1>1, <1>4 DEF IInv, TypeOK, ApproveInSlack, slack, store, saving, Stages
  <1>6. Stored'
    BY DEF IInv, Stored, ApproveInSlack, store
  <1>7. Working'
    BY <1>1 DEF IInv, TypeOK, Working, ApproveInSlack
  <1>8. QED
    BY <1>4, <1>5, <1>6, <1>7 DEF IInv

(***************************************************************************)
(* Time, crashes and restarts.  The builder changes, but not in one life   *)
(* of the process.                                                         *)
(***************************************************************************)
\* Only the clock moves.
LEMMA TickStep ==
  ASSUME IInv, Tick
  PROVE  IInv' /\ Fresh(mem, mem')
  <1>1. mem' = mem
    BY DEF Tick
  <1>2. IInv'
    BY DEF IInv, TypeOK, Good, UniqueIn, ClosedIn, NumberedIn, IsOpen,
           Stored, Working, Tick, local, slack, store, saving
  <1>3. QED
    BY <1>1, <1>2, FreshSame

\* A crash empties the builder, a restart takes the stored snapshot or none.
LEMMA RestartStep ==
  ASSUME IInv, Crash \/ Restart \/ RestartWithoutState
  PROVE  IInv' /\ ~(up /\ up')
  <1>1. EmptyBuilder \in Builder /\ Good(EmptyBuilder)
    BY EmptyGood
  <1>2. CASE Crash
    <2>1. TypeOK'
      <3>1. /\ now' = now /\ disk' = disk /\ tmp' = tmp /\ posts' = posts /\ alerted' = alerted
            /\ mem' \in Builder /\ crashes' = crashes + 1 /\ crowded' = crowded /\ overlap' = {}
        BY <1>1, <1>2 DEF Crash
      <3>2. /\ stage' \in [Actors -> Stages]
            /\ after' \in [Actors -> {"notify", "apply", "idle"}]
            /\ thread' \in [Actors -> Nat]
            /\ threads' \in [Ids -> Nat]
            /\ handle' \in [Actors -> Handles]
        BY <1>2 DEF Crash, Stages, Handles
      <3>3. /\ ch' \in [Actors -> Change \cup {None}]
            /\ snap' \in [Actors -> Builder \cup {None}]
        BY <1>2 DEF Crash
      <3>4. rest' \in [Actors -> SUBSET Change]
        BY <1>2 DEF Crash
      <3>5. up' \in BOOLEAN
        BY <1>2 DEF Crash
      <3>6. /\ now \in Nat /\ disk \in Builder \cup Unreadable /\ posts \in Nat /\ crashes \in Nat
            /\ alerted \in SUBSET Ids /\ tmp \in Builder \cup Unreadable \cup {None}
            /\ crowded \in BOOLEAN
        BY DEF IInv, TypeOK
      <3>7. QED
        BY <3>1, <3>2, <3>3, <3>4, <3>5, <3>6 DEF TypeOK
    <2>2. Good(mem') /\ Stored' /\ Working'
      BY <1>1, <1>2 DEF IInv, TypeOK, Stored, Working, Crash
    <2>3. QED
      BY <1>2, <2>1, <2>2 DEF IInv, Crash
  <1>3. CASE Restart \/ RestartWithoutState
    <2>1. mem' \in Builder /\ Good(mem')
      BY <1>3 DEF IInv, TypeOK, Stored, Restart, RestartWithoutState
    <2>2. TypeOK'
      BY <1>3, <2>1 DEF IInv, TypeOK, Restart, RestartWithoutState, local, slack, store, saving
    <2>3. Stored' /\ Working'
      BY <1>3 DEF IInv, Stored, Working, Restart, RestartWithoutState, local, store
    <2>4. QED
      BY <1>3, <2>1, <2>2, <2>3 DEF IInv, Restart, RestartWithoutState
  <1>4. QED
    BY <1>2, <1>3

\* Nothing moves.
LEMMA StutterStep ==
  ASSUME IInv, UNCHANGED vars
  PROVE  IInv' /\ Fresh(mem, mem')
  <1>1. IInv'
    BY DEF IInv, TypeOK, Good, UniqueIn, ClosedIn, NumberedIn, IsOpen,
           Stored, Working, vars, local, slack, store, saving
  <1>2. QED
    BY <1>1, FreshSame DEF vars

\* Every step keeps the inductive invariant and, within one life of the
\* process, hands out only new numbers.
THEOREM StepIInv ==
  ASSUME IInv, [Next]_vars
  PROVE  IInv' /\ (up /\ up' => Fresh(mem, mem'))
  <1>1. ASSUME NEW r \in Resources, Ingest(r) \/ SyncLogs(r)
        PROVE  IInv' /\ Fresh(mem, mem')
    BY <1>1, IngestStep, SyncLogsStep
  <1>2. ASSUME NEW a \in Actors, Persist(a) \/ emitChange(a)
        PROVE  IInv' /\ Fresh(mem, mem')
    BY <1>2, PersistStep, EmitStep
  <1>3. CASE Sweep \/ ApproveInSlack \/ Tick
    BY <1>3, SweepStep, ApproveStep, TickStep
  <1>4. CASE Crash \/ Restart \/ RestartWithoutState
    BY <1>4, RestartStep
  <1>5. CASE UNCHANGED vars
    BY <1>5, StutterStep
  <1>6. QED
    BY <1>1, <1>2, <1>3, <1>4, <1>5 DEF Next

\* The inductive invariant holds in every state of the incident loop.
THEOREM AlwaysIInv == Spec => []IInv
  <1>1. IInv /\ [Next]_vars => IInv'
    BY StepIInv
  <1>2. QED
    BY InitIInv, <1>1, PTL DEF Spec

(***************************************************************************)
(* Severity.  What is open, stored, exported or held as a copy covers its  *)
(* evidence, so whatever SyncIncident or Restore puts back does.           *)
(***************************************************************************)
Severe(b) == \A k \in Keys : IsOpen(b, k) => Covered(b.open[k])

Covers ==
    /\ Severe(mem)
    /\ disk \in Builder => Severe(disk)
    /\ tmp \in Builder => Severe(tmp)
    /\ \A a \in Actors : snap[a] # None => Severe(snap[a])
    /\ \A a \in Actors : ch[a] # None => Covered(ch[a].inc)
    /\ \A a \in Actors : \A c \in rest[a] : Covered(c.inc)

\* Attaching a signal raises the severity to cover it (attachEvidence).
LEMMA AttachCovers ==
  ASSUME NEW inc \in Incident, Covered(inc), NEW s \in Signals, NEW t \in Nat
  PROVE  Covered(attachEvidence(inc, s, t))
  <1> DEFINE new == attachEvidence(inc, s, t)
  <1>1. /\ inc.evidence \in Seq(Evidence) /\ inc.severity \in 0..5 /\ Rank[s] \in 1..5
        /\ s \in Evidence
    BY BuilderAssumption DEF Incident, Evidence
  <1>2. /\ new.evidence = Append(inc.evidence, s)
        /\ new.severity = Worse(inc.severity, Rank[s])
    BY DEF attachEvidence, Incident
  <1>3. new.severity >= inc.severity /\ new.severity >= Rank[s] /\ new.severity \in Nat
    BY <1>1, <1>2 DEF Worse
  <1>4. /\ Len(new.evidence) = Len(inc.evidence) + 1
        /\ \A i \in 1..Len(inc.evidence) : new.evidence[i] = inc.evidence[i]
        /\ new.evidence[Len(inc.evidence) + 1] = s
    BY <1>1, <1>2
  <1>5. ASSUME NEW i \in 1..Len(new.evidence), new.evidence[i] \in Signals
        PROVE  Rank[new.evidence[i]] <= new.severity
    <2>1. CASE i \in 1..Len(inc.evidence)
      <3>1. new.evidence[i] = inc.evidence[i]
        BY <1>4, <2>1
      <3>2. Rank[new.evidence[i]] <= inc.severity /\ Rank[new.evidence[i]] \in 1..5
        BY <1>5, <2>1, <3>1, BuilderAssumption DEF Covered
      <3>3. inc.severity \in Nat /\ Rank[new.evidence[i]] \in Nat
        BY SMTT(60), <1>1, <3>2
      <3> HIDE DEF new
      <3>4. QED
        BY <1>3, <3>2, <3>3
    <2>2. CASE i = Len(inc.evidence) + 1
      BY <1>3, <1>4, <2>2
    <2>3. QED
      BY <1>1, <1>4, <2>1, <2>2
  <1>6. QED
    BY <1>5 DEF Covered

\* A new incident has the severity of its signal (newIncident).
LEMMA NewCovers ==
  ASSUME NEW id \in Ids, NEW s \in Signals, NEW t \in Nat
  PROVE  Covered(newIncident(id, s, t))
  BY BuilderAssumption DEF newIncident, Covered

\* The cut of a snapshot keeps evidence that was there (exportLocked).
LEMMA LastEvidenceIsPart ==
  ASSUME NEW ev \in Seq(Evidence)
  PROVE  \A i \in 1..Len(lastEvidence(ev)) :
           \E j \in 1..Len(ev) : lastEvidence(ev)[i] = ev[j]
  <1>1. CASE Len(ev) > MaxEvidence
    <2> DEFINE m == Len(ev) - MaxEvidence + 1
    <2>1. Len(ev) \in Nat /\ MaxEvidence \in Nat \ {0}
      BY BuilderAssumption
    <2>2. m \in 1..Len(ev)
      BY <1>1, <2>1
    <2>3. lastEvidence(ev) = SubSeq(ev, m, Len(ev))
      BY <1>1 DEF lastEvidence
    <2> HIDE DEF m
    <2>4. /\ Len(SubSeq(ev, m, Len(ev))) = Len(ev) - m + 1
          /\ \A i \in 1..(Len(ev) - m + 1) : SubSeq(ev, m, Len(ev))[i] = ev[m + i - 1]
      BY <2>1, <2>2
    <2>5. \A i \in 1..(Len(ev) - m + 1) : m + i - 1 \in 1..Len(ev)
      BY <2>1, <2>2
    <2>6. QED
      BY <2>3, <2>4, <2>5
  <1>2. CASE ~(Len(ev) > MaxEvidence)
    BY <1>2 DEF lastEvidence
  <1>3. QED
    BY <1>1, <1>2

\* A snapshot covers what the builder covers (exportLocked).
LEMMA ExportSevere ==
  ASSUME NEW b \in Builder, Severe(b)
  PROVE  Severe(exportLocked(b))
  <1> DEFINE g(k) == [b.open[k] EXCEPT !.evidence = lastEvidence(@)]
  <1>1. \A k \in Keys : exportLocked(b).open[k] = IF IsOpen(b, k) THEN g(k) ELSE None
    BY DEF exportLocked, Builder
  <1>2. ASSUME NEW k \in Keys, IsOpen(b, k)
        PROVE  Covered(g(k))
    <2>1. b.open[k] \in Incident /\ Covered(b.open[k])
      BY <1>2 DEF IsOpen, Builder, Severe
    <2>2. b.open[k].evidence \in Seq(Evidence)
      BY <2>1 DEF Incident
    <2>3. /\ g(k).evidence = lastEvidence(b.open[k].evidence)
          /\ g(k).severity = b.open[k].severity
      BY <2>1 DEF Incident
    <2>4. QED
      BY SMTT(60), <2>1, <2>2, <2>3, LastEvidenceIsPart DEF Covered
  <1>3. QED
    BY <1>1, <1>2 DEF Severe, IsOpen

\* SyncIncident puts back one covered copy.
LEMMA SyncedSevere ==
  ASSUME NEW b \in Builder, Severe(b), NEW inc, Covered(inc)
  PROVE  Severe(synced(b, inc))
  BY DEF synced, Builder, Severe, IsOpen, HoldsId

\* A new builder has nothing to cover.
LEMMA EmptySevere == Severe(EmptyBuilder)
  BY DEF Severe, EmptyBuilder, IsOpen

\* A step that stores and exports nothing else, and whose builder and copies
\* are covered, keeps the invariant.
LEMMA CoversFrom ==
  ASSUME Covers, Severe(mem'),
         disk' \in Builder => \/ disk' = disk \/ disk' = tmp
                              \/ \E a \in Actors : snap[a] # None /\ disk' = snap[a],
         tmp' \in Builder => \/ tmp' = tmp
                             \/ \E a \in Actors : snap[a] # None /\ tmp' = snap[a],
         \A a \in Actors : snap'[a] # None => snap'[a] = snap[a] \/ Severe(snap'[a]),
         \A a \in Actors : ch'[a] # None => ch'[a] = ch[a] \/ Covered(ch'[a].inc),
         \A a \in Actors : \A c \in rest'[a] : c \in rest[a] \/ Covered(c.inc)
  PROVE  Covers'
  BY DEF Covers

\* Builder.Ingest: the new or the joined incident covers its evidence.
LEMMA IngestCovers ==
  ASSUME IInv, Covers, NEW r \in Resources, Ingest(r)
  PROVE  Covers'
  <1> PICK k \in Keys, s \in Signals :
          \/ IngestOpens(r, k, s) \/ IngestJoins(r, k, s)
          \/ IngestRotates(r, k, s) \/ IngestRecovers(r, k, s)
    BY DEF Ingest
  <1>1. /\ mem \in Builder /\ now \in Nat /\ Severe(mem) /\ mem.seq \in Nat /\ r \in Actors
    BY BuilderAssumption DEF IInv, TypeOK, Builder, Actors, Covers
  <1>2. mem.seq < MaxSeq => Covered(newIncident(mem.seq + 1, s, now))
    <2>1. mem.seq < MaxSeq => mem.seq + 1 \in Ids
      BY <1>1, BuilderAssumption DEF Ids
    <2>2. QED
      BY <1>1, <2>1, NewCovers
  <1>3. IsOpen(mem, k) => Covered(attachEvidence(mem.open[k], s, now))
    <2>1. IsOpen(mem, k) => mem.open[k] \in Incident /\ Covered(mem.open[k])
      BY <1>1 DEF IsOpen, Builder, Severe
    <2>2. QED
      BY <1>1, <2>1, AttachCovers
  <1>4. \E kind, inc : /\ Covered(inc) /\ Ingested(r, k, kind, inc)
                       /\ \A j \in Keys : mem'.open[j] \in {mem.open[j], None, inc}
    <2>1. CASE IngestOpens(r, k, s)
      <3> DEFINE inc == newIncident(mem.seq + 1, s, now)
      <3>1. \A j \in Keys : mem'.open[j] \in {mem.open[j], inc}
        BY <1>1, <2>1 DEF IngestOpens, openNewLocked, seen, Builder
      <3>2. \E kind : Ingested(r, k, kind, inc)
        BY <2>1 DEF IngestOpens
      <3>3. Covered(inc)
        BY <1>2, <2>1 DEF IngestOpens
      <3> HIDE DEF inc
      <3>4. QED
        BY <3>1, <3>2, <3>3
    <2>2. CASE IngestJoins(r, k, s)
      <3> DEFINE inc == attachEvidence(mem.open[k], s, now)
      <3>1. \A j \in Keys : mem'.open[j] \in {mem.open[j], inc}
        BY <1>1, <2>2 DEF IngestJoins, put, seen, Builder
      <3>2. Ingested(r, k, "updated", inc) /\ Covered(inc)
        BY <1>3, <2>2 DEF IngestJoins
      <3> HIDE DEF inc
      <3>3. QED
        BY <3>1, <3>2
    <2>3. CASE IngestRotates(r, k, s)
      <3> DEFINE inc == newIncident(mem.seq + 1, s, now)
      <3>1. \A j \in Keys : mem'.open[j] \in {mem.open[j], None, inc}
        BY <1>1, <2>3 DEF IngestRotates, openNewLocked, closeLocked, seen, Builder
      <3>2. Ingested(r, k, "opened", inc) /\ Covered(inc)
        BY <1>2, <2>3 DEF IngestRotates
      <3> HIDE DEF inc
      <3>3. QED
        BY <3>1, <3>2
    <2>4. CASE IngestRecovers(r, k, s)
      <3> DEFINE inc == attachEvidence(mem.open[k], s, now)
      <3>1. \A j \in Keys : mem'.open[j] \in {mem.open[j], None}
        BY <1>1, <2>4 DEF IngestRecovers, closeLocked, Builder
      <3>2. Ingested(r, k, "closed", inc) /\ Covered(inc)
        BY <1>3, <2>4 DEF IngestRecovers
      <3> HIDE DEF inc
      <3>3. QED
        BY <3>1, <3>2
    <2>5. QED
      BY <2>1, <2>2, <2>3, <2>4
  <1>5. PICK kind, inc : /\ Covered(inc) /\ Ingested(r, k, kind, inc)
                         /\ \A j \in Keys : mem'.open[j] \in {mem.open[j], None, inc}
    BY <1>4
  <1>6. Severe(mem')
    BY <1>1, <1>5 DEF Severe, IsOpen
  <1>7. /\ ch' = [ch EXCEPT ![r] = [kind |-> kind, key |-> k, inc |-> inc]]
        /\ UNCHANGED <<disk, tmp, snap, rest>>
    BY <1>5 DEF Ingested, store
  <1>8. \A a \in Actors : ch'[a] = ch[a] \/ Covered(ch'[a].inc)
    BY <1>1, <1>5, <1>7 DEF IInv, TypeOK
  <1>9. QED
    BY <1>6, <1>7, <1>8, CoversFrom

\* A log line in the evidence has no severity.
LEMMA SyncLogsCovers ==
  ASSUME IInv, Covers, NEW r \in Resources, SyncLogs(r)
  PROVE  Covers'
  <1>1. r \in Actors /\ mem \in Builder /\ Severe(mem)
    BY DEF IInv, TypeOK, Actors, Covers
  <1>2. ch[r] \in Change /\ Covered(ch[r].inc)
    BY <1>1 DEF IInv, TypeOK, Working, SyncLogs, Covers
  <1>3. PICK tail \in {<<>>, <<"log">>} :
            LET inc == [ch[r].inc EXCEPT !.evidence = @ \o tail]
            IN  mem' = synced(mem, inc) /\ ch' = [ch EXCEPT ![r].inc = inc]
    BY DEF SyncLogs
  <1> DEFINE inc == [ch[r].inc EXCEPT !.evidence = @ \o tail]
             c == [ch[r] EXCEPT !.inc = inc]
  <1>4. Covered(inc)
    <2> DEFINE ev == ch[r].inc.evidence
    <2>1. ch[r].inc \in Incident /\ ev \in Seq(Evidence)
      BY <1>2 DEF Change, Incident
    <2>2. inc.evidence = ev \o tail /\ inc.severity = ch[r].inc.severity
      BY <2>1 DEF Incident
    <2>3. tail \in Seq({"log"}) /\ \A i \in 1..Len(tail) : tail[i] = "log"
      <3>1. <<>> \in Seq({"log"}) /\ <<"log">> \in Seq({"log"})
        OBVIOUS
      <3>2. tail \in Seq({"log"})
        BY <3>1
      <3>3. QED
        BY <3>2
    <2>4. /\ Len(ev \o tail) = Len(ev) + Len(tail) /\ Len(ev) \in Nat /\ Len(tail) \in Nat
          /\ \A i \in 1..Len(ev) : (ev \o tail)[i] = ev[i]
          /\ \A i \in Len(ev) + 1 .. Len(ev) + Len(tail) : (ev \o tail)[i] = tail[i - Len(ev)]
      BY <2>1, <2>3
    <2> HIDE DEF ev, inc
    <2>5. ASSUME NEW i \in 1..Len(inc.evidence), inc.evidence[i] \in Signals
          PROVE  Rank[inc.evidence[i]] <= inc.severity
      <3>1. CASE i \in 1..Len(ev)
        <4>1. inc.evidence[i] = ev[i]
          BY <2>2, <2>4, <3>1
        <4>2. QED
          BY <1>2, <2>2, <2>5, <3>1, <4>1 DEF Covered, ev
      <3>2. CASE i \in Len(ev) + 1 .. Len(ev) + Len(tail)
        <4>1. i - Len(ev) \in 1..Len(tail)
          BY <2>4, <3>2
        <4>2. inc.evidence[i] = "log"
          BY <2>2, <2>3, <2>4, <3>2, <4>1
        <4>3. QED
          BY <2>5, <4>2, BuilderAssumption
      <3>3. QED
        BY <2>2, <2>4, <3>1, <3>2
    <2>6. QED
      BY <2>5 DEF Covered
  <1>5. mem' = synced(mem, inc) /\ ch' = [ch EXCEPT ![r] = c] /\ c.inc = inc
    BY <1>2, <1>3 DEF Change
  <1> HIDE DEF inc, c
  <1>6. Severe(mem')
    BY <1>1, <1>4, <1>5, SyncedSevere
  <1>7. \A a \in Actors : ch'[a] = ch[a] \/ Covered(ch'[a].inc)
    BY <1>1, <1>4, <1>5 DEF IInv, TypeOK
  <1>8. UNCHANGED <<disk, tmp, snap, rest>>
    BY DEF SyncLogs, store
  <1>9. QED
    BY <1>6, <1>7, <1>8, CoversFrom

\* Persist: what is exported, written and renamed was in the builder.
LEMMA PersistCovers ==
  ASSUME IInv, Covers, NEW a \in Actors, Persist(a)
  PROVE  Covers'
  <1>1. /\ mem' = mem /\ mem \in Builder /\ Severe(mem) /\ rest' = rest
        /\ ch' = ch \/ ch' = [ch EXCEPT ![a] = None]
    BY DEF IInv, TypeOK, Covers, Persist, Save, Export, SaveFails, NoStore, PersistReturns,
           CmGet, CmWrite, FileOpen, FileWrite, FileRename
  <1>2. Severe(mem')
    BY <1>1 DEF Severe, IsOpen
  <1>3. \A b \in Actors : ch'[b] # None => ch'[b] = ch[b]
    BY <1>1 DEF IInv, TypeOK
  <1>4. \A b \in Actors : snap'[b] # None => snap'[b] = snap[b] \/ Severe(snap'[b])
    <2>1. Severe(exportLocked(mem))
      BY <1>1, ExportSevere
    <2>2. snap' = snap \/ snap' = [snap EXCEPT ![a] = None]
            \/ snap' = [snap EXCEPT ![a] = exportLocked(mem)]
      BY DEF Persist, Save, Export, SaveFails, NoStore, PersistReturns,
             CmGet, CmWrite, FileOpen, FileWrite, FileRename
    <2>3. QED
      BY <2>1, <2>2 DEF IInv, TypeOK
  <1>5. stage[a] \in {"save", "write", "rename"} => snap[a] # None
    BY DEF IInv, Working
  <1>6. /\ Torn \notin Builder /\ Blank \notin Builder /\ None \notin Builder
    BY IncidentsAssumption
  <1>7. disk' \in Builder => disk' \in {disk, tmp} \/ (snap[a] # None /\ disk' = snap[a])
    BY <1>5, <1>6 DEF Persist, Save, Export, SaveFails, NoStore,
           CmGet, CmWrite, FileOpen, FileWrite, FileRename, Written
  <1>8. tmp' \in Builder => tmp' = tmp \/ (snap[a] # None /\ tmp' = snap[a])
    BY <1>5, <1>6 DEF Persist, Save, Export, SaveFails, NoStore,
           CmGet, CmWrite, FileOpen, FileWrite, FileRename, Written
  <1>9. QED
    BY <1>1, <1>2, <1>3, <1>4, <1>7, <1>8, CoversFrom

\* The next change to emit was covered when it was swept.
LEMMA EmitNextCovers ==
  ASSUME IInv, Covers, NEW a \in Actors, NEW todo, EmitNext(a, todo), Severe(mem'),
         \A c \in todo : Covered(c.inc), UNCHANGED <<disk, tmp, snap>>
  PROVE  Covers'
  <1>1. \A b \in Actors : \/ ch'[b] = ch[b] \/ ch'[b] = None \/ ch'[b] \in todo
    BY DEF EmitNext, IInv, TypeOK
  <1>2. \A b \in Actors : \A c \in rest'[b] : c \in rest[b] \/ c \in todo
    BY DEF EmitNext, IInv, TypeOK
  <1>3. QED
    BY <1>1, <1>2, CoversFrom

\* emitChange: the thread changes, or a covered copy is put back.
LEMMA EmitCovers ==
  ASSUME IInv, Covers, NEW a \in Actors, emitChange(a)
  PROVE  Covers'
  <1>1. mem \in Builder /\ Severe(mem)
    BY DEF IInv, TypeOK, Covers
  <1>2. CASE EmitReturns(a)
    <2>1. Severe(mem') /\ \A c \in rest[a] : Covered(c.inc)
      BY <1>1, <1>2 DEF EmitReturns, Covers, Severe, IsOpen
    <2>2. EmitNext(a, rest[a]) /\ UNCHANGED <<disk, tmp, snap>>
      BY <1>2 DEF EmitReturns, store
    <2>3. QED
      BY <2>1, <2>2, EmitNextCovers
  <1>3. CASE ~EmitReturns(a)
    <2>1. UNCHANGED <<disk, tmp, snap, ch, rest>>
      BY <1>3 DEF emitChange, LookupThread, Post, PostFails, StampOutcome, store
    <2>2. Severe(mem')
      <3>1. CASE Post(a)
        <4> DEFINE id == ch[a].inc.id
        <4>1. \A k \in Keys : mem'.open[k] =
                 IF HoldsId(mem, k, id)
                 THEN [mem.open[k] EXCEPT !.thread = Posted(a), !.updated = now]
                 ELSE mem.open[k]
          BY <1>1, <3>1 DEF Post, withThread, Builder
        <4>2. \A k \in Keys : IsOpen(mem, k) => mem.open[k] \in Incident
          BY <1>1 DEF IsOpen, Builder
        <4>3. ASSUME NEW k \in Keys, IsOpen(mem', k)
              PROVE  /\ IsOpen(mem, k) /\ mem'.open[k].evidence = mem.open[k].evidence
                     /\ mem'.open[k].severity = mem.open[k].severity
          BY <4>1, <4>2, <4>3 DEF IsOpen, HoldsId, Incident
        <4>4. QED
          BY <1>1, <4>3 DEF Severe, Covered
      <3>2. CASE StampOutcome(a)
        <4>1. ch[a] # None
          BY <3>2 DEF StampOutcome, IInv, Working
        <4>2. QED
          BY <1>1, <3>2, <4>1, SyncedSevere DEF StampOutcome, Covers
      <3>3. CASE LookupThread(a) \/ PostFails(a)
        BY <1>1, <3>3 DEF LookupThread, PostFails, Severe, IsOpen
      <3>4. QED
        BY <1>3, <3>1, <3>2, <3>3 DEF emitChange
    <2>3. QED
      BY <2>1, <2>2, CoversFrom
  <1>4. QED
    BY <1>2, <1>3

\* Builder.Sweep removes incidents; the outcome of an approval in Slack has no
\* signal among its evidence (ContextFromProposal).
LEMMA SweepCovers ==
  ASSUME IInv, Covers, Sweep \/ ApproveInSlack
  PROVE  Covers'
  <1>1. mem \in Builder /\ Severe(mem) /\ Sweeper \in Actors
    BY DEF IInv, TypeOK, Covers, Actors
  <1>2. CASE Sweep
    <2> DEFINE closed(k) == [kind |-> "closed", key |-> k,
                             inc |-> [mem.open[k] EXCEPT !.updated = now]]
               todo == {closed(k) : k \in {j \in Keys : Quiet(mem, j, now)}}
    <2>1. Severe(mem')
      BY <1>1, <1>2 DEF Sweep, swept, Severe, IsOpen
    <2>2. ASSUME NEW k \in Keys, Quiet(mem, k, now)
          PROVE  Covered(closed(k).inc)
      <3>1. mem.open[k] \in Incident /\ Covered(mem.open[k])
        BY <1>1, <2>2 DEF Quiet, IsOpen, Builder, Severe
      <3>2. /\ closed(k).inc.evidence = mem.open[k].evidence
            /\ closed(k).inc.severity = mem.open[k].severity
        BY <3>1 DEF Incident
      <3>3. QED
        BY <3>1, <3>2 DEF Covered
    <2>3. \A c \in todo : Covered(c.inc)
      BY <2>2
    <2>4. EmitNext(Sweeper, todo) /\ UNCHANGED <<disk, tmp, snap>>
      BY <1>2 DEF Sweep, store
    <2> HIDE DEF todo
    <2>5. QED
      BY <1>1, <2>1, <2>3, <2>4, EmitNextCovers
  <1>3. CASE ApproveInSlack
    <2>1. PICK id \in OpenIds(mem) : mem' = synced(mem, fromProposal(id))
      BY <1>3 DEF ApproveInSlack
    <2>2. Covered(fromProposal(id))
      BY BuilderAssumption DEF fromProposal, Covered
    <2>3. Severe(mem')
      BY <1>1, <2>1, <2>2, SyncedSevere
    <2>4. UNCHANGED <<disk, tmp, snap, ch, rest>>
      BY <1>3 DEF ApproveInSlack, store
    <2>5. QED
      BY <2>3, <2>4, CoversFrom
  <1>4. QED
    BY <1>2, <1>3

\* Time, crashes and restarts: only what was stored comes back.
LEMMA OtherCovers ==
  ASSUME IInv, Covers, Tick \/ Crash \/ Restart \/ RestartWithoutState \/ UNCHANGED vars
  PROVE  Covers'
  <1>1. UNCHANGED <<disk, tmp>>
    BY DEF Tick, Crash, Restart, RestartWithoutState, vars, store
  <1>2. Severe(mem')
    <2>1. mem' \in {mem, EmptyBuilder} \/ (disk \in Builder /\ mem' = disk)
      BY DEF Tick, Crash, Restart, RestartWithoutState, vars, IInv, TypeOK
    <2>2. QED
      BY <2>1, EmptySevere DEF Covers, Severe, IsOpen
  <1>3. \A a \in Actors : /\ snap'[a] = snap[a] \/ snap'[a] = None
                          /\ ch'[a] = ch[a] \/ ch'[a] = None
                          /\ rest'[a] = rest[a] \/ rest'[a] = {}
    BY DEF Tick, Crash, Restart, RestartWithoutState, vars, local
  <1>4. QED
    BY <1>1, <1>2, <1>3, CoversFrom

\* Severities cover the evidence in every state of the incident loop.
THEOREM AlwaysCovers == Spec => []Covers
  <1>1. Init => Covers
    BY EmptySevere, IncidentsAssumption DEF Init, Idle, Covers
  <1>2. IInv /\ Covers /\ [Next]_vars => Covers'
    BY IngestCovers, SyncLogsCovers, PersistCovers, EmitCovers, SweepCovers, OtherCovers DEF Next
  <1>3. QED
    BY AlwaysIInv, <1>1, <1>2, PTL DEF Spec

(***************************************************************************)
(* The file.  A save that met no other one finds the temporary file as it  *)
(* left it, and what it renames is what it exported.                       *)
(***************************************************************************)
FileInv ==
    /\ overlap \subseteq Saving
    /\ overlap # {} => crowded
    /\ disk \in Unreadable => crowded
    /\ Backend = "file" => \A a \in Saving \ overlap :
           /\ Saving = {a}
           /\ stage[a] = "write" => handle[a] = "tmp" /\ tmp = Blank
           /\ stage[a] = "rename" => tmp = snap[a]

\* A step outside Persist leaves every save where it is.
LEMMA AsideFile ==
  ASSUME FileInv, UNCHANGED store, Saving' = Saving,
         \A a \in Saving : stage'[a] = stage[a] /\ snap'[a] = snap[a]
  PROVE  FileInv'
  BY DEF FileInv, store, saving

\* The actor that moves was not saving and is not saving afterwards.
LEMMA SameSaving ==
  ASSUME IInv, NEW a \in Actors, NEW s \in Stages, a \notin Saving,
         s \notin {"save", "write", "rename"}, stage' = [stage EXCEPT ![a] = s]
  PROVE  Saving' = Saving /\ \A b \in Saving : stage'[b] = stage[b]
  BY DEF Saving, IInv, TypeOK

\* A save that starts while another is under way has met it (Persist).
LEMMA ExportFile ==
  ASSUME IInv, FileInv, NEW a \in Actors, Export(a)
  PROVE  FileInv'
  <1>1. /\ Saving' = Saving \cup {a} /\ a \notin Saving
        /\ \A b \in Saving : stage'[b] = stage[b] /\ snap'[b] = snap[b]
        /\ stage'[a] = "save"
    BY DEF Export, Saving, IInv, TypeOK
  <1>2. UNCHANGED <<disk, tmp, handle>>
    BY DEF Export
  <1>3. CASE Crowds
    <2>1. overlap' = overlap \cup Saving \cup {a} /\ crowded'
      BY <1>3 DEF Export
    <2>2. QED
      BY <1>1, <2>1 DEF FileInv
  <1>4. CASE ~Crowds
    <2>1. overlap' = overlap /\ crowded' = crowded /\ (Backend = "file" => Saving = {})
      BY <1>4 DEF Export, Crowds, IInv, TypeOK
    <2>2. QED
      BY <1>1, <1>2, <2>1 DEF FileInv
  <1>5. QED
    BY <1>3, <1>4

\* A saver that moves on while it has met another one disturbs nobody who has not.
LEMMA ReturnsFile ==
  ASSUME IInv, FileInv, NEW a \in Actors, PersistReturns(a),
         stage[a] \in {"export", "save", "write", "rename"},
         disk' \in Unreadable => crowded', overlap' # {} => crowded',
         stage[a] = "export" => UNCHANGED <<tmp, handle>>
  PROVE  FileInv'
  <1>1. /\ Saving' = Saving \ {a} /\ overlap' = overlap \ {a}
        /\ \A b \in Saving \ {a} : stage'[b] = stage[b] /\ snap'[b] = snap[b]
    BY DEF PersistReturns, Saving, IInv, TypeOK
  <1>2. overlap' \subseteq Saving'
    BY <1>1 DEF FileInv
  <1>3. ASSUME Backend = "file", NEW b \in Saving' \ overlap'
        PROVE  /\ Saving' = {b}
               /\ stage'[b] = "write" => handle'[b] = "tmp" /\ tmp' = Blank
               /\ stage'[b] = "rename" => tmp' = snap'[b]
    <2>1. b # a /\ b \in Saving \ overlap /\ Saving = {b}
      BY <1>1, <1>3 DEF FileInv
    <2>2. stage[a] = "export"
      BY <2>1 DEF Saving
    <2>3. QED
      BY <1>1, <1>3, <2>1, <2>2 DEF FileInv
  <1>4. QED
    BY <1>2, <1>3 DEF FileInv

\* FileStore and ConfigMapStore: a file that was written by one save alone, and
\* a ConfigMap, parse.
LEMMA SaveFile ==
  ASSUME IInv, FileInv, NEW a \in Actors, Save(a)
  PROVE  FileInv'
  <1>1. a \in Saving /\ snap[a] \in Builder /\ snap[a] \notin Unreadable
    <2>1. stage[a] \in {"save", "write", "rename"}
      BY DEF Save, CmGet, CmWrite, FileOpen, FileWrite, FileRename
    <2>2. QED
      BY <2>1, IncidentsAssumption DEF IInv, TypeOK, Working, Saving, Unreadable
  <1>2. Backend = "file" /\ a \notin overlap => Saving = {a} /\ overlap = {}
    BY <1>1 DEF FileInv
  <1>3. CASE CmGet(a) \/ CmWrite(a)
    <2>1. Backend # "file"
      BY <1>3 DEF CmGet, CmWrite
    <2>2. CASE CmGet(a)
      <3>1. Saving' = Saving /\ UNCHANGED <<disk, overlap, crowded>>
        BY <2>2 DEF CmGet, Saving, IInv, TypeOK
      <3>2. QED
        BY <2>1, <3>1 DEF FileInv
    <2>3. CASE CmWrite(a)
      <3>1. PersistReturns(a) /\ stage[a] = "write" /\ crowded' = crowded
            /\ disk' \in {disk, snap[a]}
        BY <2>3 DEF CmWrite
      <3>2. QED
        BY <1>1, <3>1, ReturnsFile DEF FileInv, PersistReturns
    <2>4. QED
      BY <1>3, <2>2, <2>3
  <1>4. CASE FileOpen(a) \/ FileWrite(a)
    <2>1. /\ Saving' = Saving /\ UNCHANGED <<overlap, crowded, snap>> /\ Backend = "file"
          /\ \A b \in Saving : b # a => stage'[b] = stage[b]
      BY <1>4 DEF FileOpen, FileWrite, saving, Saving, IInv, TypeOK
    <2>2. ASSUME NEW b \in Saving \ overlap
          PROVE  /\ Saving = {b} /\ disk' = disk
                 /\ stage'[b] = "write" => handle'[b] = "tmp" /\ tmp' = Blank
                 /\ stage'[b] = "rename" => tmp' = snap'[b]
      <3>1. b = a
        BY <1>1, <2>1, <2>2 DEF FileInv
      <3>2. CASE FileOpen(a)
        BY <2>1, <2>2, <3>1, <3>2 DEF FileOpen, FileInv, IInv, TypeOK
      <3>3. CASE FileWrite(a)
        <4>1. handle[a] = "tmp" /\ tmp = Blank
          BY <2>1, <2>2, <3>1, <3>3 DEF FileWrite, FileInv
        <4>2. tmp' = snap[a] /\ disk' = disk /\ stage'[a] = "rename"
          BY <3>3, <4>1 DEF FileWrite, Written, IInv, TypeOK
        <4>3. QED
          BY <2>1, <2>2, <3>1, <4>2 DEF FileInv
      <3>4. QED
        BY <1>4, <3>2, <3>3
    <2>3. disk' \in Unreadable => crowded'
      <3>1. CASE a \in overlap
        BY <2>1, <3>1 DEF FileInv
      <3>2. CASE a \notin overlap
        BY <1>1, <2>1, <2>2, <3>2 DEF FileInv
      <3>3. QED
        BY <3>1, <3>2
    <2>4. QED
      BY <2>1, <2>2, <2>3 DEF FileInv
  <1>5. CASE FileRename(a)
    <2>1. PersistReturns(a) /\ stage[a] = "rename" /\ Backend = "file"
          /\ overlap' = overlap \ {a}
      BY <1>5 DEF FileRename, PersistReturns
    <2>2. CASE a \in overlap
      <3>1. crowded'
        BY <1>5, <2>2 DEF FileRename, FileInv
      <3>2. QED
        BY <2>1, <3>1, ReturnsFile
    <2>3. CASE a \notin overlap
      <3>1. tmp = snap[a] /\ overlap' = {}
        BY <1>1, <1>2, <2>1, <2>3 DEF FileInv
      <3>2. disk' = snap[a]
        BY <1>1, <1>5, <3>1, IncidentsAssumption DEF FileRename
      <3>3. QED
        BY <1>1, <2>1, <3>1, <3>2, ReturnsFile
    <2>4. QED
      BY <2>2, <2>3
  <1>6. QED
    BY <1>3, <1>4, <1>5 DEF Save

\* Persist as a whole: a failed save leaves the file as it is.
LEMMA PersistFile ==
  ASSUME IInv, FileInv, NEW a \in Actors, Persist(a)
  PROVE  FileInv'
  <1>1. CASE SaveFails(a) \/ NoStore(a)
    <2>1. /\ PersistReturns(a) /\ stage[a] \in {"export", "save", "write", "rename"}
          /\ UNCHANGED <<disk, tmp, crowded>> /\ overlap' \subseteq overlap
          /\ stage[a] = "export" => handle' = handle
      BY <1>1 DEF SaveFails, NoStore, PersistReturns
    <2>2. QED
      BY <2>1, ReturnsFile DEF FileInv
  <1>2. QED
    BY <1>1, ExportFile, SaveFile DEF Persist

\* Every step keeps it.
LEMMA StepFile ==
  ASSUME IInv, FileInv, [Next]_vars
  PROVE  FileInv'
  <1> DEFINE Out == Stages \ {"save", "write", "rename"}
  <1>1. ASSUME NEW a \in Actors, NEW s \in Out, stage[a] \in Out,
               stage' = [stage EXCEPT ![a] = s], UNCHANGED <<store, snap>>
        PROVE  FileInv'
    <2>1. a \notin Saving
      BY <1>1 DEF Saving
    <2>2. Saving' = Saving /\ \A b \in Saving : stage'[b] = stage[b]
      BY <1>1, <2>1, SameSaving
    <2>3. QED
      BY <1>1, <2>2, AsideFile
  <1>2. ASSUME NEW r \in Resources, Ingest(r) \/ SyncLogs(r)
        PROVE  FileInv'
    <2>1. r \in Actors /\ {"idle", "attach", "export"} \subseteq Out
      BY DEF Actors, Stages
    <2>2. stage[r] \in {"idle", "attach"}
      BY <1>2 DEF Ingest, IngestOpens, IngestJoins, IngestRotates,
                  IngestRecovers, NewProblem, Delivered, SyncLogs
    <2>3. UNCHANGED <<store, snap>> /\ \E s \in {"attach", "export"} :
              stage' = [stage EXCEPT ![r] = s]
      <3>1. (\E k, kind, inc : Ingested(r, k, kind, inc)) \/ SyncLogs(r)
        BY <1>2 DEF Ingest, IngestOpens, IngestJoins, IngestRotates, IngestRecovers
      <3>2. QED
        BY <3>1 DEF Ingested, SyncLogs
    <2>4. QED
      BY <1>1, <2>1, <2>2, <2>3
  <1>3. ASSUME NEW a \in Actors, emitChange(a)
        PROVE  FileInv'
    <2>1. /\ stage[a] \in Out /\ UNCHANGED <<store, snap>>
          /\ \E s \in Out : stage' = [stage EXCEPT ![a] = s]
      BY <1>3 DEF Stages, emitChange, LookupThread, Post, PostFails, StampOutcome,
                  EmitReturns, EmitNext
    <2>2. QED
      BY <1>1, <2>1
  <1>4. CASE Sweep
    <2>1. /\ Sweeper \in Actors /\ stage[Sweeper] \in Out /\ UNCHANGED <<store, snap>>
          /\ \E s \in Out : stage' = [stage EXCEPT ![Sweeper] = s]
      BY <1>4 DEF Actors, Stages, Sweep, EmitNext
    <2>2. QED
      BY <1>1, <2>1
  <1>5. CASE ApproveInSlack
    <2>1. /\ SlackAsk \in Actors /\ stage[SlackAsk] \in Out /\ "export" \in Out
          /\ UNCHANGED <<store, snap>> /\ stage' = [stage EXCEPT ![SlackAsk] = "export"]
      BY <1>5 DEF Actors, Stages, ApproveInSlack
    <2>2. QED
      BY <1>1, <2>1
  <1>6. CASE Crash
    <2>1. Saving' = {} /\ overlap' = {} /\ UNCHANGED <<disk, crowded>>
      BY <1>6 DEF Crash, Saving
    <2>2. QED
      BY <2>1 DEF FileInv
  <1>7. CASE Tick \/ Restart \/ RestartWithoutState \/ UNCHANGED vars
    <2>1. UNCHANGED <<store, stage, snap>>
      BY <1>7 DEF Tick, Restart, RestartWithoutState, vars, local
    <2>2. Saving' = Saving
      BY <2>1 DEF Saving
    <2>3. QED
      BY <2>1, <2>2, AsideFile
  <1>8. QED
    BY <1>2, <1>3, <1>4, <1>5, <1>6, <1>7, PersistFile DEF Next

\* The file invariant holds in every state of the incident loop.
THEOREM AlwaysFileInv == Spec => []FileInv
  <1>1. Init => FileInv
    <2>1. ASSUME Init PROVE disk \notin Unreadable
      BY <2>1, EmptyGood, IncidentsAssumption DEF Init, Unreadable
    <2>2. QED
      BY <2>1 DEF Init, Idle, FileInv, Saving
  <1>2. IInv /\ FileInv /\ [Next]_vars => FileInv'
    BY StepFile
  <1>3. QED
    BY AlwaysIInv, <1>1, <1>2, PTL DEF Spec

(***************************************************************************)
(* The theorems.                                                           *)
(***************************************************************************)
\* Every variable of the incident loop keeps its type.
THEOREM TypeCorrect == Spec => []TypeOK
  <1>1. IInv => TypeOK
    BY DEF IInv
  <1>2. QED
    BY AlwaysIInv, <1>1, PTL

\* Two workloads never share an open incident (SyncIncident, openNewLocked),
\* with any number of watches, stale copies, lost saves and restarts.
THEOREM IncidentsUnique == Spec => []UniqueIds
  <1>1. IInv => UniqueIds
    BY DEF IInv, Good, UniqueIds
  <1>2. QED
    BY AlwaysIInv, <1>1, PTL

\* An incident that the builder remembers as closed is not brought back by a
\* copy a handler or an approval still holds (SyncIncident).
THEOREM ClosedIsFinal == Spec => []ClosedStaysClosed
  <1>1. IInv => ClosedStaysClosed
    BY DEF IInv, Good, ClosedStaysClosed
  <1>2. QED
    BY AlwaysIInv, <1>1, PTL

\* "persists open incidents": what Persist left can be restored, in whatever
\* order overlapping saves land and wherever the process is killed.  A
\* ConfigMap always can be; a file unless two saves of it have met and none has
\* had it to itself since.
THEOREM StoreRestorable == Spec => []Restorable
  <1>1. IInv /\ FileInv => Restorable
    BY DEF IInv, TypeOK, Good, Stored, FileInv, Restorable
  <1>2. QED
    BY AlwaysIInv, AlwaysFileInv, <1>1, PTL

\* The severity of an open incident is never below that of a signal in its
\* evidence, with any number of watches, stale and rebuilt copies and restarts.
THEOREM SeverityIsCovering == Spec => []SeverityCovers
  <1>1. Covers => SeverityCovers
    BY DEF Covers, Severe, SeverityCovers
  <1>2. QED
    BY AlwaysCovers, <1>1, PTL

\* Within one life of the process an incident number is handed out once.
THEOREM NumbersFresh == Spec => FreshIds
  <1>1. IInv /\ [Next]_vars => [up /\ up' => \A k \in Keys :
            IsOpen(mem', k) => HoldsId(mem, k, mem'.open[k].id)
                               \/ mem'.open[k].id > mem.seq]_vars
    BY StepIInv DEF Fresh
  <1>2. QED
    BY AlwaysIInv, <1>1, PTL DEF Spec, FreshIds
=============================================================================
