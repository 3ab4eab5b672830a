--------------------------- MODULE IncidentBuilder ---------------------------
(***************************************************************************)
(* The incident builder of the Observe agent (internal/agent/correlate):   *)
(* what each locked method of Builder does to the Builder struct.  A       *)
(* builder is a record                                                     *)
(*    open    the open incident of every workload key, or None             *)
(*    recent  when and with which id a workload's incident last closed     *)
(*    dedupe  when a problem fingerprint was last let through              *)
(*    seq     the number of the last incident id handed out                *)
(* and a persisted Snapshot has the same four parts, so Restore is the     *)
(* identity on them.  Time 0 stands for Go's zero time, "long ago": the    *)
(* clock starts at Epoch, beyond every duration of the module, so an       *)
(* absent map entry and an entry at time 0 answer every test alike.        *)
(***************************************************************************)
EXTENDS Integers, Sequences

CONSTANTS
    Keys,          \* workload keys, e.g. Pod/web
    Signals,       \* distinguishable watch events of one workload
    Recovery,      \* the signals isRecovery accepts and isProblem does not
    Rank,          \* severityRank(severityFor(signal))
    Window, QuietFor, DedupeTTL, ReopenWithin,
    MaxEvidence,   \* maxEvidencePerIncident: what a snapshot keeps
    Epoch,         \* the clock when the agent first starts
    MaxSeq,        \* bound of the model: the last incident number it hands out
    None

Evidence == Signals \cup {"log", "apply"}

Ids == 1..MaxSeq

Incident == [id       : Ids,
             severity : 0..5,
             started  : Nat,
             updated  : Nat,
             thread   : Nat,          \* Slack thread timestamp; 0 is ""
             evidence : Seq(Evidence)]

Builder == [open   : [Keys -> Incident \cup {None}],
            recent : [Keys -> [at : Nat, id : Ids \cup {0}]],
            dedupe : [Keys -> [Signals -> Nat]],
            seq    : 0..MaxSeq]

ASSUME BuilderAssumption ==
    /\ Recovery \subseteq Signals
    /\ Signals \cap {"log", "apply"} = {}
    /\ Rank \in [Signals -> 1..5]
    /\ {Window, QuietFor, DedupeTTL, ReopenWithin} \subseteq Nat \ {0}
    /\ MaxEvidence \in Nat \ {0}
    /\ Epoch \in Nat /\ MaxSeq \in Nat
    /\ \A d \in {Window, QuietFor, 2 * DedupeTTL, ReopenWithin} : Epoch > d
    /\ None \notin Incident

Problems == Signals \ Recovery

EmptyBuilder == [open   |-> [k \in Keys |-> None],
                 recent |-> [k \in Keys |-> [at |-> 0, id |-> 0]],
                 dedupe |-> [k \in Keys |-> [s \in Signals |-> 0]],
                 seq    |-> 0]

IsOpen(b, k) == b.open[k] # None

HoldsId(b, k, id) == IsOpen(b, k) /\ b.open[k].id = id

OpenIds(b) == {b.open[k].id : k \in {j \in Keys : IsOpen(b, j)}}

(***************************************************************************)
(* Helpers on one incident.                                                *)
(***************************************************************************)
Worse_Adds(r, q) == r + q
Worse(r, q) == IF r >= q THEN r ELSE q

\* attachEvidence: severity only ever rises.
attachEvidence(inc, s, t) ==
    [inc EXCEPT !.evidence = Append(@, s),
                !.updated  = t,
                !.severity = Worse(@, Rank[s])]

newIncident(id, s, t) ==
    [id |-> id, severity |-> Rank[s], started |-> t, updated |-> t,
     thread |-> 0, evidence |-> <<s>>]

lastEvidence(ev) ==
    IF Len(ev) > MaxEvidence
    THEN SubSeq(ev, Len(ev) - MaxEvidence + 1, Len(ev))
    ELSE ev

(***************************************************************************)
(* The methods.  Each is applied under the builder's mutex.                *)
(***************************************************************************)
seen(b, k, s, t) == [b EXCEPT !.dedupe[k][s] = t]

Duplicate(b, k, s, t) == t - b.dedupe[k][s] < DedupeTTL

openNewLocked_ReusesId(b, k, s, t) ==
    [b EXCEPT !.seq = @ + 1,
              !.open[k] = newIncident(
                  IF b.recent[k].id # 0 THEN b.recent[k].id ELSE b.seq + 1, s, t)]

openNewLocked(b, k, s, t) ==
    [b EXCEPT !.open[k] = newIncident(b.seq + 1, s, t), !.seq = b.seq + 1]

closeLocked(b, k, t) ==
    [b EXCEPT !.open[k] = None, !.recent[k] = [at |-> t, id |-> b.open[k].id]]

put(b, k, inc) == [b EXCEPT !.open[k] = inc]

\* The problem came after the correlation window of the open incident.
OutsideWindow(b, k, t) ==
    /\ t - b.open[k].updated > Window
    /\ t - b.open[k].started > Window

Quiet(b, k, t) == IsOpen(b, k) /\ t - b.open[k].updated >= QuietFor

swept_KeepsThreaded(b, t) ==
    [b EXCEPT !.open = [k \in Keys |->
        IF Quiet(b, k, t) /\ b.open[k].thread = 0 THEN None ELSE b.open[k]]]

\* Sweep: close what was quiet for QuietFor, forget old fingerprints.
swept(b, t) ==
    [open   |-> [k \in Keys |-> IF Quiet(b, k, t) THEN None ELSE b.open[k]],
     recent |-> [k \in Keys |-> IF Quiet(b, k, t)
                                THEN [at |-> t, id |-> b.open[k].id]
                                ELSE b.recent[k]],
     dedupe |-> [k \in Keys |-> [s \in Signals |->
                    IF t - b.dedupe[k][s] > 2 * DedupeTTL THEN 0 ELSE b.dedupe[k][s]]],
     seq    |-> b.seq]

synced_ClosedToo(b, inc) ==
    [b EXCEPT !.open = [k \in Keys |->
        IF HoldsId(b, k, inc.id) \/ (~IsOpen(b, k) /\ b.recent[k].id = inc.id)
        THEN inc ELSE b.open[k]]]

synced_Merged(b, inc) ==
    [b EXCEPT !.open = [k \in Keys |->
        IF HoldsId(b, k, inc.id) THEN [inc EXCEPT !.evidence = b.open[k].evidence]
                                 ELSE b.open[k]]]

\* SyncIncident: replace the open incident that has this id, if one has.
synced(b, inc) ==
    [b EXCEPT !.open = [k \in Keys |-> IF HoldsId(b, k, inc.id) THEN inc ELSE b.open[k]]]

\* SetNotifierThread also moves UpdatedAt.
withThread(b, id, ts, t) ==
    [b EXCEPT !.open = [k \in Keys |->
        IF HoldsId(b, k, id)
        THEN [b.open[k] EXCEPT !.thread = ts, !.updated = t]
        ELSE b.open[k]]]

NotifierThread(b, id) ==
    IF \E k \in Keys : HoldsId(b, k, id)
    THEN b.open[CHOOSE k \in Keys : HoldsId(b, k, id)].thread
    ELSE 0

exportLocked_NoSeq(b) == [b EXCEPT !.seq = 0]

exportLocked(b) ==
    [b EXCEPT !.open = [k \in Keys |->
        IF IsOpen(b, k)
        THEN [b.open[k] EXCEPT !.evidence = lastEvidence(@)]
        ELSE None]]
=============================================================================
