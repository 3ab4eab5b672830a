---------------------------- MODULE Coordinator ----------------------------
(***************************************************************************)
(* The fleet coordinator (internal/agent/coordinator).  Requests bring     *)
(* handoffs from namespace agents and outcomes of remediations; each is    *)
(* appended to a capped ring under the service's mutex, and the whole ring *)
(* is saved after the mutex is released.  An optional ticker probes the    *)
(* busiest edges of the handoff ring again and appends what it finds, as   *)
(* further handoffs.  At start the rings are restored from the store: two  *)
(* keys of one ConfigMap, or two files written by way of a temporary one.  *)
(*                                                                         *)
(* Items are numbered in the order in which they enter a ring.             *)
(***************************************************************************)
EXTENDS Integers, Sequences, FiniteSets

CONSTANTS
    Senders,     \* requests POST /v1/handoff
    Reporters,   \* requests POST /v1/outcome
    Tickers,     \* the goroutine of RunTicker, or none
    Edges,       \* pairs of an origin and a suspect namespace
    Keep,        \* the size of each ring: maxKeep and outcomeMaxKeep
    Budget,      \* edges probed again per tick
    Backend,     \* "file" or "configmap"
    Faults,      \* subset of {"save", "load", "kill", "ttl"}
    MaxItems,    \* bound of the model: items ever made
    Torn,        \* the content of a file that does not parse
    None

VARIABLES
    ring,      \* Service.recent and Service.outcomes
    stage,     \* what an actor does next
    item,      \* the item an actor works on
    snap,      \* the ring as an actor will save it
    todo,      \* edges the current tick has still to probe
    stored,    \* what the store holds under each key
    version,   \* resourceVersion of the ConfigMap; 0: there is none
    seen,      \* version, or inode of the temporary file, an actor works with
    read,      \* the ConfigMap's data as an actor got it
    inode,     \* of each key's temporary file and file
    tmp,       \* content of each key's temporary file
    clock,     \* the clock CreatedAt is taken from
    expired,   \* stamps of outcomes that are older than the TTL
    log,       \* history: the items that entered each ring
    overlap,   \* history: actors whose save met another save of the same key
    kept,      \* history: items saved while no other save was under way
    crowded    \* history: keys whose file more than one save was writing to at once

memory  == <<ring, stage, item, snap, todo>>
store   == <<stored, version, seen, read, inode, tmp>>
history == <<log, overlap, kept, crowded>>
vars    == <<memory, store, clock, expired, history>>

Keys   == {"handoffs", "outcomes"}
Actors == Senders \cup Reporters \cup Tickers
Key(a) == IF a \in Reporters THEN "outcomes" ELSE "handoffs"

\* `report' is the stamp of the origin's report the item carries, 0 a made-up one.
Item == [n : Nat, stamp : Nat, edge : Edges \cup {None}, tick : BOOLEAN, report : Nat]

Stages == {"idle", "probe", "add", "save", "write", "rename"}

ASSUME CoordinatorAssumption ==
    /\ Keep \in [Keys -> Nat \ {0}]
    /\ Budget \in Nat \ {0}
    /\ Backend \in {"file", "configmap"}
    /\ Faults \subseteq {"save", "load", "kill", "ttl"}
    /\ MaxItems \in Nat
    /\ Senders \cap Reporters = {} /\ Tickers \cap (Senders \cup Reporters) = {}
    /\ None \notin Edges /\ None \notin Item /\ Torn \notin Seq(Item)

TypeOK ==
    /\ ring \in [Keys -> Seq(Item)]
    /\ stage \in [Actors -> Stages]
    /\ item \in [Actors -> Item \cup {None}]
    /\ snap \in [Actors -> Seq(Item)]
    /\ todo \in SUBSET [edge : Edges, count : Nat, last : Nat]
    /\ stored \in [Keys -> Seq(Item) \cup {Torn}]
    /\ version \in Nat /\ seen \in [Actors -> Nat]
    /\ read \in [Actors -> [Keys -> Seq(Item) \cup {Torn}] \cup {None}]
    /\ inode \in [Keys -> [tmp : Nat, path : Nat]]
    /\ tmp \in [Keys -> Seq(Item) \cup {Torn}]
    /\ clock \in Nat /\ expired \in SUBSET Nat
    /\ \A h \in {log, kept} : h \in [Keys -> SUBSET Item]
    /\ overlap \in SUBSET Actors /\ crowded \in SUBSET Keys

Init ==
    /\ ring = [k \in Keys |-> <<>>]
    /\ stage = [a \in Actors |-> "idle"]
    /\ item = [a \in Actors |-> None]
    /\ snap = [a \in Actors |-> <<>>]
    /\ todo = {}
    /\ stored = [k \in Keys |-> <<>>]
    /\ version = 0
    /\ seen = [a \in Actors |-> 0]
    /\ read = [a \in Actors |-> None]
    /\ inode = [k \in Keys |-> [tmp |-> 0, path |-> 0]]
    /\ tmp = [k \in Keys |-> <<>>]
    /\ clock = 0 /\ expired = {}
    /\ log = [k \in Keys |-> {}]
    /\ overlap = {} /\ kept = [k \in Keys |-> {}] /\ crowded = {}

(***************************************************************************)
(* Rings.                                                                  *)
(***************************************************************************)
Elements(s) == {s[i] : i \in DOMAIN s}

Appended(s, e) == Append(s, e)

\* The elements of s at the positions in I, in their order.
Selected(s, I) ==
    [j \in 1..Cardinality(I) |-> s[CHOOSE i \in I : Cardinality({h \in I : h <= i}) = j]]

LastN(s, n) == SubSeq(s, IF Len(s) > n THEN Len(s) - n + 1 ELSE 1, Len(s))

\* pruneOutcomesLocked: the TTL first, then the cap.  Handoffs have no TTL.
Pruned(k, s) ==
    LET fresh == {i \in DOMAIN s : k = "outcomes" => s[i].stamp \notin expired}
    IN  LastN(Selected(s, fresh), Keep[k])

AllItems == UNION {log[k] : k \in Keys}
Saving(k) == {a \in Actors : Key(a) = k /\ stage[a] \in {"save", "write", "rename"}}

\* Two saves at once of one file: they share its temporary file.
Crowds(k) == Backend = "file" /\ Saving(k) # {}

Snapshot_Before(k, now) == ring[k]
Snapshot(k, now) == now

\* The critical section of Handle and of RecordOutcome: append, cut, and take
\* the copy that is saved once the mutex is released.
Add(a) ==
    LET k   == Key(a)
        new == [item[a] EXCEPT !.n = Cardinality(AllItems) + 1]
        now == Pruned(k, Appended(ring[k], new))
    IN  /\ stage[a] = "add"
        /\ ring' = [ring EXCEPT ![k] = now]
        /\ snap' = [snap EXCEPT ![a] = Snapshot(k, now)]
        /\ item' = [item EXCEPT ![a] = new]
        /\ stage' = [stage EXCEPT ![a] = "save"]
        /\ log' = [log EXCEPT ![k] = @ \cup {new}]
        /\ overlap' = IF Saving(k) = {} THEN overlap ELSE overlap \cup Saving(k) \cup {a}
        /\ crowded' = IF Crowds(k) THEN crowded \cup {k} ELSE crowded
        /\ kept' = IF Crowds(k) THEN [kept EXCEPT ![k] = {}] ELSE kept
        /\ UNCHANGED <<todo, store, clock, expired>>

(***************************************************************************)
(* Requests.                                                               *)
(***************************************************************************)
\* Handle, up to the mutex: the suspect has been probed and the two reports
\* merged; CreatedAt is taken here.
Handoff(a, e) ==
    /\ stage[a] = "idle"
    /\ clock < MaxItems
    /\ clock' = clock + 1
    /\ item' = [item EXCEPT ![a] = [n |-> 0, stamp |-> clock + 1, edge |-> e,
                                    tick |-> FALSE, report |-> clock + 1]]
    /\ stage' = [stage EXCEPT ![a] = "add"]
    /\ UNCHANGED <<ring, snap, todo, store, expired, history>>

\* RecordOutcome, up to the mutex.  The client may give a time of its own,
\* which may be past the TTL already.
Outcome(a) ==
    /\ stage[a] = "idle"
    /\ clock < MaxItems
    /\ clock' = clock + 1
    /\ \/ UNCHANGED expired
       \/ "ttl" \in Faults /\ expired' = expired \cup {clock + 1}
    /\ item' = [item EXCEPT ![a] = [n |-> 0, stamp |-> clock + 1, edge |-> None,
                                    tick |-> FALSE, report |-> 0]]
    /\ stage' = [stage EXCEPT ![a] = "add"]
    /\ UNCHANGED <<ring, snap, todo, store, history>>

\* Time passes: a stored outcome gets older than the TTL.
Expire ==
    /\ "ttl" \in Faults
    /\ \E e \in Elements(ring["outcomes"]) :
       e.stamp \notin expired /\ expired' = expired \cup {e.stamp}
    /\ UNCHANGED <<memory, store, clock, history>>

(***************************************************************************)
(* The ticker.                                                             *)
(***************************************************************************)
OnEdge_Origin(e) == {i \in DOMAIN ring["handoffs"] :
    ring["handoffs"][i].edge # None /\ ring["handoffs"][i].edge[1] = e[1]}
OnEdge(e) == {i \in DOMAIN ring["handoffs"] : ring["handoffs"][i].edge = e}
LastOf(S) == CHOOSE i \in S : \A j \in S : j <= i

\* Summarize: the edges of the ring, each with its count and its last time.
Knowledge ==
    {[edge |-> e, count |-> Cardinality(OnEdge(e)),
      last |-> ring["handoffs"][LastOf(OnEdge(e))].stamp] :
        e \in {x \in Edges : OnEdge(x) # {}}}

Busier(s, t) == s.count > t.count \/ (s.count = t.count /\ s.last > t.last)

\* The report of the newest item of the edge; one is made up when it is gone.
latestOriginReport(e) ==
    IF OnEdge(e) = {} THEN 0 ELSE ring["handoffs"][LastOf(OnEdge(e))].report

\* A tick settles on the busiest edges, as many as the budget allows.
TickStart(t) ==
    /\ stage[t] = "idle" /\ todo = {}
    /\ \E S \in SUBSET Knowledge :
        /\ S # {}
        /\ Cardinality(S) = Budget \/ (Cardinality(S) < Budget /\ S = Knowledge)
        /\ \A s \in S, x \in Knowledge \ S : ~Busier(x, s)
        /\ todo' = S
    /\ UNCHANGED <<ring, stage, item, snap, store, clock, expired, history>>

\* The envelope for the next edge is made before the probe...
TickEdge(t) ==
    /\ stage[t] = "idle"
    /\ \E s \in todo :
        /\ \A x \in todo : ~Busier(x, s)
        /\ todo' = todo \ {s}
        /\ item' = [item EXCEPT ![t] = [n |-> 0, stamp |-> 0, edge |-> s.edge,
                                        tick |-> TRUE, report |-> latestOriginReport(s.edge)]]
    /\ stage' = [stage EXCEPT ![t] = "probe"]
    /\ UNCHANGED <<ring, snap, store, clock, expired, history>>

\* ... and CreatedAt is taken after it.
TickProbed(t) ==
    /\ stage[t] = "probe"
    /\ clock < MaxItems
    /\ clock' = clock + 1
    /\ item' = [item EXCEPT ![t].stamp = clock + 1]
    /\ stage' = [stage EXCEPT ![t] = "add"]
    /\ UNCHANGED <<ring, snap, todo, store, expired, history>>

(***************************************************************************)
(* Saving.  The request is answered whether or not the save succeeded.     *)
(***************************************************************************)
Answer(a, saved) ==
    /\ stage' = [stage EXCEPT ![a] = "idle"]
    /\ item'  = [item EXCEPT ![a] = None]
    /\ snap'  = [snap EXCEPT ![a] = <<>>]
    /\ seen'  = [seen EXCEPT ![a] = 0]
    /\ read'  = [read EXCEPT ![a] = None]
    /\ IF saved /\ a \notin overlap
       THEN kept' = [kept EXCEPT ![Key(a)] = @ \cup {item[a]}] /\ crowded' = crowded \ {Key(a)}
       ELSE UNCHANGED <<kept, crowded>>
    /\ overlap' = overlap \ {a}
    /\ UNCHANGED <<ring, todo, clock, expired, log>>

SaveFails(a) ==
    /\ "save" \in Faults
    /\ stage[a] \in {"save", "write", "rename"}
    /\ Answer(a, FALSE)
    /\ UNCHANGED <<stored, version, inode, tmp>>

(* ConfigMapStore: Get, then Update of what was got, or Create if there was  *)
(* nothing.  A conflict is an error like any other.                          *)
CmGet(a) ==
    /\ Backend = "configmap" /\ stage[a] = "save"
    /\ seen' = [seen EXCEPT ![a] = version]
    /\ read' = [read EXCEPT ![a] = stored]
    /\ stage' = [stage EXCEPT ![a] = "write"]
    /\ UNCHANGED <<ring, item, snap, todo, stored, version, inode, tmp, clock, expired, history>>

Conflict_Never(a) == FALSE
Conflict(a) == seen[a] # version

CmWrite(a) ==
    /\ Backend = "configmap" /\ stage[a] = "write"
    /\ IF Conflict(a)
       THEN Answer(a, FALSE) /\ UNCHANGED <<stored, version>>
       ELSE /\ stored' = [read[a] EXCEPT ![Key(a)] = snap[a]]
            /\ version' = version + 1
            /\ Answer(a, TRUE)
    /\ UNCHANGED <<inode, tmp>>

(* FileStore: os.WriteFile of the temporary file, which all saves of a key   *)
(* share, then os.Rename.  Whoever still has the temporary file open when    *)
(* another renames it writes to the file itself.                             *)
Truncated_Kept(c) == c
Truncated(c) == <<>>

FileOpen(a) ==
    LET k == Key(a) IN
    /\ Backend = "file" /\ stage[a] = "save"
    /\ inode' = IF inode[k].tmp # 0 THEN inode ELSE [inode EXCEPT ![k].tmp = inode[k].path + 1]
    /\ seen' = [seen EXCEPT ![a] = inode'[k].tmp]
    /\ tmp' = [tmp EXCEPT ![k] = Truncated(@)]
    /\ stage' = [stage EXCEPT ![a] = "write"]
    /\ UNCHANGED <<ring, item, snap, todo, stored, version, read, clock, expired, history>>

\* What a write leaves over an earlier content, whose tail stays if it was longer.
Written(old, new) == IF old \in {<<>>, new} THEN {new} ELSE {new, Torn}

FileWrite(a) ==
    LET k == Key(a) IN
    /\ Backend = "file" /\ stage[a] = "write"
    /\ \/ /\ seen[a] = inode[k].tmp
          /\ \E c \in Written(tmp[k], snap[a]) : tmp' = [tmp EXCEPT ![k] = c]
          /\ UNCHANGED stored
       \/ /\ seen[a] = inode[k].path
          /\ \E c \in Written(stored[k], snap[a]) : stored' = [stored EXCEPT ![k] = c]
          /\ UNCHANGED tmp
       \/ /\ seen[a] \notin {inode[k].tmp, inode[k].path}
          /\ UNCHANGED <<stored, tmp>>
    /\ stage' = [stage EXCEPT ![a] = "rename"]
    /\ UNCHANGED <<ring, item, snap, todo, version, seen, read, inode, clock, expired, history>>

\* Renaming fails when another save has renamed the temporary file before.
FileRename(a) ==
    LET k == Key(a) IN
    /\ Backend = "file" /\ stage[a] = "rename"
    /\ IF inode[k].tmp = 0
       THEN Answer(a, FALSE) /\ UNCHANGED <<stored, inode, tmp>>
       ELSE /\ stored' = [stored EXCEPT ![k] = tmp[k]]
            /\ inode' = [inode EXCEPT ![k] = [tmp |-> 0, path |-> inode[k].tmp]]
            /\ tmp' = [tmp EXCEPT ![k] = <<>>]
            /\ Answer(a, TRUE)
    /\ UNCHANGED version

(***************************************************************************)
(* The process dies and starts again.  A load error leaves the ring empty; *)
(* one of the handoffs also keeps the outcomes from being loaded.          *)
(***************************************************************************)
Loads(k) ==
    (IF stored[k] = Torn THEN {} ELSE {stored[k]})
        \cup (IF stored[k] = Torn \/ "load" \in Faults THEN {Torn} ELSE {})

Fails(k, h, o) == h = Torn \/ (k = "outcomes" /\ o = Torn)

Restart ==
    /\ "kill" \in Faults
    /\ \E h \in Loads("handoffs"), o \in Loads("outcomes") :
       /\ ring' = [k \in Keys |-> IF Fails(k, h, o) THEN <<>>
                                   ELSE Pruned(k, IF k = "handoffs" THEN h ELSE o)]
       /\ kept' = [k \in Keys |-> IF Fails(k, h, o) THEN {} ELSE kept[k]]
    /\ stage' = [a \in Actors |-> "idle"]
    /\ item' = [a \in Actors |-> None]
    /\ snap' = [a \in Actors |-> <<>>]
    /\ seen' = [a \in Actors |-> 0]
    /\ read' = [a \in Actors |-> None]
    /\ todo' = {} /\ overlap' = {}
    /\ UNCHANGED <<stored, version, inode, tmp, clock, expired, log, crowded>>

Handle(a) == \E e \in Edges \cup {None} : Handoff(a, e)
Tick(t) == TickStart(t) \/ TickEdge(t) \/ TickProbed(t)
Save(a) == CmGet(a) \/ CmWrite(a) \/ FileOpen(a) \/ FileWrite(a) \/ FileRename(a) \/ SaveFails(a)

Next ==
    \/ \E a \in Senders : Handle(a)
    \/ \E a \in Reporters : Outcome(a)
    \/ \E t \in Tickers : Tick(t)
    \/ \E a \in Actors : Add(a) \/ Save(a)
    \/ Expire
    \/ Restart

Spec == Init /\ [][Next]_vars

(***************************************************************************)
(* Properties                                                              *)
(***************************************************************************)
\* What the store need not hold any more: an outcome past the TTL, and an
\* item that as many newer ones have followed as the ring has room for.
Outlived(k, x) ==
    \/ k = "outcomes" /\ x.stamp \in expired
    \/ Cardinality({y \in log[k] : y.n > x.n}) >= Keep[k]

InStore(k, x) == stored[k] # Torn /\ x \in Elements(stored[k])

\* "Survive Coordinator restarts": an item that was saved while no other save
\* of its ring was under way stays in the store, whatever conflicts, fails or is
\* killed later and, in a ConfigMap, whatever overlaps.  With files it stays until
\* two saves of its ring overlap; and a load that fails gives up what was stored.
SavedAloneStays == \A k \in Keys : \A x \in kept[k] : InStore(k, x) \/ Outlived(k, x)

\* "separate data key": the two rings share a ConfigMap, and no save of one
\* changes what is stored of the other.
KeysKeptApart == [][\A k \in Keys : stored'[k] # stored[k] =>
    \E a \in Actors :
        Key(a) = k /\ stage[a] \in {"write", "rename"} /\ stage'[a] # stage[a]]_vars

\* "Save persists the handoff ring atomically": what is stored can be parsed at any
\* time, so that a restart does not begin with an empty ring.  A ConfigMap keeps that.
\* A file, which all savers of a ring write by way of one temporary file, may be torn
\* once two of them overlap, until a later save has had it to itself.
StoreReadable == \A k \in Keys : stored[k] = Torn => k \in crowded

\* A ring is in the order in which its items entered it, and none is in it
\* twice, whichever snapshot it was restored from and whoever saves late.
InOrder == \A k \in Keys : \A i, j \in DOMAIN ring[k] : i < j => ring[k][i].n < ring[k][j].n

\* A tick invents nothing: the report it sends on is one that a namespace
\* agent once handed off for the very same edge, and it is never made up as
\* long as every edge the tick settled on stays in the ring.
TicksHaveOrigin == \A x \in log["handoffs"] : x.tick =>
    \/ \E y \in log["handoffs"] :
          ~y.tick /\ y.edge = x.edge /\ y.report = x.report /\ y.n < x.n
    \/ x.report = 0 /\ Cardinality({y \in log["handoffs"] : y.n < x.n}) >= Keep["handoffs"]

\* What the rings and their stores hold can be read and relied on, whoever saves
\* late and whenever the process dies (coordinator.go:168, store.go:154).
RingsSound == TypeOK /\ StoreReadable /\ InOrder /\ TicksHaveOrigin
=============================================================================
