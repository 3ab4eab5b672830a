------------------------------ MODULE Incidents ------------------------------
(***************************************************************************)
(* The Observe agent's incident loop (cmd/kprompt/agent.go, "agent run"):  *)
(* one goroutine per watched resource runs the event handler               *)
(*    Ingest -> fetch logs -> SyncIncident -> Persist -> emitChange        *)
(* a sweeper goroutine closes quiet incidents and persists, and the Slack  *)
(* ask listener stamps the outcome of an approved proposal.  They share    *)
(* the Builder (under its mutex), its store, and the `threads' map of      *)
(* Slack threads.  Persist copies the builder under the mutex and saves    *)
(* the copy after releasing it, so that saves overlap: they go by way of   *)
(* one temporary file, or get and update one ConfigMap.  The process may   *)
(* be killed between any two steps and restarted from the store.           *)
(***************************************************************************)
EXTENDS IncidentBuilder

CONSTANTS
    Resources,     \* the watched resources, one goroutine each
    WatchedBy,     \* the resource whose watch delivers a signal
    Sweeper, SlackAsk,
    Flags,         \* the flags the agent runs with, a subset of AllFlags
    Backend,       \* the value of --incidents-backend: "file" or "configmap"
    Faults,        \* subset of {"crash", "save", "load"}
    MaxTime, MaxCrashes, MaxPosts,  \* bounds of the model
    Torn, Blank    \* contents of a file that do not parse: garbled, and none

VARIABLES
    now,           \* the clock
    up,            \* is the agent process running?
    mem,           \* the Builder struct
    disk,          \* what is in the store
    tmp,           \* what is in the temporary file; None: there is none
    handle,        \* what a saver got or opened, as it stands now
    stage,         \* what each goroutine does next
    after,         \* where a goroutine goes on once its save has returned
    ch,            \* the Change a goroutine is working on
    rest,          \* Changes the sweeper has still to emit
    snap,          \* the exported snapshot a goroutine is about to save
    thread,        \* the Slack thread a goroutine looked up before posting
    threads,       \* the process-wide map incident id -> Slack thread
    posts,         \* root messages posted to Slack so far
    crashes,
    alerted,       \* history: the ids Slack alerts named
    overlap,       \* history: actors whose save met another save of the file
    crowded        \* history: has no save had the file to itself since two met?

local   == <<stage, after, ch, rest, snap, thread>>
slack   == <<threads, posts, alerted>>
saving  == <<handle, overlap, crowded>>
store   == <<disk, tmp, saving>>
vars    == <<now, up, mem, store, local, slack, crashes>>

Actors == Resources \cup {Sweeper, SlackAsk}

Change == [kind : {"opened", "reopened", "updated", "closed"},
           key  : Keys,
           inc  : Incident]

AllFlags == {"incidents-backend", "fetch-logs", "slack", "autopilot-apply", "slack-ask"}

Stages == {"idle", "attach", "export", "save", "write", "rename", "notify", "post", "apply"}

Unreadable == {Torn, Blank}

\* The ConfigMap as got is current or stale.  The file that was opened as the
\* temporary one still is that, or has been renamed, or has been replaced since.
Handles == {"none", "current", "stale", "tmp", "file", "gone"}

ASSUME IncidentsAssumption ==
    /\ WatchedBy \in [Signals -> Resources]
    /\ Sweeper \notin Resources /\ SlackAsk \notin Resources /\ Sweeper # SlackAsk
    /\ Flags \subseteq AllFlags
    /\ Backend \in {"file", "configmap"}
    /\ Faults \subseteq {"crash", "save", "load"}
    /\ {MaxTime, MaxCrashes, MaxPosts} \subseteq Nat
    /\ None \notin Change
    /\ None \notin Builder
    /\ Torn \notin Builder \cup {Blank, None} /\ Blank \notin Builder \cup {None}

TypeOK ==
    /\ now \in Nat
    /\ up \in BOOLEAN
    /\ mem \in Builder
    /\ disk \in Builder \cup Unreadable
    /\ tmp \in Builder \cup Unreadable \cup {None}
    /\ handle \in [Actors -> Handles]
    /\ stage \in [Actors -> Stages]
    /\ after \in [Actors -> {"notify", "apply", "idle"}]
    /\ ch \in [Actors -> Change \cup {None}]
    /\ rest \in [Actors -> SUBSET Change]
    /\ snap \in [Actors -> Builder \cup {None}]
    /\ thread \in [Actors -> Nat]
    /\ threads \in [Ids -> Nat]
    /\ posts \in Nat
    /\ crashes \in Nat
    /\ alerted \in SUBSET Ids
    /\ overlap \in SUBSET Actors
    /\ crowded \in BOOLEAN

Idle ==
    /\ stage  = [a \in Actors |-> "idle"]
    /\ after  = [a \in Actors |-> "idle"]
    /\ ch     = [a \in Actors |-> None]
    /\ rest   = [a \in Actors |-> {}]
    /\ snap   = [a \in Actors |-> None]
    /\ thread = [a \in Actors |-> 0]

Init ==
    /\ now = Epoch
    /\ up = TRUE
    /\ mem = EmptyBuilder
    /\ disk = EmptyBuilder
    /\ tmp = None
    /\ handle = [a \in Actors |-> "none"]
    /\ Idle
    /\ threads = [i \in Ids |-> 0]
    /\ posts = 0
    /\ crashes = 0
    /\ alerted = {}
    /\ overlap = {} /\ crowded = FALSE

(***************************************************************************)
(* The event handler of one watched resource: Builder.Ingest, then logs.   *)
(* Events that are ignored (no problem and no recovery, a duplicate, a     *)
(* recovery with nothing open) change nothing and are not steps.           *)
(***************************************************************************)
Delivered(r, s) == up /\ stage[r] = "idle" /\ WatchedBy[s] = r

NewProblem(r, k, s) ==
    /\ Delivered(r, s)
    /\ s \in Problems
    /\ ~Duplicate(mem, k, s, now)

\* The tail every emitted change shares.
Ingested(r, k, kind, inc) ==
    /\ ch' = [ch EXCEPT ![r] = [kind |-> kind, key |-> k, inc |-> inc]]
    /\ stage' = [stage EXCEPT ![r] =
                    IF "fetch-logs" \in Flags /\ kind # "closed" THEN "attach" ELSE "export"]
    /\ after' = [after EXCEPT ![r] = "notify"]
    /\ UNCHANGED <<now, up, store, rest, snap, thread, slack, crashes>>

IngestOpens(r, k, s) ==
    /\ NewProblem(r, k, s)
    /\ ~IsOpen(mem, k)
    /\ mem.seq < MaxSeq
    /\ mem' = openNewLocked(seen(mem, k, s, now), k, s, now)
    /\ Ingested(r, k,
                IF now - mem.recent[k].at <= ReopenWithin THEN "reopened" ELSE "opened",
                newIncident(mem.seq + 1, s, now))

IngestJoins(r, k, s) ==
    /\ NewProblem(r, k, s)
    /\ IsOpen(mem, k)
    /\ ~OutsideWindow(mem, k, now)
    /\ LET inc == attachEvidence(mem.open[k], s, now)
       IN  /\ mem' = put(seen(mem, k, s, now), k, inc)
           /\ Ingested(r, k, "updated", inc)

IngestRotates(r, k, s) ==
    /\ NewProblem(r, k, s)
    /\ IsOpen(mem, k)
    /\ OutsideWindow(mem, k, now)
    /\ mem.seq < MaxSeq
    /\ mem' = openNewLocked(closeLocked(seen(mem, k, s, now), k, now), k, s, now)
    /\ Ingested(r, k, "opened", newIncident(mem.seq + 1, s, now))

IngestRecovers(r, k, s) ==
    /\ Delivered(r, s)
    /\ s \in Recovery
    /\ IsOpen(mem, k)
    /\ mem' = closeLocked(mem, k, now)
    /\ Ingested(r, k, "closed", attachEvidence(mem.open[k], s, now))

\* Fetcher.Attach works on the handler's copy; SyncIncident puts the copy back.
SyncLogs(r) ==
    /\ stage[r] = "attach"
    /\ \E tail \in {<<>>, <<"log">>} :
        LET inc == [ch[r].inc EXCEPT !.evidence = @ \o tail]
        IN  /\ mem' = synced(mem, inc)
            /\ ch' = [ch EXCEPT ![r].inc = inc]
    /\ stage' = [stage EXCEPT ![r] = "export"]
    /\ UNCHANGED <<now, up, store, after, rest, snap, thread, slack, crashes>>

(***************************************************************************)
(* Persist: export under the mutex, save outside it.                       *)
(***************************************************************************)
Saving == {a \in Actors : stage[a] \in {"save", "write", "rename"}}

\* Two saves at once of the file: they share the temporary one.
Crowds == Backend = "file" /\ Saving # {}

Export(a) ==
    /\ "incidents-backend" \in Flags
    /\ stage[a] = "export"
    /\ snap' = [snap EXCEPT ![a] = exportLocked(mem)]
    /\ stage' = [stage EXCEPT ![a] = "save"]
    /\ overlap' = IF Crowds THEN overlap \cup Saving \cup {a} ELSE overlap
    /\ crowded' = (crowded \/ Crowds)
    /\ UNCHANGED <<now, up, mem, disk, tmp, handle, after, ch, rest, thread, slack, crashes>>

PersistReturns(a) ==
    /\ snap' = [snap EXCEPT ![a] = None]
    /\ stage' = [stage EXCEPT ![a] = after[a]]
    /\ after' = [after EXCEPT ![a] = "idle"]
    /\ ch' = IF after[a] = "idle" THEN [ch EXCEPT ![a] = None] ELSE ch
    /\ overlap' = overlap \ {a}
    /\ UNCHANGED <<now, up, mem, rest, thread, slack, crashes>>

\* A failed call, a full disk: only a warning is printed.
SaveFails(a) ==
    /\ "save" \in Faults
    /\ stage[a] \in {"save", "write", "rename"}
    /\ PersistReturns(a)
    /\ handle' = [handle EXCEPT ![a] = "none"]
    /\ UNCHANGED <<disk, tmp, crowded>>

(* ConfigMapStore: Get, then Update of what was got, or Create if there was  *)
(* nothing; either fails when the object has been written in between.        *)
CmGet(a) ==
    /\ Backend = "configmap" /\ stage[a] = "save"
    /\ handle' = [handle EXCEPT ![a] = "current"]
    /\ stage' = [stage EXCEPT ![a] = "write"]
    /\ UNCHANGED <<now, up, mem, disk, tmp, overlap, crowded, after, ch, rest, snap, thread,
                    slack, crashes>>

CmWrite(a) ==
    /\ Backend = "configmap" /\ stage[a] = "write"
    /\ PersistReturns(a)
    /\ IF handle[a] = "current"
       THEN /\ disk' = snap[a]
            /\ handle' = [c \in Actors |-> IF c = a THEN "none"
                                           ELSE IF handle[c] = "current" THEN "stale"
                                           ELSE handle[c]]
       ELSE UNCHANGED disk /\ handle' = [handle EXCEPT ![a] = "none"]
    /\ UNCHANGED <<tmp, crowded>>

(* FileStore: os.WriteFile of the temporary file, which all savers share,    *)
(* then os.Rename.  Whoever still has the temporary file open when another   *)
(* renames it writes to the file itself.                                     *)
FileOpen_Keeps(a) ==
    /\ Backend = "file" /\ stage[a] = "save"
    /\ tmp' = IF tmp = None THEN Blank ELSE tmp
    /\ handle' = [handle EXCEPT ![a] = "tmp"]
    /\ stage' = [stage EXCEPT ![a] = "write"]
    /\ UNCHANGED <<now, up, mem, disk, overlap, crowded, after, ch, rest, snap, thread,
                    slack, crashes>>
FileOpen(a) ==
    /\ Backend = "file" /\ stage[a] = "save"
    /\ tmp' = Blank
    /\ handle' = [handle EXCEPT ![a] = "tmp"]
    /\ stage' = [stage EXCEPT ![a] = "write"]
    /\ UNCHANGED <<now, up, mem, disk, overlap, crowded, after, ch, rest, snap, thread,
                    slack, crashes>>

\* What a write leaves over an earlier content, whose tail stays if it was longer.
Written(old, new) == IF old \in {Blank, new} THEN {new} ELSE {new, Torn}

FileWrite(a) ==
    /\ Backend = "file" /\ stage[a] = "write"
    /\ \/ handle[a] = "tmp" /\ tmp' \in Written(tmp, snap[a]) /\ UNCHANGED disk
       \/ handle[a] = "file" /\ disk' \in Written(disk, snap[a]) /\ UNCHANGED tmp
       \/ handle[a] = "gone" /\ UNCHANGED <<disk, tmp>>
    /\ stage' = [stage EXCEPT ![a] = "rename"]
    /\ UNCHANGED <<now, up, mem, saving, after, ch, rest, snap, thread, slack, crashes>>

Renamed(h) == CASE h = "tmp" -> "file" [] h = "file" -> "gone" [] OTHER -> h

\* Renaming fails when another save has renamed the temporary file before.
FileRename(a) ==
    /\ Backend = "file" /\ stage[a] = "rename"
    /\ PersistReturns(a)
    /\ IF tmp = None
       THEN handle' = [handle EXCEPT ![a] = "none"] /\ UNCHANGED <<disk, tmp, crowded>>
       ELSE /\ disk' = tmp
            /\ tmp' = None
            /\ handle' = [c \in Actors |-> IF c = a THEN "none" ELSE Renamed(handle[c])]
            /\ crowded' = (crowded /\ a \in overlap)

\* Without a store Persist returns at once.
NoStore(a) ==
    /\ "incidents-backend" \notin Flags
    /\ stage[a] = "export" /\ PersistReturns(a) /\ UNCHANGED <<disk, tmp, handle, crowded>>

(***************************************************************************)
(* emitChange: analyze, notify the incident's Slack thread, apply the      *)
(* proposal in the loop, stamp the incident with the outcome.              *)
(***************************************************************************)
\* emitChange has returned; the sweeper goes on with its next change and
\* persists after the last one.
EmitNext(a, todo) ==
    /\ \/ \E c \in todo : /\ ch' = [ch EXCEPT ![a] = c]
                          /\ rest' = [rest EXCEPT ![a] = todo \ {c}]
                          /\ stage' = [stage EXCEPT ![a] = "notify"]
       \/ /\ todo = {}
          /\ ch' = [ch EXCEPT ![a] = None]
          /\ rest' = [rest EXCEPT ![a] = {}]
          /\ stage' = [stage EXCEPT ![a] = IF a = Sweeper THEN "export" ELSE "idle"]
    /\ after' = [after EXCEPT ![a] = "idle"]

\* emitChange returns: the analyzer skipped the incident (same evidence as
\* last time) or failed, nothing was sent or applied, or all of it is done.
EmitReturns(a) ==
    /\ stage[a] \in {"notify", "apply"}
    /\ EmitNext(a, rest[a])
    /\ UNCHANGED <<now, up, mem, store, snap, thread, slack, crashes>>

LookupThread(a) ==
    /\ "slack" \in Flags
    /\ stage[a] = "notify"
    /\ LET inc == ch[a].inc
       IN  thread' = [thread EXCEPT ![a] =
                CASE threads[inc.id] # 0 -> threads[inc.id]
                  [] threads[inc.id] = 0 /\ NotifierThread(mem, inc.id) # 0
                        -> NotifierThread(mem, inc.id)
                  [] OTHER -> inc.thread]
    /\ stage' = [stage EXCEPT ![a] = "post"]
    /\ UNCHANGED <<now, up, mem, store, after, ch, rest, snap, slack, crashes>>

Posted(a) == IF thread[a] = 0 THEN posts + 1 ELSE thread[a]

Post(a) ==
    /\ stage[a] = "post"
    /\ thread[a] = 0 => posts < MaxPosts
    /\ posts' = IF thread[a] = 0 THEN posts + 1 ELSE posts
    /\ threads' = [threads EXCEPT ![ch[a].inc.id] = Posted(a)]
    /\ mem' = withThread(mem, ch[a].inc.id, Posted(a), now)
    /\ alerted' = alerted \cup {ch[a].inc.id}
    /\ thread' = [thread EXCEPT ![a] = 0]
    /\ stage' = [stage EXCEPT ![a] = "export"]
    /\ after' = [after EXCEPT ![a] = "apply"]
    /\ UNCHANGED <<now, up, store, ch, rest, snap, crashes>>

PostFails(a) ==
    /\ stage[a] = "post"
    /\ thread' = [thread EXCEPT ![a] = 0]
    /\ stage' = [stage EXCEPT ![a] = "apply"]
    /\ UNCHANGED <<now, up, mem, store, after, ch, rest, snap, slack, crashes>>

\* In-loop apply, with or without an alert before it: stampIncidentApplyOutcome
\* puts the incident the context was built from back, the copy made when the
\* change was ingested.
StampOutcome(a) ==
    /\ "autopilot-apply" \in Flags
    /\ stage[a] \in {"notify", "apply"}
    /\ ch[a].inc.id \in OpenIds(mem)
    /\ mem' = synced(mem, ch[a].inc)
    /\ stage' = [stage EXCEPT ![a] = "export"]
    /\ after' = [after EXCEPT ![a] = "idle"]
    /\ UNCHANGED <<now, up, store, ch, rest, snap, thread, slack, crashes>>

(***************************************************************************)
(* The sweeper's tick.                                                     *)
(***************************************************************************)
Sweep ==
    /\ up
    /\ stage[Sweeper] = "idle"
    /\ mem' = swept(mem, now)
    /\ EmitNext(Sweeper, {[kind |-> "closed", key |-> k,
                           inc |-> [mem.open[k] EXCEPT !.updated = now]] :
                             k \in {j \in Keys : Quiet(mem, j, now)}})
    /\ UNCHANGED <<now, up, store, snap, thread, slack, crashes>>

(***************************************************************************)
(* "approve <proposal-id>" in Slack: the outcome is stamped on an incident *)
(* rebuilt from the proposal alone (ContextFromProposal).                  *)
(***************************************************************************)
fromProposal(id) ==
    [id |-> id, severity |-> 0, started |-> 0, updated |-> 0,
     thread |-> 0, evidence |-> <<"apply">>]

ApproveInSlack ==
    /\ up
    /\ "slack-ask" \in Flags
    /\ stage[SlackAsk] = "idle"
    /\ \E id \in OpenIds(mem) \cap alerted :
        mem' = synced(mem, fromProposal(id))
    /\ stage' = [stage EXCEPT ![SlackAsk] = "export"]
    /\ UNCHANGED <<now, up, store, after, ch, rest, snap, thread, slack, crashes>>

(***************************************************************************)
(* The environment: time, and the process killed and started again.        *)
(***************************************************************************)
Tick ==
    /\ now < MaxTime
    /\ now' = now + 1
    /\ UNCHANGED <<up, mem, store, local, slack, crashes>>

Crash ==
    /\ "crash" \in Faults
    /\ up
    /\ crashes < MaxCrashes
    /\ crashes' = crashes + 1
    /\ up' = FALSE
    /\ mem' = EmptyBuilder
    /\ stage'  = [a \in Actors |-> "idle"]
    /\ after'  = [a \in Actors |-> "idle"]
    /\ ch'     = [a \in Actors |-> None]
    /\ rest'   = [a \in Actors |-> {}]
    /\ snap'   = [a \in Actors |-> None]
    /\ thread' = [a \in Actors |-> 0]
    /\ threads' = [i \in Ids |-> 0]
    /\ handle' = [a \in Actors |-> "none"]
    /\ overlap' = {}
    /\ UNCHANGED <<now, disk, tmp, crowded, posts, alerted>>

Restart ==
    /\ ~up
    /\ disk \notin Unreadable
    /\ up' = TRUE
    /\ mem' = disk
    /\ UNCHANGED <<now, store, local, slack, crashes>>

\* A load error is ignored and the agent starts with an empty builder.
RestartWithoutState ==
    /\ "load" \in Faults \/ disk \in Unreadable
    /\ ~up
    /\ up' = TRUE
    /\ UNCHANGED <<now, mem, store, local, slack, crashes>>

Ingest(r) == \E k \in Keys, s \in Signals :
    \/ IngestOpens(r, k, s)
    \/ IngestJoins(r, k, s)
    \/ IngestRotates(r, k, s)
    \/ IngestRecovers(r, k, s)

Save(a) == CmGet(a) \/ CmWrite(a) \/ FileOpen(a) \/ FileWrite(a) \/ FileRename(a)

Persist(a) == Export(a) \/ Save(a) \/ SaveFails(a) \/ NoStore(a)

emitChange(a) ==
    \/ LookupThread(a) \/ Post(a) \/ PostFails(a)
    \/ StampOutcome(a) \/ EmitReturns(a)

Next ==
    \/ \E r \in Resources : Ingest(r) \/ SyncLogs(r)
    \/ \E a \in Actors : Persist(a) \/ emitChange(a)
    \/ Sweep
    \/ ApproveInSlack
    \/ Tick
    \/ Crash \/ Restart \/ RestartWithoutState

\* The ticker fires every 30s, handlers and saves return (their calls carry
\* timeouts), and the pod is restarted when it dies.  Nothing is owed by the
\* watched workloads or by the human in Slack.
Fairness ==
    /\ WF_vars(Sweep)
    /\ WF_vars(Persist(Sweeper))
    /\ WF_vars(emitChange(Sweeper))
    /\ WF_vars(Restart \/ RestartWithoutState)

Spec == Init /\ [][Next]_vars

FairSpec == Spec /\ Fairness

(***************************************************************************)
(* Properties                                                              *)
(***************************************************************************)
\* A restored or live builder never gives two workloads one incident id, and
\* an id it remembers as closed is not the id of an open incident.
UniqueIn(b) == \A j, k \in Keys :
    IsOpen(b, j) /\ IsOpen(b, k) /\ b.open[j].id = b.open[k].id => j = k

ClosedIn(b) == \A j, k \in Keys : IsOpen(b, j) => b.open[j].id # b.recent[k].id

NumberedIn(b) == \A k \in Keys :
    /\ IsOpen(b, k) => b.open[k].id <= b.seq
    /\ b.recent[k].id <= b.seq

\* Two workloads never share an open incident, whatever stale copies the
\* handlers of several watches, the sweeper and the Slack listener put back
\* with SyncIncident, and across restarts.
UniqueIds == UniqueIn(mem)

\* SyncIncident never brings a closed incident back: a handler that fetched
\* logs while another watch saw the recovery finds no open incident to replace.
ClosedStaysClosed == ClosedIn(mem)

\* "persists open incidents": in whatever order saves land, what is stored is
\* something the builder can start from: it parses, its ids are unique, its closed
\* ids are closed, and its counter is not behind any id it holds.  A ConfigMap keeps
\* that.  The file, which all savers write by way of one temporary file, may be
\* unreadable once two saves have met, until a later one has had it to itself.
Restorable == IF disk \in Unreadable
              THEN crowded
              ELSE UniqueIn(disk) /\ ClosedIn(disk) /\ NumberedIn(disk)

\* While the process lives, the incident of a workload only ever changes
\* into one with a number that was never handed out before.
FreshIds == [][up /\ up' => \A k \in Keys :
    IsOpen(mem', k) => HoldsId(mem, k, mem'.open[k].id) \/ mem'.open[k].id > mem.seq]_vars

Covered(inc) == \A i \in 1..Len(inc.evidence) :
    inc.evidence[i] \in Signals => Rank[inc.evidence[i]] <= inc.severity

\* The severity of an open incident is at least that of every signal in its
\* evidence: neither a copy that SyncIncident puts back late, nor an incident
\* rebuilt from a proposal, nor one restored from the store understates it.
SeverityCovers == \A k \in Keys : IsOpen(mem, k) => Covered(mem.open[k])

\* An incident that has been quiet for QuietFor is eventually closed or gets
\* new evidence, although the sweeper emits and persists between sweeps and
\* may be killed.
QuietIncidentsClose == \A k \in Keys :
    (up /\ Quiet(mem, k, now)) ~> ~(up /\ Quiet(mem, k, now))

\* "new problem for the same key within Window joins the open Incident": while
\* the process lives, what has joined an open incident stays in it.
JoinedStays == [][up /\ up' => \A k \in Keys :
    IsOpen(mem, k) /\ HoldsId(mem', k, mem.open[k].id) =>
        Len(mem'.open[k].evidence) >= Len(mem.open[k].evidence)]_vars
=============================================================================
