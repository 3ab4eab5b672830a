-------------------------------- MODULE Watch --------------------------------
(***************************************************************************)
(* The watch engine of the agent (internal/agent/watch): one goroutine per *)
(* resource lists, watches from the list's version, hands every object to  *)
(* the handler, and starts over after a pause when the stream ends.  The   *)
(* handler is the first thing Ingest does: it tells problems from          *)
(* recoveries (internal/agent/correlate/builder.go).                       *)
(***************************************************************************)
EXTENDS Naturals, Sequences

CONSTANTS
    Requests,       \* what --watch may ask for: sets of names
    Aliases,        \* name -> resource, for the names the engine knows
    Objects, Kind,  \* object -> its resource
    States,         \* object -> the states it may be in
    MaxBackoff,     \* doublings of the pause, from MinBackoff to MaxBackoff
    MaxChanges,     \* bound: changes in the cluster
    MaxFailures,    \* bound: failed calls and streams that end
    Absent

ASSUME KindAssumption == Kind \in [Objects -> {Aliases[n] : n \in DOMAIN Aliases}]
ASSUME BoundsAssumption == {MaxBackoff, MaxChanges, MaxFailures} \subseteq Nat

VARIABLES
    resources,      \* what is watched
    emitInitial,    \* Options.EmitInitial
    cluster,        \* object -> its state, or Absent
    changes,        \* every change so far, in order: the resourceVersion is its index
    loop,           \* resource -> how far its goroutine is
    failures,
    cancelled, returned,
    seen,           \* history: object -> version and verdict of its last delivery
    failed          \* history: resource -> calls that failed in a row

watchVars == <<resources, emitInitial, cluster, changes, loop, failures, cancelled, returned, seen, failed>>

Now == Len(changes)

(***************************************************************************)
(* What the builder makes of a state.                                      *)
(***************************************************************************)
isProblem(resource, s) ==
    \/ resource \in {"Pod", "PersistentVolumeClaim"} /\ s = "Pending"
    \/ resource \in {"Pod", "Job"} /\ s = "Failed"
    \/ resource = "Pod" /\ s = "Unknown"
    \/ resource = "HorizontalPodAutoscaler" /\ s = "at_max"
    \/ resource = "ResourceQuota" /\ s = "exceeded"
    \/ resource = "Ingress" /\ s = "pending_lb"
    \/ resource = "Event" /\ s \in {"BackOff", "Unhealthy", "FailedScheduling", "OOMKilled", "NodeNotReady"}

isRecovery(resource, s) ==
    \/ resource = "Pod" /\ s = "Running"
    \/ resource = "Event" /\ s \in {"Started", "Healthy"}

Verdict(resource, s) ==
    IF isProblem(resource, s) THEN "problem"
    ELSE IF isRecovery(resource, s) THEN "recovery" ELSE "none"

(***************************************************************************)
(* The cluster.                                                            *)
(***************************************************************************)
NormalizeResources(names) ==
    LET known == {Aliases[n] : n \in names \cap DOMAIN Aliases}
    IN  IF known = {} THEN {"Pod", "Event"} ELSE known

Watched == {o \in Objects : Kind[o] \in resources}

Listing == [at |-> "list", version |-> 0, todo |-> {}, backoff |-> 0]

WatchInit ==
    /\ \E names \in Requests : resources = NormalizeResources(names)
    /\ emitInitial \in BOOLEAN
    /\ cluster \in [Objects -> {Absent} \cup UNION {States[o] : o \in Objects}]
    /\ \A o \in Objects : cluster[o] \in {Absent} \cup States[o]
    /\ changes = <<>>
    /\ loop = [r \in resources |-> Listing]
    /\ failures = 0
    /\ cancelled = FALSE /\ returned = FALSE
    /\ seen = [o \in Objects |-> [version |-> 0, verdict |-> "none"]]
    /\ failed = [r \in resources |-> 0]

Change(o) ==
    /\ Now < MaxChanges
    /\ \E s \in ({Absent} \cup States[o]) \ {cluster[o]} :
        /\ cluster' = [cluster EXCEPT ![o] = s]
        \* a deletion is told with the last state
        /\ changes' = Append(changes, [obj |-> o, state |-> IF s = Absent THEN cluster[o] ELSE s])
    /\ UNCHANGED <<resources, emitInitial, loop, failures, cancelled, returned, seen, failed>>

(***************************************************************************)
(* Engine.loop.                                                            *)
(***************************************************************************)
LoopAt(r, at) == loop[r].at = at
Listed(r) == LoopAt(r, "emit") /\ loop[r].todo = {}

Deliver(o, version, state) ==
    seen' = [seen EXCEPT ![o] = [version |-> version, verdict |-> Verdict(Kind[o], state)]]

\* The version an object had at a list: that of its last change.
VersionOf(o) ==
    LET own == {i \in DOMAIN changes : changes[i].obj = o}
    IN  IF own = {} THEN 0 ELSE CHOOSE i \in own : \A j \in own : j <= i

Initial_ColdStart(r) ==
    IF emitInitial /\ loop[r].version = 0 /\ failed[r] = 0
    THEN {o \in Watched : Kind[o] = r /\ cluster[o] # Absent} ELSE {}

\* What a list hands to the handler.
Initial(r) == IF emitInitial THEN {o \in Watched : Kind[o] = r /\ cluster[o] # Absent} ELSE {}

List(r) ==
    /\ LoopAt(r, "list")
    /\ ~cancelled
    /\ loop' = [loop EXCEPT ![r].at = "emit", ![r].version = Now,
                            ![r].todo = {[obj |-> o, version |-> VersionOf(o), state |-> cluster[o]] :
                                            o \in Initial(r)}]
    /\ UNCHANGED <<resources, emitInitial, cluster, changes, failures, cancelled, returned, seen, failed>>

Emit(r) ==
    /\ LoopAt(r, "emit")
    /\ \E e \in loop[r].todo :
        /\ Deliver(e.obj, e.version, e.state)
        /\ loop' = [loop EXCEPT ![r].todo = @ \ {e}]
    /\ UNCHANGED <<resources, emitInitial, cluster, changes, failures, cancelled, returned, failed>>

Open_FromTheStart(r) ==
    /\ Listed(r)
    /\ ~cancelled
    /\ loop' = [loop EXCEPT ![r].at = "consume", ![r].backoff = 0, ![r].version = 0]
    /\ failed' = [failed EXCEPT ![r] = 0]
    /\ UNCHANGED <<resources, emitInitial, cluster, changes, failures, cancelled, returned, seen>>

Open(r) ==
    /\ Listed(r)
    /\ ~cancelled
    /\ loop' = [loop EXCEPT ![r].at = "consume", ![r].backoff = 0]
    /\ failed' = [failed EXCEPT ![r] = 0]
    /\ UNCHANGED <<resources, emitInitial, cluster, changes, failures, cancelled, returned, seen>>

\* The list or the watch fails.
CallFails(r) ==
    /\ LoopAt(r, "list") \/ Listed(r)
    /\ failures < MaxFailures
    /\ failures' = failures + 1
    /\ failed' = [failed EXCEPT ![r] = @ + 1]
    /\ loop' = [loop EXCEPT ![r].at = "sleep"]
    /\ UNCHANGED <<resources, emitInitial, cluster, changes, cancelled, returned, seen>>

\* The stream: changes of the resource after the version it was opened with.
Pending(r) == {i \in DOMAIN changes : i > loop[r].version /\ Kind[changes[i].obj] = r}

Consume(r) ==
    /\ LoopAt(r, "consume")
    /\ \E i \in Pending(r) :
        /\ \A j \in Pending(r) : i <= j
        /\ Deliver(changes[i].obj, i, changes[i].state)
        /\ loop' = [loop EXCEPT ![r].version = i]
    /\ UNCHANGED <<resources, emitInitial, cluster, changes, failures, cancelled, returned, failed>>

\* A closed channel or an error event: what was still to come is not delivered.
StreamEnds(r) ==
    /\ LoopAt(r, "consume")
    /\ failures < MaxFailures
    /\ failures' = failures + 1
    /\ loop' = [loop EXCEPT ![r].at = "sleep"]
    /\ UNCHANGED <<resources, emitInitial, cluster, changes, cancelled, returned, seen, failed>>

nextBackoff_Never(b) == b
nextBackoff(b) == IF b < MaxBackoff THEN b + 1 ELSE MaxBackoff

Wake(r) ==
    /\ LoopAt(r, "sleep")
    /\ loop' = [loop EXCEPT ![r].at = "list", ![r].backoff = nextBackoff(@)]
    /\ UNCHANGED <<resources, emitInitial, cluster, changes, failures, cancelled, returned, seen, failed>>

(***************************************************************************)
(* Engine.Run.                                                             *)
(***************************************************************************)
CancelRun ==
    /\ ~cancelled
    /\ cancelled' = TRUE
    /\ UNCHANGED <<resources, emitInitial, cluster, changes, loop, failures, returned, seen, failed>>

Leave_AtTheTop(r) ==
    /\ cancelled
    /\ LoopAt(r, "list")
    /\ loop' = [loop EXCEPT ![r].at = "left"]
    /\ UNCHANGED <<resources, emitInitial, cluster, changes, failures, cancelled, returned, seen, failed>>

\* No call begins with a cancelled context, and both selects see it.
Leave(r) ==
    /\ cancelled
    /\ loop[r].at \in {"list", "consume", "sleep"} \/ Listed(r)
    /\ loop' = [loop EXCEPT ![r].at = "left"]
    /\ UNCHANGED <<resources, emitInitial, cluster, changes, failures, cancelled, returned, seen, failed>>

Return ==
    /\ cancelled /\ ~returned
    /\ \A r \in resources : LoopAt(r, "left")
    /\ returned' = TRUE
    /\ UNCHANGED <<resources, emitInitial, cluster, changes, loop, failures, cancelled, seen, failed>>

Step(r) == List(r) \/ Emit(r) \/ Open(r) \/ Consume(r) \/ Wake(r) \/ Leave(r)

WatchNext ==
    \/ \E r \in resources : Step(r) \/ CallFails(r) \/ StreamEnds(r)
    \/ \E o \in Objects : Change(o)
    \/ CancelRun
    \/ Return

WatchSpec == WatchInit /\ [][WatchNext]_watchVars

\* Goroutines run, calls return and pauses end.  Failures are not owed to
\* anybody, nor are changes.
FairWatchSpec ==
    /\ WatchSpec
    /\ \A r \in {Aliases[n] : n \in DOMAIN Aliases} : WF_watchVars(r \in resources /\ Step(r))
    /\ WF_watchVars(Return)

(***************************************************************************)
(* Correctness.                                                            *)
(***************************************************************************)
Versions == 0..MaxChanges
Backoffs == 0..MaxBackoff
AnyState == UNION {States[o] : o \in Objects}

Entries  == [obj : Objects, version : Versions, state : AnyState]
LoopType == [at : {"list", "emit", "consume", "sleep", "left"}, version : Versions,
             todo : SUBSET Entries, backoff : Backoffs]
SeenType == [version : Versions, verdict : {"problem", "recovery", "none"}]

\* What each variable holds; the pause stays between MinBackoff and MaxBackoff.
WatchTypeOK ==
    /\ resources # {}
    /\ loop \in [resources -> LoopType]
    /\ failures \in 0..MaxFailures
    /\ seen \in [Objects -> SeenType]
    /\ \A o \in Objects : cluster[o] \in {Absent} \cup States[o]

\* Over any number of reconnects the handler never sees an object go back to an
\* older version, with or without the initial objects of every list.
NoStepBack == [][\A o \in Objects : seen'[o].version >= seen[o].version]_watchVars

\* With --emit-initial nothing stays unseen: when an object that exists changes
\* no more, its present state is what the handler was told last, whatever
\* happened while no stream was open.
CatchesUp ==
    \A o \in Objects : <>[](\/ cancelled \/ ~emitInitial \/ o \notin Watched \/ cluster[o] = Absent
                            \/ seen[o] = [version |-> VersionOf(o), verdict |-> Verdict(Kind[o], cluster[o])])

\* A call that fails again and again is tried with longer and longer pauses.
BacksOff ==
    \A r \in resources : LoopAt(r, "sleep") /\ failed[r] > 0 =>
        loop[r].backoff >= (IF failed[r] - 1 < MaxBackoff THEN failed[r] - 1 ELSE MaxBackoff)

\* "Run blocks until ctx is cancelled": it returns after that, and the handler is
\* not called any more once it has.
QuietAfterReturn == [][returned => seen' = seen /\ loop' = loop]_watchVars
ReturnsWhenCancelled == cancelled ~> returned

\* Pauses grow with repeated failures, and stay within bounds (engine.go:714).
PausesGrow == WatchTypeOK /\ BacksOff

\* Cancelling ends the engine, and the handler may be torn down then (engine.go:162).
StopsCleanly == QuietAfterReturn /\ ReturnsWhenCancelled
=============================================================================
