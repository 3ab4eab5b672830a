----------------------------- MODULE MCIncidents -----------------------------
(* Small instances of Incidents: two workloads, the watches of pods and of   *)
(* events, a BackOff event and a Failed pod phase as problems, a Running pod *)
(* as recovery.                                                              *)
EXTENDS Incidents

CONSTANTS k1, k2, pods, events

AllSignals == {"BackOff", "Failed", "Running"}
MCRecovery == {"Running"}
MCRank     == [s \in Signals |-> IF s = "Failed" THEN 4 ELSE 3]
MCWatched  == [s \in Signals |-> IF s = "BackOff" THEN events ELSE pods]

(* Five ways to run it, checked together.                                    *)
(*   many  two workloads, one watch, applies in the loop, a ConfigMap        *)
(*   file  one workload, both watches, a file                                *)
(*   logs  one workload, both watches, logs and applies, nothing stored      *)
(*   ask   one workload, one watch, Slack with its listener, a ConfigMap     *)
(*   late  one workload, one watch, Slack, failing saves, and more time      *)
VARIABLE setting

Many == INSTANCE Incidents WITH
    Flags <- {"autopilot-apply", "incidents-backend"},
    Backend <- "configmap", Faults <- {"crash", "save", "load"}, MaxTime <- Epoch + 1
File == INSTANCE Incidents WITH
    Flags <- {"incidents-backend"},
    Backend <- "file", Faults <- {"crash"}, MaxTime <- Epoch, MaxSeq <- 1
Logs == INSTANCE Incidents WITH
    Flags <- {"fetch-logs", "autopilot-apply"}, Faults <- {}, MaxTime <- Epoch + 1
Ask == INSTANCE Incidents WITH
    Flags <- {"slack", "slack-ask", "incidents-backend"},
    Backend <- "configmap", Faults <- {"crash"}, MaxTime <- Epoch + 1
Late == INSTANCE Incidents WITH
    Flags <- {"slack", "incidents-backend"},
    Backend <- "configmap", Faults <- {"save"}

EitherInit == Init /\ setting \in {"many", "file", "logs", "ask", "late"}

OneWatch == stage'[pods] = "idle"
OneKey   == ~IsOpen(mem', k2)

EitherNext ==
    /\ UNCHANGED setting
    /\ \/ setting = "many" /\ Many!Next /\ OneWatch
       \/ setting = "file" /\ File!Next /\ OneKey
       \/ setting = "logs" /\ Logs!Next /\ OneKey
       \/ setting = "ask"  /\ Ask!Next /\ OneKey /\ OneWatch
       \/ setting = "late" /\ Late!Next /\ OneKey /\ OneWatch

all == <<vars, setting>>

EitherPersist(a) ==
    \/ setting = "many" /\ Many!Persist(a)
    \/ setting = "file" /\ File!Persist(a)
    \/ setting = "logs" /\ Logs!Persist(a)
    \/ setting = "ask"  /\ Ask!Persist(a)
    \/ setting = "late" /\ Late!Persist(a)

EitherEmit(a) ==
    \/ setting = "many" /\ Many!emitChange(a)
    \/ setting = "file" /\ File!emitChange(a)
    \/ setting = "logs" /\ Logs!emitChange(a)
    \/ setting = "ask"  /\ Ask!emitChange(a)
    \/ setting = "late" /\ Late!emitChange(a)

EitherRestart ==
    \/ Restart
    \/ setting = "many" /\ Many!RestartWithoutState
    \/ setting = "file" /\ File!RestartWithoutState

EitherFairness ==
    /\ WF_all(UNCHANGED setting /\ Sweep)
    /\ WF_all(UNCHANGED setting /\ EitherPersist(Sweeper))
    /\ WF_all(UNCHANGED setting /\ EitherEmit(Sweeper))
    /\ WF_all(UNCHANGED setting /\ EitherRestart)

\* The logs alone, for the property they break.
LogsSpec == Init /\ setting = "logs" /\ [][EitherNext]_all

EitherSpec == EitherInit /\ [][EitherNext]_all /\ EitherFairness
=============================================================================
