------------------------------ MODULE MCExecutor ------------------------------
(***************************************************************************)
(* Instances of Executor: a Deployment that was rolled out three times, a  *)
(* StatefulSet, a DaemonSet, and a Service that does not exist yet.        *)
(***************************************************************************)
EXTENDS Executor, TLC

CONSTANTS ta, tb, tc, p1, p2

MCObjects == {"web", "db", "agent", "svc"}
MCKind == [o \in MCObjects |->
    CASE o = "web" -> "Deployment" [] o = "db" -> "StatefulSet"
      [] o = "agent" -> "DaemonSet" [] o = "svc" -> "Service"]
MCHistory == [o \in MCObjects |->
    CASE o = "web" -> <<ta, tb>> [] o = "svc" -> <<>> [] OTHER -> <<ta>>]

Do(op, o) == [op |-> op, obj |-> o, replicas |-> 2, template |-> ta, revision |-> 0]
Waiting(plan) == [plan |-> plan, wait |-> TRUE]
AtOnce(plan)  == [plan |-> plan, wait |-> FALSE]

Scale    == <<Do("scale", "web")>>
Undo     == <<Do("rollback", "web")>>
UndoTo1  == <<[Do("rollback", "web") EXCEPT !.revision = 1]>>
Deploy   == <<[Do("apply", "web") EXCEPT !.template = tc, !.replicas = 1]>>
Drop     == <<Do("delete", "web")>>
Launch   == <<Do("apply", "svc"), [Do("scale", "db") EXCEPT !.replicas = 0]>>
Agent    == <<[Do("apply", "agent") EXCEPT !.template = tb]>>

MCWanted == {[template |-> tc, replicas |-> 1]}

Both(x, y) == p1 :> x @@ p2 :> y
MCRuns ==
    {Both(AtOnce(Scale), AtOnce(Undo)), Both(Waiting(Scale), AtOnce(Deploy)),
     Both(AtOnce(Undo), AtOnce(Undo)), Both(Waiting(UndoTo1), AtOnce(Drop)),
     Both(AtOnce(Launch), Waiting(Agent)), Both(AtOnce(Launch), AtOnce(<<Do("apply", "svc")>>))}
=============================================================================
