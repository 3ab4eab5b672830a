--------------------------- MODULE MCCoordinator ---------------------------
(* A small instance of Coordinator: senders, a reporter and the ticker.      *)
EXTENDS Coordinator

CONSTANTS send1, send2, report1, tick1

\* Two origins and two suspects; the first two edges share the origin.
OneEdge == {<<"pay", "db">>}
TwoEdges == {<<"pay", "db">>, <<"pay", "dns">>}

KeepTwo == [k \in Keys |-> 2]

(* Two ways to run it, checked together: one ConfigMap, which a sender, the  *)
(* reporter and the ticker save to and where updates fail, or two files,     *)
(* which two senders and the reporter save to, with outcomes that age.       *)
VARIABLE setting

Shared == INSTANCE Coordinator WITH Backend <- "configmap", Faults <- {"save", "kill"}
Files  == INSTANCE Coordinator WITH Edges <- OneEdge, Backend <- "file", Faults <- {"kill", "ttl"},
              MaxItems <- 3

EitherInit == Init /\ setting \in {"shared", "files"}

EitherNext ==
    /\ UNCHANGED setting
    /\ \/ /\ setting = "shared"
          /\ Shared!Next
          /\ stage'[send2] = "idle"
       \/ /\ setting = "files"
          /\ Files!Next
          /\ todo' = {}

EitherSpec == EitherInit /\ [][EitherNext]_<<vars, setting>>
=============================================================================
