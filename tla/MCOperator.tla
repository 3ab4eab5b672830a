----------------------------- MODULE MCOperator -----------------------------
(* A small instance of Operator: one resource, observing or with autopilot.  *)
EXTENDS Operator

OneResource  == {<<"pay", "demo">>}

Observe   == [namespace |-> "", observe |-> TRUE]
Autopilot == [namespace |-> "", observe |-> FALSE]

OwnSpecs  == {Observe, Autopilot}
=============================================================================
