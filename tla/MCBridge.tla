------------------------------- MODULE MCBridge -------------------------------
(* An instance of Bridge: two laptops, a job of each kind.                   *)
EXTENDS Bridge

CONSTANTS b1, b2, drill, change

MCMode == [j \in {drill, change} |-> IF j = drill THEN "plan_only" ELSE "require_approve"]
=============================================================================
