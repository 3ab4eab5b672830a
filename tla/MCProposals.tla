----------------------------- MODULE MCProposals -----------------------------
(* Small instances of Proposals, with the policies of agent and command      *)
(* unlike each other.                                                        *)
EXTENDS Proposals

CONSTANTS loop1, loop2, slack1, cmd1, agent

FullPolicy == [auto |-> TRUE, allow |-> Actions, floor |-> 1]

\* The command runs with a stricter policy than the agent that proposed.
StrictCommand == [p \in Processes |->
    IF p = Agent THEN [FullPolicy EXCEPT !.floor = 0]
                 ELSE [FullPolicy EXCEPT !.allow = {"restart"}]]

(* Five ways to run it, checked together:                                    *)
(*   apart     a loop, Slack and a command with a process of its own propose *)
(*             twice and approve once, while loads fail                      *)
(*   again     the same approve one proposal twice; all of it may fail       *)
(*   loops     two loops and Slack in one process, which may be killed       *)
(*   targets   a loop and Slack, where a remedy changes its target           *)
(*   overflow  two loops that propose more than the ring holds               *)
VARIABLE setting

Apart    == INSTANCE Proposals WITH Targets <- {"web"}, Faults <- {"load"},
                                    MaxProposals <- 2, MaxApprovals <- 1
Again    == INSTANCE Proposals WITH Targets <- {"web"}, MaxProposals <- 1
Loops    == INSTANCE Proposals WITH Actions <- {"restart"}, Targets <- {"web"},
                                    Faults <- {"kill"}, MaxProposals <- 2, MaxApprovals <- 1
Retarget == INSTANCE Proposals WITH Actions <- {"restart"}, Faults <- {},
                                    MaxProposals <- 2, MaxApprovals <- 1
Overflow == INSTANCE Proposals WITH Actions <- {"restart"}, Targets <- {"web"},
                                    Faults <- {}, MaxApprovals <- 0

Settings == {"apart", "again", "loops", "targets", "overflow"}

EitherInit == Init /\ setting \in Settings

EitherNext ==
    /\ UNCHANGED setting
    /\ \/ setting = "apart" /\ Apart!Next /\ stage'[loop2] = "idle"
       \/ setting = "again" /\ Again!Next /\ stage'[loop2] = "idle"
       \/ setting = "loops" /\ Loops!Next /\ stage'[cmd1] = "idle"
       \/ setting = "targets" /\ Retarget!Next /\ stage'[loop2] = "idle" /\ stage'[cmd1] = "idle"
       \/ setting = "overflow" /\ Overflow!Next

EitherSpec == EitherInit /\ [][EitherNext]_<<vars, setting>> /\ Fairness
=============================================================================
