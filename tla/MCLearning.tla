------------------------------ MODULE MCLearning ------------------------------
(* A small instance of Learning: two signatures and room for one pattern.    *)
EXTENDS Learning, TLC

CONSTANTS loop1, cmd1, s1, s2

Marked   == [count |-> 4, confirmed |-> 0, fps |-> 4, weight |-> 40]
Frequent == [count |-> 4, confirmed |-> 0, fps |-> 0, weight |-> 0]

MCEarlier == {Nothing} \cup {[Nothing EXCEPT ![s] = p] : s \in Signatures, p \in {Marked, Frequent}}
EitherWay == Permutations(Signatures)
=============================================================================
