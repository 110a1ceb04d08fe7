----------------------------- MODULE MCReadSync -----------------------------
(* A small instance of ReadSync: the second item appears a second later.   *)
(* The runs of the query are alike, so they may be exchanged.              *)
EXTENDS ReadSync, TLC

CONSTANTS p1, p2, o1

MCItem == {1, 2}
MCCreatedAt == [i \in MCItem |-> i - 1]
MCMarked == {1}
MCPoll == {p1, p2}
MCOp == {o1}
MCSymmetry == Permutations(MCPoll)
=============================================================================
