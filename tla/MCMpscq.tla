------------------------------- MODULE MCMpscq -------------------------------
(* Three producers over three nodes: every node can be in flight at once,   *)
(* and be pushed again as soon as the consumer has returned it.             *)
EXTENDS Mpscq, TLC

CONSTANTS p1, p2, p3, n1, n2, n3

MCProducers == {p1, p2, p3}
MCNodes == {n1, n2, n3}
MCSymmetry == Permutations(MCProducers) \cup Permutations(MCNodes)
=============================================================================
