---------------------------- MODULE MCAtomicFile ----------------------------
(* Two calls in a directory with three names.                              *)
EXTENDS AtomicFile, TLC

CONSTANTS p1, p2, n1, n2, n3

MCCalls == {p1, p2}
MCNames == {n1, n2, n3}
MCRequests == Request

Symmetry == Permutations(MCCalls) \cup Permutations(MCNames)
=============================================================================
