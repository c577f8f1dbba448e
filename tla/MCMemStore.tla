---------------------------- MODULE MCMemStore ----------------------------
(* Small instances of MemStage, and so of MemStore, for TLC. *)
EXTENDS MemStage, TLC

CONSTANTS p1, p2, n1, n2

TwoProcs == {p1, p2}
TwoNamespaces == {n1, n2}
Blobs == 1 .. 4

Symmetry == Permutations(Proc)
=============================================================================
