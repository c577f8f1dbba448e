---------------------------- MODULE MCFillCache ----------------------------
(* Small instances of FillCache for TLC. *)
EXTENDS FillCache, TLC

CONSTANTS c1, c2

TwoCallers == {c1, c2}

Symmetry == Permutations(Caller)
=============================================================================
