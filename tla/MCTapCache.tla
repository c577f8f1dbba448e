----------------------------- MODULE MCTapCache -----------------------------
(* Small instances of TapCache for TLC. *)
EXTENDS TapCache, TLC

CONSTANTS c1, c2

TwoCallers == {c1, c2}

Symmetry == Permutations(Caller)
=============================================================================
