----------------------------- MODULE MCS3Store -----------------------------
(* Small instances of S3Store for TLC. *)
EXTENDS S3Store, TLC

CONSTANTS p1, p2, n1, n2

TwoProcs == {p1, p2}
TwoNamespaces == {n1, n2}

Symmetry == Permutations(Proc) \cup Permutations(Namespace)
=============================================================================
