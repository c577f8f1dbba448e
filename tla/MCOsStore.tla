----------------------------- MODULE MCOsStore -----------------------------
(* Small instances of OsStore for TLC. *)
EXTENDS OsStore, TLC

CONSTANTS p1, p2, p3, n1, n2, i1, i2

TwoProcs == {p1, p2}
ThreeProcs == {p1, p2, p3}
OneNamespace == {n1}
TwoNamespaces == {n1, n2}

Symmetry == Permutations(Proc) \cup Permutations(Namespace) \cup Permutations(Inode)
=============================================================================
