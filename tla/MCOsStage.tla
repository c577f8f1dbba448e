----------------------------- MODULE MCOsStage -----------------------------
(* Small instances of OsStage for TLC. *)
EXTENDS OsStage

CONSTANTS c1, host, a
=============================================================================
