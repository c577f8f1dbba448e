----------------------------- MODULE MCS3Stage -----------------------------
(* Small instances of S3Stage for TLC. *)
EXTENDS S3Stage

CONSTANTS c1, host
=============================================================================
