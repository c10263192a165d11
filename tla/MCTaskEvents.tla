----------------------------- MODULE MCTaskEvents -----------------------------
(* Small instances of TaskEvents for TLC. *)
EXTENDS TaskEvents
=============================================================================
