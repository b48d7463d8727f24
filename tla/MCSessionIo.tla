---------------------------- MODULE MCSessionIo ----------------------------
(* Small instances of SessionIo for TLC. *)
EXTENDS SessionIo, TLC
=============================================================================
