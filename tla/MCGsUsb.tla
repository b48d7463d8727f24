------------------------------ MODULE MCGsUsb ------------------------------
(* Small instances of GsUsb for TLC. *)
EXTENDS GsUsb
=============================================================================
