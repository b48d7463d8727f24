------------------------------ MODULE MCHoming ------------------------------
(* A small instance of Homing for TLC. *)
EXTENDS Homing
=============================================================================
