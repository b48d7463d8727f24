---------------------------- MODULE MCJoyMapper ----------------------------
(* A small instance of JoyMapper, and of the RosNode in it, for TLC. *)
EXTENDS JoyMapper
=============================================================================
