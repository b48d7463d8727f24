--------------------------- MODULE MCHandControl ---------------------------
(* Small instances of HandControl for TLC. *)
EXTENDS HandControl, TLC

\* Callers are interchangeable: no definition tells one from another.
CallerSymmetry == Permutations(Callers)
=============================================================================
