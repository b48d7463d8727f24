--------------------------- MODULE MCHandActions ---------------------------
(* Small instances of HandActions for TLC. *)
EXTENDS HandActions, TLC

\* Axes are interchangeable: no definition tells one from another.
AxisSymmetry == Permutations(Axes)
=============================================================================
