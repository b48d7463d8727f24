-------------------------- MODULE MCMotionCommands --------------------------
(* Small instances of MotionCommands for TLC. *)
EXTENDS MotionCommands, TLC

\* Axes and parameter values are interchangeable.
AxisSymmetry == Permutations(Axes) \cup Permutations(Params)

\* disable sends the frames of enable with another code.
DistinctOperations == Operations \ {"disable"}
Lossy == {"ok", "lost"}
HomeAndClear == {"home", "clear"}
=============================================================================
