--------------------------- MODULE ResetContract ---------------------------
(***************************************************************************)
(* What a ROS client may rely on when it talks to one hand node            *)
(* (src/ros2/rphand_ros/src/rphand_node.cpp): a reset is accepted unless   *)
(* one is in progress or the node is closing, it makes the node forget its *)
(* target, and targets are taken only after a reset that succeeded.        *)
(***************************************************************************)
VARIABLES
    phase,       \* what the node is doing for its clients
    hasTarget    \* a target is kept and repeated

contractVars == <<phase, hasTarget>>

Phases == {"idle", "resetting", "ready", "closed"}

Init ==
    /\ phase = "idle"
    /\ hasTarget = FALSE

AcceptReset ==
    /\ phase \in {"idle", "ready"}
    /\ phase' = "resetting"
    /\ hasTarget' = FALSE

FinishReset ==
    /\ phase = "resetting"
    /\ phase' \in {"idle", "ready"}
    /\ UNCHANGED hasTarget

AcceptTarget ==
    /\ phase = "ready"
    /\ hasTarget' = TRUE
    /\ UNCHANGED phase

Close ==
    /\ phase' = "closed"
    /\ hasTarget' = FALSE

Next == AcceptReset \/ FinishReset \/ AcceptTarget \/ Close

Spec == Init /\ [][Next]_contractVars
=============================================================================
