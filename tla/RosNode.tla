------------------------------ MODULE RosNode ------------------------------
(***************************************************************************)
(* The ROS 2 node of one hand (src/ros2/rphand_ros/src/rphand_node.cpp):   *)
(* the callbacks of the executor (cmd subscription, reset service), the    *)
(* manager thread, the session thread the manager starts for every reset,  *)
(* and the end of the node.                                                *)
(*                                                                         *)
(* Every use of mutex_ is one step. The waits on cv_ are steps that are    *)
(* enabled when their predicate holds: what the predicates read changes    *)
(* only under mutex_, or, for rclcpp::ok, is looked at again after at most *)
(* 20 ms. Calls of the SDK are steps that return with any result; module   *)
(* HandControl models what happens inside. Publishing the state changes    *)
(* nothing and is left out.                                                *)
(***************************************************************************)
EXTENDS Integers

CONSTANT MaxResets    \* bound: resets the node accepts

ASSUME MaxResetsAssumption == MaxResets \in Nat

VARIABLES
    resetBusy,      \* reset_busy_
    acceptTargets,  \* accept_targets_
    pendingReset,   \* pending_reset_
    stopRequested,  \* stop_requested_
    exiting,        \* exiting_
    contextOk,      \* rclcpp::ok
    target,         \* target_, as the reset it was received after; 0: none
    manager,        \* program counter of manage()
    session,        \* program counter of the session thread
    step,           \* call of reset() that is due
    success,        \* result of reset()
    held,           \* the session's copy of the target
    hand,           \* hand_: none, created, connected, or ready (homed)
    epoch,          \* history: resets accepted so far
    served          \* history: the reset the session was started for

flagVars    == <<resetBusy, acceptTargets, pendingReset, stopRequested>>
endVars     == <<exiting, contextOk>>
sessionVars == <<session, step, success, held, hand, served>>
vars == <<flagVars, endVars, target, manager, sessionVars, epoch>>

\* The calls of reset() after the Hand object was created.
Calls == <<"connect", "disable", "set speed", "set current limit", "set torque mode",
           "enable", "home">>
LastCall == 7

ManagerStates == {"wait", "join", "restart", "start", "done"}
SessionStates == {"none", "create", "call", "finish", "fail", "report", "loop", "send",
                  "cleanup", "ended"}

TypeOK ==
    /\ resetBusy \in BOOLEAN
    /\ acceptTargets \in BOOLEAN
    /\ pendingReset \in BOOLEAN
    /\ stopRequested \in BOOLEAN
    /\ exiting \in BOOLEAN
    /\ contextOk \in BOOLEAN
    /\ target \in Nat
    /\ manager \in ManagerStates
    /\ session \in SessionStates
    /\ step \in 1..LastCall
    /\ success \in BOOLEAN
    /\ held \in Nat
    /\ hand \in {"none", "created", "connected", "ready"}
    /\ epoch \in Nat
    /\ served \in Nat

\* The manager has started the first session, which does not initialise.
Init ==
    /\ resetBusy = FALSE
    /\ acceptTargets = FALSE
    /\ pendingReset = FALSE
    /\ stopRequested = FALSE
    /\ exiting = FALSE
    /\ contextOk = TRUE
    /\ target = 0
    /\ manager = "wait"
    /\ session = "loop"
    /\ step = 1
    /\ success = FALSE
    /\ held = 0
    /\ hand = "none"
    /\ epoch = 0
    /\ served = 0

\* exiting(), and the condition that ends the loop of run()
Leaving == exiting \/ stopRequested \/ ~contextOk

-----------------------------------------------------------------------------
(* Callbacks. They run until spin() returns and the node is destroyed.      *)

\* A valid cmd message. An invalid or refused one changes nothing.
ReceiveTarget ==
    /\ acceptTargets
    /\ ~resetBusy
    /\ ~exiting
    /\ target' = epoch
    /\ UNCHANGED <<flagVars, endVars, manager, sessionVars, epoch>>

\* Faulty variant: the target of before survives the reset.
ResetKeepingTarget ==
    /\ epoch < MaxResets
    /\ ~resetBusy
    /\ ~exiting
    /\ resetBusy' = TRUE
    /\ acceptTargets' = FALSE
    /\ pendingReset' = TRUE
    /\ stopRequested' = TRUE
    /\ epoch' = epoch + 1
    /\ UNCHANGED <<target, endVars, manager, sessionVars>>

\* The reset service accepts; otherwise it answers Busy and changes nothing.
Reset ==
    /\ epoch < MaxResets
    /\ ~resetBusy
    /\ ~exiting
    /\ resetBusy' = TRUE
    /\ acceptTargets' = FALSE
    /\ target' = 0
    /\ pendingReset' = TRUE
    /\ stopRequested' = TRUE
    /\ epoch' = epoch + 1
    /\ UNCHANGED <<endVars, manager, sessionVars>>

\* SIGINT, or any other shutdown of the context.
ShutDownContext ==
    /\ contextOk
    /\ contextOk' = FALSE
    /\ UNCHANGED <<flagVars, exiting, target, manager, sessionVars, epoch>>

\* The destructor, up to its join of the manager. spin() has returned, since the
\* context is shut down, or has thrown, which main catches with a live context.
\* main shuts that context down next; until then every use of it looks at exiting_
\* as well, so that it counts as shut down already.
Destroy ==
    /\ ~exiting
    /\ exiting' = TRUE
    /\ contextOk' = FALSE
    /\ stopRequested' = TRUE
    /\ target' = 0
    /\ UNCHANGED <<resetBusy, acceptTargets, pendingReset, manager, sessionVars, epoch>>

-----------------------------------------------------------------------------
(* manage()                                                                 *)

\* Faulty variant: the wait looks for a reset only.
WakeManagerForReset ==
    /\ manager = "wait"
    /\ pendingReset
    /\ manager' = "join"
    /\ UNCHANGED <<flagVars, endVars, target, sessionVars, epoch>>

WakeManager ==
    /\ manager = "wait"
    /\ exiting \/ pendingReset
    /\ manager' = "join"
    /\ UNCHANGED <<flagVars, endVars, target, sessionVars, epoch>>

JoinSession ==
    /\ manager = "join"
    /\ session \in {"none", "ended"}
    /\ session' = "none"
    /\ manager' = "restart"
    /\ UNCHANGED <<flagVars, endVars, target, step, success, held, hand, served, epoch>>

Restart ==
    /\ manager = "restart"
    /\ IF exiting
       THEN manager' = "done" /\ UNCHANGED <<pendingReset, stopRequested>>
       ELSE manager' = "start" /\ pendingReset' = FALSE /\ stopRequested' = FALSE
    /\ UNCHANGED <<resetBusy, acceptTargets, endVars, target, sessionVars, epoch>>

StartSession ==
    /\ manager = "start"
    /\ session' = "create"
    /\ success' = FALSE
    /\ step' = 1
    /\ served' = epoch
    /\ manager' = "wait"
    /\ UNCHANGED <<flagVars, endVars, target, held, hand, epoch>>

\* Faulty variant: the reset that could not start a session stays busy.
StartFailsBusy ==
    /\ manager = "start"
    /\ manager' = "wait"
    /\ UNCHANGED <<flagVars, endVars, target, sessionVars, epoch>>

\* std::thread throws
StartFails ==
    /\ manager = "start"
    /\ resetBusy' = FALSE
    /\ manager' = "wait"
    /\ UNCHANGED <<acceptTargets, pendingReset, stopRequested, endVars, target,
                   sessionVars, epoch>>

-----------------------------------------------------------------------------
(* run() and reset()                                                        *)

sharedVars == <<flagVars, endVars, target, manager, epoch>>

CreateHand ==
    /\ session = "create"
    /\ IF Leaving
       THEN session' = "fail" /\ UNCHANGED hand
       ELSE session' = "call" /\ hand' = "created"
    /\ UNCHANGED <<sharedVars, step, success, held, served>>

AtLastCall == step = LastCall

\* perform(): the call returns true, or it returns false or throws, or it is not
\* made because the node is leaving.
CallSdk ==
    /\ session = "call"
    /\ \/ /\ ~Leaving
          /\ hand' = IF AtLastCall THEN "ready" ELSE "connected"
          /\ step' = IF AtLastCall THEN 1 ELSE step + 1
          /\ session' = IF AtLastCall THEN "finish" ELSE "call"
       \/ /\ session' = "fail"
          /\ UNCHANGED <<hand, step>>
    /\ UNCHANGED <<sharedVars, success, held, served>>

FinishReset ==
    /\ session = "finish"
    /\ IF Leaving
       THEN session' = "fail" /\ UNCHANGED success
       ELSE session' = "report" /\ success' = TRUE
    /\ UNCHANGED <<sharedVars, step, held, hand, served>>

\* cleanup() releases the hand, in a reset that failed and at the end of run().
FailReset ==
    /\ session = "fail"
    /\ hand' = "none"
    /\ session' = "report"
    /\ UNCHANGED <<sharedVars, step, success, held, served>>

\* Faulty variant: targets are accepted whatever became of the reset.
ReportAnyResult ==
    /\ session = "report"
    /\ resetBusy' = FALSE
    /\ acceptTargets' = (~exiting /\ ~stopRequested)
    /\ session' = "loop"
    /\ UNCHANGED <<pendingReset, stopRequested, endVars, target, manager, step, success,
                   held, hand, served, epoch>>

Report ==
    /\ session = "report"
    /\ resetBusy' = FALSE
    /\ acceptTargets' = (success /\ ~exiting /\ ~stopRequested)
    /\ session' = "loop"
    /\ UNCHANGED <<pendingReset, stopRequested, endVars, target, manager, step, success,
                   held, hand, served, epoch>>

\* Faulty variant: the session ends without cleanup.
LoopEndsAtOnce ==
    /\ session = "loop"
    /\ IF Leaving
       THEN session' = "ended" /\ UNCHANGED held
       ELSE session' = "send" /\ held' \in {0, target}
    /\ UNCHANGED <<sharedVars, step, success, hand, served>>

\* One round of the loop, up to the end of the critical section. The target is taken
\* when the next command is due.
Loop ==
    /\ session = "loop"
    /\ IF Leaving
       THEN session' = "cleanup" /\ UNCHANGED held
       ELSE session' = "send" /\ held' \in {0, target}
    /\ UNCHANGED <<sharedVars, step, success, hand, served>>

\* set_positions, if there is a target and a hand; whether it succeeds is logged.
SendPosition ==
    /\ session = "send"
    /\ session' = "loop"
    /\ held' = 0
    /\ UNCHANGED <<sharedVars, step, success, hand, served>>

EndSession ==
    /\ session = "cleanup"
    /\ hand' = "none"
    /\ session' = "ended"
    /\ UNCHANGED <<sharedVars, step, success, held, served>>

-----------------------------------------------------------------------------
Callbacks == ReceiveTarget \/ Reset

Manager == WakeManager \/ JoinSession \/ Restart \/ StartSession \/ StartFails

Session ==
    \/ CreateHand \/ CallSdk \/ FinishReset \/ FailReset \/ Report
    \/ Loop \/ SendPosition \/ EndSession

Next == Callbacks \/ ShutDownContext \/ Destroy \/ Manager \/ Session

Spec == Init /\ [][Next]_vars

-----------------------------------------------------------------------------
(* Properties                                                               *)

\* A position sent by a session was received after that session had initialised
\* the hand: no target crosses a reset (rphand_node.cpp:63, :163, :205-209).
NoTargetCrossesReset ==
    session = "send" /\ held # 0 => held = served /\ hand = "ready"

\* Nobody keeps a hand without a running session to release it: neither a session
\* that ended or failed to start nor the finished node (rphand_node.cpp:112-123, :163).
HandBelongsToSession ==
    session \in {"none", "ended", "create"} \/ manager = "done" => hand = "none"

\* What clients see implements ResetContract.
phase ==
    IF exiting THEN "closed"
    ELSE IF resetBusy THEN "resetting"
    ELSE IF acceptTargets THEN "ready"
    ELSE "idle"

Contract == INSTANCE ResetContract WITH phase <- phase, hasTarget <- (target # 0)

\* To its clients the node is one that forgets its target at every reset, takes
\* targets only after a successful one and answers Busy in between
\* (rphand_node.cpp:48-75, :189-192).
ImplementsContract == Contract!Spec

\* An accepted reset comes to an end, also when its session cannot be started
\* (rphand_node.cpp:172-176, :189-190).
ResetEnds == resetBusy ~> ~resetBusy \/ exiting

\* A node whose context is shut down, or which is destroyed because spin() threw,
\* releases its hand and ends (rphand_node.cpp:80-89, :260-270).
ShutdownEnds == ~contextOk ~> manager = "done" /\ hand = "none"
=============================================================================
