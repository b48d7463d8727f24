----------------------------- MODULE JoyMapper -----------------------------
(***************************************************************************)
(* The joystick mapper (src/ros2/rphand_ros/scripts/rphand_joy_mapper.py)  *)
(* and the node of one hand, which it asks for resets and sends the        *)
(* positions of a wave. Its callbacks run one at a time. The mapper treats *)
(* its two hands alike: one is modelled here.                              *)
(*                                                                         *)
(* The middleware is external: requests and answers are not lost while     *)
(* both programs run, and of commands not yet delivered the last one is    *)
(* kept (depth 1). Other clients may reset the hand; only the mapper sends *)
(* it commands, as src/docs/ros2.md:133 demands.                           *)
(***************************************************************************)
EXTENDS RosNode

VARIABLES
    mapper,         \* "running", or "ended" by a signal
    direction,      \* _direction
    button,         \* _last_motor_button
    robotEnabled,   \* _robot_enabled
    pending,        \* _reset_pending[side]
    wave,           \* _wave_started[side] is not None
    requests,       \* reset requests on their way to the node
    answers,        \* answers on their way to the mapper
    command,        \* the command on its way to the node
    open            \* what the node's target says: all axes at 0

joyVars == <<mapper, direction, button, robotEnabled, pending, wave>>
linkVars == <<requests, answers, command, open>>
allVars == <<vars, joyVars, linkVars>>

\* What the D-pad means for this hand; "" stands for released.
Directions == {"", "reset", "wave"}

JoyInit ==
    /\ Init
    /\ mapper = "running"
    /\ direction = ""
    /\ button = FALSE
    /\ robotEnabled = FALSE
    /\ pending = FALSE
    /\ wave = FALSE
    /\ requests = 0
    /\ answers = 0
    /\ command = "none"
    /\ open = TRUE

\* Bound: requests the node may still accept.
ResetsLeft == epoch + requests < MaxResets

-----------------------------------------------------------------------------
(* The mapper.                                                              *)

\* A joystick message: the motor button first, then the D-pad. A rising edge of
\* the button toggles the flag, and enabling resets the hand as the D-pad does;
\* a reset that is pending, or whose service is not there, is not asked for.
OnJoy(b, d, ready) ==
    LET pressed == b /\ ~button
        edge    == d # "" /\ d # direction
        ask     == /\ (pressed /\ ~robotEnabled) \/ (edge /\ d = "reset")
                   /\ ~pending /\ ready
    IN  /\ mapper = "running"
        /\ ask => ResetsLeft
        /\ button' = b
        /\ robotEnabled' = IF pressed THEN ~robotEnabled ELSE robotEnabled
        /\ direction' = d
        /\ pending' = (pending \/ ask)
        /\ requests' = IF ask THEN requests + 1 ELSE requests
        /\ wave' = (wave \/ (edge /\ d = "wave"))
        /\ UNCHANGED <<vars, mapper, answers, command, open>>

\* Faulty variant: without the finally clause an exception leaves it pending.
ResetDoneWithoutFinally ==
    /\ mapper = "running" /\ answers > 0
    /\ answers' = answers - 1
    /\ pending' \in BOOLEAN
    /\ UNCHANGED <<vars, mapper, direction, button, robotEnabled, wave, requests,
                   command, open>>

\* The answer, accepted, Busy or an exception, ends the wait.
ResetDone ==
    /\ mapper = "running" /\ answers > 0
    /\ answers' = answers - 1
    /\ pending' = FALSE
    /\ UNCHANGED <<vars, mapper, direction, button, robotEnabled, wave, requests,
                   command, open>>

\* Faulty variant: the last position of the wave stays.
LastCommandPose == command' = "pose"

\* At the end of a wave the hand is sent back to 0.
LastCommand == command' = "zero"

WaveTick ==
    /\ mapper = "running" /\ wave
    /\ \/ command' = "pose" /\ UNCHANGED wave
       \/ LastCommand /\ wave' = FALSE
    /\ UNCHANGED <<vars, mapper, direction, button, robotEnabled, pending, requests,
                   answers, open>>

EndMapper ==
    /\ mapper = "running"
    /\ mapper' = "ended"
    /\ UNCHANGED <<vars, direction, button, robotEnabled, pending, wave, linkVars>>

-----------------------------------------------------------------------------
(* The node's callbacks, as messages reach them.                            *)

\* The reset service answers at once, whether it accepts or is busy. A node
\* that is being destroyed answers no more.
DeliverRequest ==
    /\ requests > 0 /\ ~exiting
    /\ Reset \/ (resetBusy /\ UNCHANGED vars)
    /\ requests' = requests - 1
    /\ answers' = answers + 1
    /\ UNCHANGED <<joyVars, command, open>>

\* A command is taken, or ignored when the node does not accept targets.
DeliverCommand ==
    /\ command # "none"
    /\ command' = "none"
    /\ \/ ReceiveTarget /\ open' = (command = "zero")
       \/ (~acceptTargets \/ resetBusy \/ exiting) /\ UNCHANGED <<vars, open>>
    /\ UNCHANGED <<joyVars, requests, answers>>

OtherReset ==
    /\ ResetsLeft
    /\ Reset
    /\ UNCHANGED <<joyVars, linkVars>>

-----------------------------------------------------------------------------

Mapper ==
    \/ \E b, ready \in BOOLEAN, d \in Directions : OnJoy(b, d, ready)
    \/ ResetDone \/ WaveTick \/ EndMapper

NodeStep ==
    /\ ShutDownContext \/ Destroy \/ Manager \/ Session
    /\ UNCHANGED <<joyVars, linkVars>>

JoyNext == Mapper \/ DeliverRequest \/ DeliverCommand \/ OtherReset \/ NodeStep

JoySpec == JoyInit /\ [][JoyNext]_allVars

\* Started threads keep running, calls of the SDK return, spin() returns once the
\* context is shut down (that it throws is never certain), and both executors handle what arrives. Nobody has to
\* send a message.
JoyFairSpec ==
    /\ JoySpec
    /\ WF_allVars(Manager /\ UNCHANGED <<joyVars, linkVars>>)
    /\ WF_allVars(Session /\ UNCHANGED <<joyVars, linkVars>>)
    /\ WF_allVars(~contextOk /\ Destroy /\ UNCHANGED <<joyVars, linkVars>>)
    /\ WF_allVars(DeliverRequest)
    /\ WF_allVars(ResetDone)

-----------------------------------------------------------------------------

\* A finished wave leaves the hand opened, or without a target: the node never
\* goes on repeating a position of the wave, although its last command may have
\* arrived while the node ignored commands (_wave_tick, cmd subscription).
FinishedWaveOpensHand ==
    mapper = "running" /\ ~wave /\ command = "none" => target = 0 \/ open

\* The mapper does not wait for ever for a reset, however resets of its own and
\* of others collide, as long as both programs live. The node answers every request
\* it takes; one that ended, or never ran, answers nothing, and the mapper, which has
\* no timeout, then waits for ever (_reset, _reset_done, rphand_joy_mapper.py:124-130).
RequestEnds == pending ~> ~pending \/ exiting \/ mapper = "ended"
=============================================================================
