--------------------------- MODULE MotionCommands ---------------------------
(***************************************************************************)
(* The command side of an open session (src/src/rphand/session.cpp): the   *)
(* cache of per-axis mode and control code, the motion parameters with     *)
(* their dirty flags, and the frames each operation sends to the device.   *)
(*                                                                         *)
(* command_mutex_ is held for a whole operation, so operations do not      *)
(* overlap; between two frames of one only the receiver runs. A frame may  *)
(* fail to be sent (CAN queue full, no echo slot): then the operation      *)
(* returns at once and what it had put into the cache stays there.         *)
(*                                                                         *)
(* The device is modelled from how the code uses it: a control frame       *)
(* carries the mode and code of every axis, and an axis executes a code    *)
(* only when it differs from the last one received (session.cpp:252); a    *)
(* stop or the start of homing makes it forget the motion parameters,      *)
(* which is why the code sends them again.                                 *)
(***************************************************************************)
EXTENDS Integers

CONSTANTS
    Axes,        \* the axes of the hand
    Params,      \* values of a motion parameter
    Forgotten,   \* what the device holds before a parameter was received
    Ops,         \* operations the caller uses, a subset of Operations
    Outcomes     \* {"ok"}: reliable link; {"ok", "lost"}: a send may fail

Operations == {"enable", "disable", "clear", "mode", "stop", "home", "move", "speed", "limit"}

ASSUME ParamsAssumption == Forgotten \notin Params
ASSUME OpsAssumption == Ops \subseteq Operations
ASSUME OutcomesAssumption == Outcomes \subseteq {"ok", "lost"}

Modes == {0, 5}                     \* Position, homing
Codes == {0, 1, 2, 3, 4, 7, 8}      \* none, enable, disable, clear, home, stop, revoke

VARIABLES
    mode, control,                  \* state_.axes[i].mode, .control
    velocity, current,              \* state_.axes[i].velocity, .current (set for all axes)
    velocityDirty, currentDirty,    \* velocity_dirty_, current_dirty_
    restorePending,                 \* restore_pending_
    seenStop,                       \* some cached running_status() is 6
    op, target, step, ok,           \* operation in progress, its axes, next step, return code
    devMode, devControl,            \* device: last control frame received, per axis
    devVelocity, devCurrent,        \* device: parameters in force
    devStopped,                     \* device: axes in emergency stop
    executed,                       \* history: codes each axis executed during op
    homing,                         \* history: how the last home_motors ended; "muddled":
                                    \* half-way, and the last control frame was lost too
    unnoticed,                      \* history: the move in progress decided on feedback that
                                    \* did not show an emergency stop of the device
    strayed,                        \* history: a code left in the cache by a lost frame stopped
                                    \* or homed an axis later, in some other operation
    link                            \* history: "sound" until a frame is refused

cacheVars  == <<mode, control>>
paramVars  == <<velocity, current>>
flagVars   == <<velocityDirty, currentDirty, restorePending>>
deviceVars == <<devMode, devControl, devVelocity, devCurrent, devStopped, executed, strayed>>
vars == <<cacheVars, paramVars, flagVars, seenStop, op, target, step, ok, deviceVars, homing, unnoticed,
          link>>

(***************************************************************************)
(* The frames of each operation, as its first step and the step that       *)
(* follows each one. A step of move or of speed and limit                  *)
(* (apply_motion_params) is skipped when its condition does not hold.      *)
(***************************************************************************)

\* Faulty variant: set_enable without the leading neutral control code.
FirstWithoutZero ==
    [enable |-> "enable", disable |-> "disable", clear |-> "zero", mode |-> "position mode",
     stop |-> "stop", home |-> "home mode", move |-> "leave mode", speed |-> "restore",
     limit |-> "restore"]

First ==
    [enable |-> "zero", disable |-> "zero", clear |-> "zero", mode |-> "position mode",
     stop |-> "stop", home |-> "home mode", move |-> "leave mode", speed |-> "restore",
     limit |-> "restore"]

Following(s) ==
    CASE s = "zero"       -> op
      [] s = "stop"       -> "revoke after stop"
      [] s = "home mode"  -> "home start"
      [] s = "leave mode" -> "revoke"
      [] s = "revoke"     -> "homed"
      [] s = "homed"      -> "restore"
      [] s = "restore"    -> "velocity"
      [] s = "velocity"   -> "current"
      [] s = "current" /\ op = "move" -> "position"
      [] OTHER            -> "done"

\* Mode and code a control frame puts into the cache of the axes it addresses.
Control ==
    [s \in {"zero", "enable", "disable", "clear", "stop", "revoke after stop", "home mode",
            "home start", "leave mode", "revoke", "restore"} |->
        CASE s \in {"zero", "leave mode", "restore"}    -> <<0, 0>>
          [] s = "enable"                               -> <<0, 1>>
          [] s = "disable"                              -> <<0, 2>>
          [] s = "clear"                                -> <<0, 3>>
          [] s = "stop"                                 -> <<0, 7>>
          [] s \in {"revoke", "revoke after stop"}      -> <<0, 8>>
          [] s = "home mode"                            -> <<5, 0>>
          [] s = "home start"                           -> <<5, 4>>]

ControlSteps == DOMAIN Control \cup {"position mode"}
WholeHand == {"leave mode", "revoke", "restore"}       \* control(0, ...)
Steps == ControlSteps \cup {"homed", "velocity", "current", "position"}

TypeOK ==
    /\ mode \in [Axes -> Modes] /\ control \in [Axes -> Codes]
    /\ velocity \in Params /\ current \in Params
    /\ velocityDirty \in BOOLEAN /\ currentDirty \in BOOLEAN /\ restorePending \in BOOLEAN
    /\ seenStop \in BOOLEAN
    /\ op \in Operations \cup {"none"}
    /\ target \subseteq Axes
    /\ step \in Steps \cup {"done"}
    /\ ok \in BOOLEAN
    /\ devMode \in [Axes -> Modes] /\ devControl \in [Axes -> Codes]
    /\ devVelocity \in Params \cup {Forgotten} /\ devCurrent \in Params \cup {Forgotten}
    /\ devStopped \subseteq Axes
    /\ executed \in [Axes -> SUBSET Codes]
    /\ homing \in {"never", "started", "failed", "muddled"}
    /\ unnoticed \in BOOLEAN
    /\ strayed \in BOOLEAN
    /\ link \in {"sound", "lossy"}

\* Session::initial: neutral cache, every parameter dirty. The device is as an earlier
\* session left it: any last control frame, axes stopped or not. Which parameters it
\* still holds does not matter, since all of them are dirty.
Init ==
    /\ mode = [a \in Axes |-> 0]
    /\ control = [a \in Axes |-> 0]
    /\ velocity \in Params
    /\ current \in Params
    /\ velocityDirty = TRUE
    /\ currentDirty = TRUE
    /\ restorePending = FALSE
    /\ seenStop = FALSE
    /\ op = "none"
    /\ target = {}
    /\ step = "done"
    /\ ok = TRUE
    /\ \E m \in Modes, c \in Codes :
          /\ devMode = [a \in Axes |-> m]
          /\ devControl = [a \in Axes |-> c]
          /\ devStopped \in IF c = 7 THEN {Axes} ELSE IF c = 8 THEN {{}} ELSE {{}, Axes}
    /\ devVelocity = Forgotten
    /\ devCurrent = Forgotten
    /\ executed = [a \in Axes |-> {}]
    /\ homing = "never"
    /\ unnoticed = FALSE
    /\ strayed = FALSE
    /\ link = "sound"

-----------------------------------------------------------------------------
(* Starting an operation                                                    *)

Begin(o, axes) ==
    /\ step = "done"
    /\ o \in Ops
    /\ op' = o
    /\ target' = axes
    /\ step' = First[o]
    /\ ok' = TRUE
    /\ executed' = [a \in Axes |-> {}]
    /\ unnoticed' = FALSE
    /\ UNCHANGED link

\* enable, disable, stop, home and set_control_mode address the whole hand,
\* clear_faults the hand or one axis; which axes a position moves is not modelled.
BeginCommand(o, axes) ==
    /\ o \notin {"speed", "limit"}
    /\ o # "clear" => axes = Axes
    /\ Begin(o, axes)
    /\ UNCHANGED <<cacheVars, paramVars, flagVars, seenStop, devMode, devControl,
                   devVelocity, devCurrent, devStopped, strayed, homing>>

\* set_position_velocity / set_max_current, then apply_motion_params.
SetSpeed(v) ==
    /\ Begin("speed", Axes)
    /\ velocity' = v
    /\ velocityDirty' = (velocityDirty \/ velocity # v)
    /\ UNCHANGED <<cacheVars, current, currentDirty, restorePending, seenStop, devMode,
                   devControl, devVelocity, devCurrent, devStopped, strayed, homing>>

SetLimit(v) ==
    /\ Begin("limit", Axes)
    /\ current' = v
    /\ currentDirty' = (currentDirty \/ current # v)
    /\ UNCHANGED <<cacheVars, velocity, velocityDirty, restorePending, seenStop, devMode,
                   devControl, devVelocity, devCurrent, devStopped, strayed, homing>>

-----------------------------------------------------------------------------
(* The steps of an operation                                                *)

\* Faulty variant: the session trusts what it has sent itself.
RevokingByCache == \E a \in Axes : control[a] = 7

Revoking == seenStop

Needed(s) ==
    CASE s = "leave mode" -> \E a \in Axes : mode[a] # 0
      [] s = "revoke"     -> Revoking
      [] s = "restore"    -> restorePending
      [] s = "velocity"   -> velocityDirty
      [] s = "current"    -> currentDirty
      [] OTHER            -> TRUE

\* The decision to revoke is taken once, from the feedback of that moment.
Decide == unnoticed' = IF step = "revoke" THEN devStopped # {} /\ ~seenStop ELSE unnoticed

Skip ==
    /\ ~Needed(step)
    /\ step' = Following(step)
    /\ Decide
    /\ UNCHANGED <<cacheVars, paramVars, flagVars, seenStop, op, target, ok, deviceVars, homing,
                   link>>

\* A failed send ends the operation with its error code.
Continue(outcome) ==
    /\ ok' = (outcome = "ok")
    /\ step' = IF outcome = "ok" THEN Following(step) ELSE "done"
    /\ link' = IF outcome = "ok" THEN link ELSE "lossy"

\* The device receives the cache of all axes; each axis executes a changed code.
Changed(newControl) == {a \in Axes : newControl[a] # devControl[a]}

DeviceReceives(newMode, newControl) ==
    LET changed   == Changed(newControl)
        stopping  == {a \in changed : newControl[a] = 7}
        revoking  == {a \in changed : newControl[a] = 8}
        homingNow == {a \in changed : newControl[a] = 4}
    IN  /\ devMode' = newMode
        /\ devControl' = newControl
        /\ executed' = [a \in Axes |-> executed[a] \cup
                            (IF a \in changed THEN {newControl[a]} \ {0} ELSE {})]
        /\ devStopped' = (devStopped \cup stopping) \ revoking
        /\ devVelocity' = IF stopping \cup homingNow = {} THEN devVelocity ELSE Forgotten
        /\ devCurrent' = IF stopping \cup homingNow = {} THEN devCurrent ELSE Forgotten
        /\ strayed' = \/ strayed
                      \/ stopping # {} /\ op # "stop"
                      \/ homingNow # {} /\ op # "home"

\* emit(Command::Control): send the cache as it is now.
SendControl(outcome, newMode, newControl) ==
    IF outcome = "ok" THEN DeviceReceives(newMode, newControl) ELSE UNCHANGED deviceVars

\* Faulty variant: the axis argument is ignored.
AddressedAlways(s) == Axes

\* The cache after control(id, m, c), and after set_control_mode, which keeps the code.
Addressed(s) == IF s \in WholeHand THEN Axes ELSE target

CachedMode(s) ==
    [a \in Axes |-> IF a \notin Addressed(s) THEN mode[a]
                    ELSE IF s = "position mode" THEN 0 ELSE Control[s][1]]
CachedControl(s) ==
    [a \in Axes |-> IF a \notin Addressed(s) \/ s = "position mode" THEN control[a]
                    ELSE Control[s][2]]

\* Faulty variant: stop_motors does not mark the parameters dirty.
DirtyAfterNoStop(s, outcome) == s = "home start" /\ outcome = "ok"

\* stop_motors marks the parameters dirty whatever the send returns, home_motors
\* only when the start was sent.
DirtyAfter(s, outcome) == s = "stop" \/ (s = "home start" /\ outcome = "ok")

\* Faulty variant: restore_pending_ is cleared before the frame is sent.
RestoreAfterEager(s, outcome) ==
    IF s = "home start" /\ outcome = "ok" THEN TRUE
    ELSE IF s = "restore" THEN FALSE ELSE restorePending

\* Set by a started homing, cleared by the restoring frame once it is sent.
RestoreAfter(s, outcome) ==
    IF s = "home start" /\ outcome = "ok" THEN TRUE
    ELSE IF s = "restore" /\ outcome = "ok" THEN FALSE ELSE restorePending

HomingAfter(s, outcome) ==
    IF s = "home start" /\ outcome = "ok" THEN "started"
    ELSE IF s \in {"home mode", "home start"} /\ outcome # "ok" THEN "failed"
    ELSE IF homing \notin {"failed", "muddled"} THEN homing
    ELSE IF outcome = "ok" THEN "failed" ELSE "muddled"

ControlStep(s, outcome) ==
    /\ s \in ControlSteps
    /\ step = s
    /\ Needed(s)
    /\ SendControl(outcome, CachedMode(s), CachedControl(s))
    \* home_motors resets the cache behind the device's back once homing runs.
    /\ LET started == s = "home start" /\ outcome = "ok" IN
       /\ mode' = [a \in Axes |-> IF started /\ a \in target THEN 0 ELSE CachedMode(s)[a]]
       /\ control' = [a \in Axes |-> IF started /\ a \in target THEN 0 ELSE CachedControl(s)[a]]
    /\ velocityDirty' = (velocityDirty \/ DirtyAfter(s, outcome))
    /\ currentDirty' = (currentDirty \/ DirtyAfter(s, outcome))
    /\ restorePending' = RestoreAfter(s, outcome)
    /\ homing' = HomingAfter(s, outcome)
    /\ Decide
    /\ Continue(outcome)
    /\ UNCHANGED <<paramVars, seenStop, op, target>>

\* Faulty variant: the dirty flag is cleared although the frame was not sent.
VelocityStepForgetful(outcome) ==
    /\ step = "velocity"
    /\ velocityDirty
    /\ velocityDirty' = FALSE
    /\ devVelocity' = IF outcome = "ok" THEN velocity ELSE devVelocity
    /\ Continue(outcome)
    /\ UNCHANGED <<cacheVars, paramVars, currentDirty, restorePending, seenStop, op, target,
                   devMode, devControl, devCurrent, devStopped, executed, strayed,
                   homing, unnoticed>>

VelocityStep(outcome) ==
    /\ step = "velocity"
    /\ velocityDirty
    /\ velocityDirty' = (outcome # "ok")
    /\ devVelocity' = IF outcome = "ok" THEN velocity ELSE devVelocity
    /\ Continue(outcome)
    /\ UNCHANGED <<cacheVars, paramVars, currentDirty, restorePending, seenStop, op, target,
                   devMode, devControl, devCurrent, devStopped, executed, strayed,
                   homing, unnoticed>>

CurrentStep(outcome) ==
    /\ step = "current"
    /\ currentDirty
    /\ currentDirty' = (outcome # "ok")
    /\ devCurrent' = IF outcome = "ok" THEN current ELSE devCurrent
    /\ Continue(outcome)
    /\ UNCHANGED <<cacheVars, paramVars, velocityDirty, restorePending, seenStop, op, target,
                   devMode, devControl, devVelocity, devStopped, executed, strayed,
                   homing, unnoticed>>

\* emit(Command::Move, 2): the target positions, which nothing here depends on.
PositionStep(outcome) ==
    /\ step = "position"
    /\ Continue(outcome)
    /\ UNCHANGED <<cacheVars, paramVars, flagVars, seenStop, op, target, deviceVars, homing,
                   unnoticed>>

\* move_motors returns 11 unless the moved axes have homed or allow_no_home_ is set;
\* neither changes anything modelled here, so both answers are possible.
CheckHomed ==
    /\ step = "homed"
    /\ \E homed \in BOOLEAN :
          /\ ok' = homed
          /\ step' = IF homed THEN Following(step) ELSE "done"
    /\ UNCHANGED <<cacheVars, paramVars, flagVars, seenStop, op, target, deviceVars, homing,
                   unnoticed, link>>

\* The receiver stores a status frame, which may happen at any time.
ReceiveStatus ==
    /\ seenStop' = (devStopped # {})
    /\ seenStop' # seenStop
    /\ UNCHANGED <<cacheVars, paramVars, flagVars, op, target, step, ok, deviceVars, homing,
                   unnoticed, link>>

-----------------------------------------------------------------------------
Next ==
    \/ \E o \in Operations, axes \in {Axes} \cup {{a} : a \in Axes} : BeginCommand(o, axes)
    \/ \E v \in Params : SetSpeed(v) \/ SetLimit(v)
    \/ Skip
    \/ CheckHomed
    \/ \E outcome \in Outcomes :
          \/ \E s \in ControlSteps : ControlStep(s, outcome)
          \/ VelocityStep(outcome) \/ CurrentStep(outcome) \/ PositionStep(outcome)
    \/ ReceiveStatus

Spec == Init /\ [][Next]_vars

-----------------------------------------------------------------------------
(* Correctness                                                              *)

\* A clean flag means that the device holds the cached parameter: after any mixture
\* of changes, stops, homings and failed sends, nothing that is still to be sent is
\* believed to be sent (architecture.md:45). The exception is a device that has
\* stopped or homed because of a code left over from a lost frame.
CleanMeansDelivered ==
    ~strayed => /\ ~velocityDirty => devVelocity = velocity
                /\ ~currentDirty => devCurrent = current

\* A position frame goes out only to a device that holds both cached parameters,
\* whatever was lost, skipped or forgotten on the way (same exception).
PositionUsesDelivered ==
    step = "position" /\ ~strayed => devVelocity = velocity /\ devCurrent = current

\* The first motion after a homing finds every axis back in position mode, also when
\* frames of the restoring operations were lost (architecture.md:45), and also when the
\* homing itself stopped half-way. What the cache no longer tells is a homing that stopped
\* half-way and then another control frame, refused, that put mode 0 into the cache: the
\* device may be left in the homing mode (move_motors, apply_motion_params).
RestoredBeforePosition ==
    step = "position" /\ homing \in {"started", "failed"} => \A a \in Axes : devMode[a] = 0

\* A position goes to an axis in emergency stop only if the feedback move_motors decided
\* on was older than that stop: the revocation it sends reaches and releases every
\* stopped axis, and nothing between the decision and the position stops one again,
\* whatever the cache holds and whichever operation or earlier session stopped it
\* (move_motors).
RevokedBeforePosition ==
    step = "position" /\ devStopped # {} => unnoticed

\* An operation that reports success was executed by every axis it addressed during
\* that call, although axes ignore a repeated code; a successful stop took hold and
\* was revoked, so that it leaves no emergency stop behind.
Promised ==
    [enable |-> {1}, disable |-> {2}, clear |-> {3}, home |-> {4}, stop |-> {8}]

SuccessMeansExecuted ==
    /\ op \in DOMAIN Promised /\ step = "done" /\ ok =>
          \A a \in target : Promised[op] \subseteq executed[a]
    /\ step = "revoke after stop" => devStopped = Axes

\* clear_faults enables, disables or homes no axis: "不会自动失能、使能、回零" - it does
\* not disable, enable or home on its own (src/docs/api.md:124).
ClearStartsNothing ==
    op = "clear" => \A a \in Axes : executed[a] \cap {1, 2, 4} = {}

\* On a link that has refused no frame so far, the axes that clear_faults addresses
\* execute the code that clears and the others execute no code at all, whatever came
\* before it. This is about codes: with them every axis receives the mode that is
\* cached for it, which is 0 after home_motors, so clear_faults may still end a homing
\* of any axis that is under way (session.cpp:236-241, :279).
ClearOnReliableLink ==
    link = "sound" /\ op = "clear" =>
        \A a \in Axes : executed[a] \subseteq IF a \in target THEN {3} ELSE {}
=============================================================================
