------------------------ MODULE MotionCommands_proofs ------------------------
(***************************************************************************)
(* Proofs about MotionCommands, for every set of axes and every set of     *)
(* parameter values: type correctness, that a parameter believed to be     *)
(* delivered is the one the device holds, also when frames are lost, and   *)
(* what the device has done when an operation reports success.             *)
(***************************************************************************)
EXTENDS MotionCommands, TLAPS

(***************************************************************************)
(* Which steps an operation can be at. Only stop and home may make the     *)
(* device forget its parameters, and only a move ends with a position.     *)
(***************************************************************************)
StepShape ==
    /\ op = "none" => step = "done"
    /\ step = "zero" => op \in {"enable", "disable", "clear"}
    /\ step \in {"stop", "revoke after stop"} => op = "stop"
    /\ step \in {"home mode", "home start"} => op = "home"
    /\ op = "stop" => target = Axes /\ step \in {"stop", "revoke after stop", "done"}
    /\ op = "home" => target = Axes /\ step \in {"home mode", "home start", "done"}

\* By the time a later parameter or the position is due, the earlier ones are clean.
ApplyOrder ==
    /\ step \in {"current", "position"} => ~velocityDirty
    /\ step = "position" => ~currentDirty

MotionInv == TypeOK /\ StepShape /\ ApplyOrder /\ CleanMeansDelivered

-----------------------------------------------------------------------------
(* The steps and their codes                                                *)

LEMMA ControlStepsAre ==
    ControlSteps = {"zero", "enable", "disable", "clear", "stop", "revoke after stop",
                    "home mode", "home start", "leave mode", "revoke", "restore",
                    "position mode"}
BY DEF ControlSteps, Control

LEMMA ControlType ==
    \A s \in ControlSteps \ {"position mode"} : Control[s][1] \in Modes /\ Control[s][2] \in Codes
BY ControlStepsAre DEF Control, Modes, Codes

LEMMA ControlCodes ==
    Control["home mode"][2] = 0 /\ Control["revoke after stop"][2] = 8
BY DEF Control

LEMMA CachedType ==
    ASSUME TypeOK, NEW s \in ControlSteps
    PROVE  CachedMode(s) \in [Axes -> Modes] /\ CachedControl(s) \in [Axes -> Codes]
BY ControlType DEF TypeOK, CachedMode, CachedControl, Modes, Codes

\* Following leads to a step of the same operation.
LEMMA FollowingShape ==
    ASSUME TypeOK, StepShape, step # "done"
    PROVE  /\ Following(step) \in Steps \cup {"done"}
           /\ Following(step) # "zero"
           /\ Following(step) \in {"stop", "revoke after stop"} => op = "stop"
           /\ Following(step) \in {"home mode", "home start"} => op = "home"
           /\ op = "stop" => Following(step) \in {"revoke after stop", "done"}
           /\ op = "home" => Following(step) \in {"home start", "done"}
           /\ Following(step) = "current" => step = "velocity"
           /\ Following(step) = "position" => step = "current"
BY ControlStepsAre DEF TypeOK, StepShape, Following, Steps

-----------------------------------------------------------------------------
LEMMA InitMotion == Init => MotionInv
<1> SUFFICES ASSUME Init PROVE MotionInv
  OBVIOUS
<1> USE DEF Init
<1>1. TypeOK
  BY DEF TypeOK, Modes, Codes
<1> QED
  BY <1>1 DEF MotionInv, StepShape, ApplyOrder, CleanMeansDelivered

LEMMA BeginKeeps ==
    ASSUME MotionInv, NEW o \in Operations, NEW axes \in SUBSET Axes, Begin(o, axes),
           o \in {"stop", "home"} => axes = Axes
    PROVE  /\ op' \in Operations /\ target' \subseteq Axes /\ step' \in Steps
           /\ executed' \in [Axes -> SUBSET Codes] /\ ok' \in BOOLEAN
           /\ StepShape'
           /\ step' \notin {"current", "position"}
           /\ link' \in {"sound", "lossy"} /\ unnoticed' \in BOOLEAN
<1>1. op' = o /\ target' = axes /\ step' = First[o] /\ ok' = TRUE
  BY DEF Begin
<1>2. executed' \in [Axes -> SUBSET Codes]
  BY DEF Begin
<1>3. /\ First[o] \in Steps
      /\ First[o] = "zero" => o \in {"enable", "disable", "clear"}
      /\ First[o] \in {"stop", "revoke after stop"} => o = "stop"
      /\ First[o] \in {"home mode", "home start"} => o = "home"
      /\ o = "stop" => First[o] = "stop"
      /\ o = "home" => First[o] = "home mode"
      /\ First[o] \notin {"current", "position"}
  <2>1. /\ First["enable"] = "zero" /\ First["disable"] = "zero" /\ First["clear"] = "zero"
        /\ First["mode"] = "position mode" /\ First["stop"] = "stop"
        /\ First["home"] = "home mode" /\ First["move"] = "leave mode"
        /\ First["speed"] = "restore" /\ First["limit"] = "restore"
    BY DEF First
  <2> QED
    BY <2>1, ControlStepsAre DEF Steps, Operations
<1>4. o # "none"
  BY DEF Operations
<1>5. StepShape'
  BY <1>1, <1>3, <1>4 DEF StepShape
<1>6. link' \in {"sound", "lossy"} /\ unnoticed' \in BOOLEAN
  BY DEF Begin, MotionInv, TypeOK
<1> QED
  BY <1>1, <1>2, <1>3, <1>5, <1>6

LEMMA StepMotion == MotionInv /\ [Next]_vars => MotionInv'
<1> SUFFICES ASSUME MotionInv, [Next]_vars PROVE MotionInv'
  OBVIOUS
<1> USE DEF MotionInv
<1>1. ASSUME NEW o \in Operations, NEW axes \in {Axes} \cup {{a} : a \in Axes},
             BeginCommand(o, axes)
      PROVE  MotionInv'
  <2>1. axes \in SUBSET Axes /\ Begin(o, axes) /\ (o \in {"stop", "home"} => axes = Axes)
    BY <1>1 DEF BeginCommand
  <2>2. /\ op' \in Operations /\ target' \subseteq Axes /\ step' \in Steps
        /\ executed' \in [Axes -> SUBSET Codes] /\ ok' \in BOOLEAN
        /\ StepShape' /\ step' \notin {"current", "position"}
        /\ link' \in {"sound", "lossy"} /\ unnoticed' \in BOOLEAN
    BY <2>1, BeginKeeps
  <2> QED
    BY <1>1, <2>2 DEF BeginCommand, cacheVars, paramVars, flagVars, TypeOK, ApplyOrder,
                      CleanMeansDelivered
<1>2. ASSUME NEW v \in Params, SetSpeed(v) PROVE MotionInv'
  <2>1. "speed" \in Operations /\ Axes \in SUBSET Axes /\ Begin("speed", Axes)
    BY <1>2 DEF SetSpeed, Operations
  <2>2. /\ op' \in Operations /\ target' \subseteq Axes /\ step' \in Steps
        /\ executed' \in [Axes -> SUBSET Codes] /\ ok' \in BOOLEAN
        /\ StepShape' /\ step' \notin {"current", "position"}
        /\ link' \in {"sound", "lossy"} /\ unnoticed' \in BOOLEAN
    BY <2>1, BeginKeeps
  <2> QED
    BY <1>2, <2>2 DEF SetSpeed, cacheVars, TypeOK, ApplyOrder, CleanMeansDelivered
<1>3. ASSUME NEW v \in Params, SetLimit(v) PROVE MotionInv'
  <2>1. "limit" \in Operations /\ Axes \in SUBSET Axes /\ Begin("limit", Axes)
    BY <1>3 DEF SetLimit, Operations
  <2>2. /\ op' \in Operations /\ target' \subseteq Axes /\ step' \in Steps
        /\ executed' \in [Axes -> SUBSET Codes] /\ ok' \in BOOLEAN
        /\ StepShape' /\ step' \notin {"current", "position"}
        /\ link' \in {"sound", "lossy"} /\ unnoticed' \in BOOLEAN
    BY <2>1, BeginKeeps
  <2> QED
    BY <1>3, <2>2 DEF SetLimit, cacheVars, TypeOK, ApplyOrder, CleanMeansDelivered
<1>4. CASE Skip
  <2>1. step # "done"
    BY <1>4 DEF Skip, Needed
  <2>2. step = "velocity" => ~velocityDirty
    BY <1>4 DEF Skip, Needed
  <2>3. step = "current" => ~currentDirty
    BY <1>4 DEF Skip, Needed
  <2>4a. TypeOK'
    <3>1. step' \in Steps \cup {"done"}
      BY <1>4, <2>1, FollowingShape DEF Skip
    <3>2. unnoticed' \in BOOLEAN
      BY <1>4 DEF Skip, Decide, TypeOK
    <3> QED
      BY <1>4, <3>1, <3>2 DEF Skip, cacheVars, paramVars, flagVars, deviceVars, TypeOK
  <2>4b. StepShape'
    BY <1>4, <2>1, FollowingShape DEF Skip, StepShape
  <2>4. TypeOK' /\ StepShape'
    BY <2>4a, <2>4b
  <2>5. ApplyOrder'
    BY <1>4, <2>1, <2>2, <2>3, FollowingShape DEF Skip, flagVars, ApplyOrder
  <2>6. CleanMeansDelivered'
    BY <1>4 DEF Skip, paramVars, flagVars, deviceVars, CleanMeansDelivered
  <2> QED BY <2>4, <2>5, <2>6
<1>5. CASE CheckHomed
  <2>1. step = "homed"
    BY <1>5 DEF CheckHomed
  <2>4a. TypeOK'
    <3>1. step' \in Steps \cup {"done"} /\ ok' \in BOOLEAN
      BY <1>5, <2>1, FollowingShape DEF CheckHomed
    <3> QED
      BY <1>5, <3>1 DEF CheckHomed, cacheVars, paramVars, flagVars, deviceVars, TypeOK
  <2>4b. StepShape'
    BY <1>5, <2>1, FollowingShape DEF CheckHomed, StepShape
  <2>4. TypeOK' /\ StepShape'
    BY <2>4a, <2>4b
  <2>5. ApplyOrder'
    BY <1>5, <2>1, FollowingShape DEF CheckHomed, flagVars, ApplyOrder
  <2>6. CleanMeansDelivered'
    BY <1>5 DEF CheckHomed, paramVars, flagVars, deviceVars, CleanMeansDelivered
  <2> QED BY <2>4, <2>5, <2>6
<1>6. ASSUME NEW outcome \in Outcomes, NEW s \in ControlSteps, ControlStep(s, outcome)
      PROVE  MotionInv'
  <2>1. /\ step = s /\ step # "done"
        /\ step' \in {Following(step), "done"}
        /\ step' # "done" => outcome = "ok"
    BY <1>6, ControlStepsAre DEF ControlStep, Continue
  <2>2. outcome \in {"ok", "lost"}
    BY OutcomesAssumption
  <2>3. CachedMode(s) \in [Axes -> Modes] /\ CachedControl(s) \in [Axes -> Codes]
    BY CachedType
  <2>4. /\ mode' \in [Axes -> Modes] /\ control' \in [Axes -> Codes]
        /\ velocityDirty' \in BOOLEAN /\ currentDirty' \in BOOLEAN
        /\ restorePending' \in BOOLEAN
        /\ homing' \in {"never", "started", "failed", "muddled"} /\ unnoticed' \in BOOLEAN
        /\ ok' \in BOOLEAN /\ op' = op /\ target' = target /\ seenStop' = seenStop
        /\ velocity' = velocity /\ current' = current
        /\ link' \in {"sound", "lossy"}
    <3>1. mode' \in [Axes -> Modes] /\ control' \in [Axes -> Codes]
      BY <1>6, <2>3 DEF ControlStep, Modes, Codes
    <3>2. velocityDirty' \in BOOLEAN /\ currentDirty' \in BOOLEAN
      BY <1>6 DEF ControlStep, DirtyAfter, TypeOK
    <3>3. restorePending' \in BOOLEAN
      BY <1>6 DEF ControlStep, RestoreAfter, TypeOK
    <3>4. /\ homing' \in {"never", "started", "failed", "muddled"}
          /\ unnoticed' \in BOOLEAN
      BY <1>6 DEF ControlStep, HomingAfter, Decide, TypeOK
    <3>5. ok' \in BOOLEAN
      BY <1>6 DEF ControlStep, Continue
    <3>6. /\ op' = op /\ target' = target /\ seenStop' = seenStop
          /\ velocity' = velocity /\ current' = current
      BY <1>6 DEF ControlStep, paramVars
    <3>7. link' \in {"sound", "lossy"}
      BY <1>6 DEF ControlStep, Continue, TypeOK
    <3> QED BY <3>1, <3>2, <3>3, <3>4, <3>5, <3>6, <3>7
  <2>5. CASE outcome = "lost"
    <3>1. UNCHANGED deviceVars
      BY <1>6, <2>5 DEF ControlStep, SendControl
    <3>2. step' = "done"
      BY <2>1, <2>5
    <3>3. TypeOK'
      BY <2>4, <3>1, <3>2 DEF TypeOK, deviceVars
    <3>4. StepShape' /\ ApplyOrder'
      BY <2>4, <3>2 DEF StepShape, ApplyOrder
    <3>5. (velocityDirty => velocityDirty') /\ (currentDirty => currentDirty')
      BY <1>6 DEF ControlStep
    <3>6. CleanMeansDelivered'
      BY <2>4, <3>1, <3>5 DEF CleanMeansDelivered, deviceVars
    <3> QED BY <3>3, <3>4, <3>6
  <2>6. CASE outcome = "ok"
    <3>1. DeviceReceives(CachedMode(s), CachedControl(s))
      BY <1>6, <2>6 DEF ControlStep, SendControl
    <3>2. DirtyAfter(s, outcome) <=> s \in {"stop", "home start"}
      BY <2>6 DEF DirtyAfter
    <3>3. /\ velocityDirty' <=> (velocityDirty \/ s \in {"stop", "home start"})
          /\ currentDirty' <=> (currentDirty \/ s \in {"stop", "home start"})
      BY <1>6, <3>2 DEF ControlStep
    <3>4. TypeOK'
      <4>1. devMode' \in [Axes -> Modes] /\ devControl' \in [Axes -> Codes]
        BY <2>3, <3>1 DEF DeviceReceives
      <4>2. devVelocity' \in Params \cup {Forgotten} /\ devCurrent' \in Params \cup {Forgotten}
        BY <3>1 DEF DeviceReceives, TypeOK
      <4>3. devStopped' \subseteq Axes
        BY <3>1 DEF DeviceReceives, Changed, TypeOK
      <4>4. executed' \in [Axes -> SUBSET Codes]
        BY <2>3, <3>1 DEF DeviceReceives, TypeOK
      <4>5. strayed' \in BOOLEAN
        BY <3>1 DEF DeviceReceives, TypeOK
      <4>6. step' \in Steps \cup {"done"}
        BY <2>1, FollowingShape
      <4> QED
        BY <2>4, <4>1, <4>2, <4>3, <4>4, <4>5, <4>6 DEF TypeOK
    <3>5. StepShape'
      BY <2>1, <2>4, FollowingShape DEF StepShape
    <3>6. ApplyOrder'
      BY <2>1, FollowingShape, ControlStepsAre DEF ApplyOrder
    <3>7. CleanMeansDelivered'
      <4>1. CASE s \in {"stop", "home start"}
        BY <3>3, <4>1 DEF CleanMeansDelivered
      <4>2. CASE s \notin {"stop", "home start"} /\ strayed'
        BY <4>2 DEF CleanMeansDelivered
      <4>3. CASE s \notin {"stop", "home start"} /\ ~strayed'
        <5> DEFINE quiet(c) == \A a \in Changed(CachedControl(s)) : CachedControl(s)[a] # c
        <5>1. op = "stop" => \A a \in Axes : CachedControl(s)[a] = 8
          BY <2>1, <4>3, ControlCodes DEF StepShape, CachedControl, Addressed
        <5>2. op = "home" => \A a \in Axes : CachedControl(s)[a] = 0
          BY <2>1, <4>3, ControlCodes DEF StepShape, CachedControl, Addressed
        <5>3. quiet(7) \/ op = "stop"
          BY <3>1, <4>3 DEF DeviceReceives
        <5>4. quiet(4) \/ op = "home"
          BY <3>1, <4>3 DEF DeviceReceives
        <5>5. quiet(7) /\ quiet(4)
          BY <5>1, <5>2, <5>3, <5>4 DEF Changed
        <5>6. devVelocity' = devVelocity /\ devCurrent' = devCurrent /\ ~strayed
          BY <3>1, <4>3, <5>5 DEF DeviceReceives
        <5> QED
          BY <2>4, <3>3, <5>6 DEF CleanMeansDelivered
      <4> QED BY <4>1, <4>2, <4>3
    <3> QED BY <3>4, <3>5, <3>6, <3>7
  <2> QED BY <2>2, <2>5, <2>6
<1>7. ASSUME NEW outcome \in Outcomes, VelocityStep(outcome) PROVE MotionInv'
  <2>1. step = "velocity" /\ step' \in {Following(step), "done"}
    BY <1>7 DEF VelocityStep, Continue
  <2>2. step' # "done" => outcome = "ok"
    BY <1>7 DEF VelocityStep, Continue
  <2>4a. TypeOK'
    <3>1. step' \in Steps \cup {"done"} /\ ok' \in BOOLEAN
      BY <1>7, <2>1, FollowingShape DEF VelocityStep, Continue
    <3>2. link' \in {"sound", "lossy"}
      BY <1>7 DEF VelocityStep, Continue, TypeOK
    <3> QED
      BY <1>7, <3>1, <3>2 DEF VelocityStep, cacheVars, paramVars, TypeOK
  <2>4b. StepShape'
    BY <1>7, <2>1, FollowingShape DEF VelocityStep, StepShape
  <2>4. TypeOK' /\ StepShape'
    BY <2>4a, <2>4b
  <2>5. ApplyOrder'
    BY <1>7, <2>1, <2>2, FollowingShape DEF VelocityStep, ApplyOrder
  <2>6. CleanMeansDelivered'
    BY <1>7 DEF VelocityStep, paramVars, CleanMeansDelivered
  <2> QED BY <2>4, <2>5, <2>6
<1>8. ASSUME NEW outcome \in Outcomes, CurrentStep(outcome) PROVE MotionInv'
  <2>1. step = "current" /\ step' \in {Following(step), "done"}
    BY <1>8 DEF CurrentStep, Continue
  <2>2. step' # "done" => outcome = "ok"
    BY <1>8 DEF CurrentStep, Continue
  <2>4a. TypeOK'
    <3>1. step' \in Steps \cup {"done"} /\ ok' \in BOOLEAN
      BY <1>8, <2>1, FollowingShape DEF CurrentStep, Continue
    <3>2. link' \in {"sound", "lossy"}
      BY <1>8 DEF CurrentStep, Continue, TypeOK
    <3> QED
      BY <1>8, <3>1, <3>2 DEF CurrentStep, cacheVars, paramVars, TypeOK
  <2>4b. StepShape'
    BY <1>8, <2>1, FollowingShape DEF CurrentStep, StepShape
  <2>4. TypeOK' /\ StepShape'
    BY <2>4a, <2>4b
  <2>5. ApplyOrder'
    BY <1>8, <2>1, <2>2, FollowingShape DEF CurrentStep, ApplyOrder
  <2>6. CleanMeansDelivered'
    BY <1>8 DEF CurrentStep, paramVars, CleanMeansDelivered
  <2> QED BY <2>4, <2>5, <2>6
<1>9. ASSUME NEW outcome \in Outcomes, PositionStep(outcome) PROVE MotionInv'
  <2>1. step = "position" /\ Following(step) = "done"
    BY <1>9 DEF PositionStep, Following
  <2>4a. TypeOK'
    <3>1. step' \in Steps \cup {"done"} /\ ok' \in BOOLEAN
      BY <1>9, <2>1, FollowingShape DEF PositionStep, Continue
    <3>2. link' \in {"sound", "lossy"}
      BY <1>9 DEF PositionStep, Continue, TypeOK
    <3> QED
      BY <1>9, <3>1, <3>2 DEF PositionStep, cacheVars, paramVars, flagVars, deviceVars, TypeOK
  <2>4b. StepShape'
    BY <1>9, <2>1 DEF PositionStep, Continue, cacheVars, paramVars, flagVars, deviceVars, TypeOK,
                      StepShape
  <2>4. TypeOK' /\ StepShape'
    BY <2>4a, <2>4b
  <2>5. ApplyOrder' /\ CleanMeansDelivered'
    BY <1>9, <2>1 DEF PositionStep, Continue, paramVars, flagVars, deviceVars, ApplyOrder,
                      CleanMeansDelivered
  <2> QED BY <2>4, <2>5
<1>10. CASE ReceiveStatus
  <2>1a. TypeOK'
    <3>1. seenStop' \in BOOLEAN
      BY <1>10 DEF ReceiveStatus
    <3> QED
      BY <1>10, <3>1 DEF ReceiveStatus, cacheVars, paramVars, flagVars, deviceVars, TypeOK
  <2>1b. StepShape'
    BY <1>10 DEF ReceiveStatus, StepShape
  <2>1. TypeOK' /\ StepShape'
    BY <2>1a, <2>1b
  <2>2. ApplyOrder' /\ CleanMeansDelivered'
    BY <1>10 DEF ReceiveStatus, paramVars, flagVars, deviceVars, ApplyOrder, CleanMeansDelivered
  <2> QED BY <2>1, <2>2
<1>11. CASE UNCHANGED vars
  <2>1a. TypeOK'
    BY <1>11 DEF vars, cacheVars, paramVars, flagVars, deviceVars, TypeOK
  <2>1b. StepShape'
    BY <1>11 DEF vars, StepShape
  <2>1. TypeOK' /\ StepShape'
    BY <2>1a, <2>1b
  <2>2. ApplyOrder' /\ CleanMeansDelivered'
    BY <1>11 DEF vars, paramVars, flagVars, deviceVars, ApplyOrder, CleanMeansDelivered
  <2> QED BY <2>1, <2>2
<1> QED
  BY <1>1, <1>2, <1>3, <1>4, <1>5, <1>6, <1>7, <1>8, <1>9, <1>10, <1>11 DEF Next

\* Command cache, steps and device agree, whatever frames were refused
\* (send_control, apply_parameters, move_motors).
THEOREM MotionInvariance == Spec => []MotionInv
BY InitMotion, StepMotion, PTL DEF Spec

(***************************************************************************)
(* Every variable keeps its type: no sequence of operations puts a mode or *)
(* a code into the cache, or into a frame, that the protocol does not have.*)
(***************************************************************************)
THEOREM MotionTypeCorrect == Spec => []TypeOK
<1>1. MotionInv => TypeOK
  BY DEF MotionInv
<1> QED
  BY <1>1, MotionInvariance, PTL

(***************************************************************************)
(* A parameter whose dirty flag is clear is the one the device holds,      *)
(* unless a code left over from a lost frame has stopped or homed an axis. *)
(***************************************************************************)
THEOREM CleanMeansDeliveredCorrect == Spec => []CleanMeansDelivered
<1>1. MotionInv => CleanMeansDelivered
  BY DEF MotionInv
<1> QED
  BY <1>1, MotionInvariance, PTL

(***************************************************************************)
(* move_motors sends a position only to a device that holds the cached     *)
(* speed and current limit (same exception).                               *)
(***************************************************************************)
THEOREM PositionUsesDeliveredCorrect == Spec => []PositionUsesDelivered
<1>1. MotionInv => PositionUsesDelivered
  BY DEF MotionInv, ApplyOrder, CleanMeansDelivered, PositionUsesDelivered
<1> QED
  BY <1>1, MotionInvariance, PTL

-----------------------------------------------------------------------------
(***************************************************************************)
(* What an operation has done when it is over. Beside MotionInv this needs *)
(* to know at which step an operation can be (CommandShape), what homing   *)
(* leaves in cache and device (HomeOrder), which code the device holds     *)
(* when a code has to be new to it (DeviceOrder), and that without a lost  *)
(* frame the cache holds nothing the device was not sent (CachedCodes).    *)
(***************************************************************************)
CommandShape ==
    /\ op \in {"enable", "disable", "clear"} => step \in {"zero", op, "done"}
    /\ step \in {"enable", "disable", "clear"} => op = step

HomeOrder ==
    homing = "started" /\ step # "home start" =>
        /\ \A a \in Axes : mode[a] = 0
        /\ restorePending \/ \A a \in Axes : devMode[a] = 0
        /\ step \in {"velocity", "current", "position"} => ~restorePending

DeviceOrder ==
    /\ \A a \in Axes : devControl[a] = 7 => a \in devStopped
    /\ step \in {"enable", "disable", "clear"} => \A a \in target : devControl[a] = 0
    /\ step = "home start" => \A a \in Axes : devControl[a] = 0
    /\ step = "revoke after stop" => \A a \in Axes : devControl[a] = 7

CachedCodes == link = "sound" => \A a \in Axes : control[a] \in {0, devControl[a]}

OutcomeInv ==
    /\ CommandShape /\ HomeOrder /\ DeviceOrder /\ CachedCodes
    /\ SuccessMeansExecuted /\ ClearOnReliableLink

LEMMA PromisedIs ==
    /\ DOMAIN Promised = {"enable", "disable", "clear", "home", "stop"}
    /\ Promised["enable"] = {1} /\ Promised["disable"] = {2} /\ Promised["clear"] = {3}
    /\ Promised["home"] = {4} /\ Promised["stop"] = {8}
BY DEF Promised

LEMMA ControlIs ==
    /\ \A s \in ControlSteps \ {"position mode", "home mode", "home start"} : Control[s][1] = 0
    /\ Control["zero"][2] = 0 /\ Control["enable"][2] = 1 /\ Control["disable"][2] = 2
    /\ Control["clear"][2] = 3 /\ Control["stop"][2] = 7 /\ Control["revoke after stop"][2] = 8
    /\ Control["home mode"][2] = 0 /\ Control["home start"][2] = 4
BY ControlStepsAre DEF Control

LEMMA CodesDiffer ==
    1 # 0 /\ 2 # 0 /\ 3 # 0 /\ 4 # 0 /\ 7 # 0 /\ 8 # 0 /\ 7 # 8
OBVIOUS

LEMMA CommandCodes ==
    \A s \in {"enable", "disable", "clear", "home start"} : Control[s][2] # 0
BY ControlIs, CodesDiffer, Zenon

\* Steps of move, speed and limit, and of no other operation.
Applying == {"leave mode", "revoke", "homed", "restore", "velocity", "current", "position"}

LEMMA ApplyingIsNoCommand ==
    ASSUME MotionInv, OutcomeInv, step \in Applying
    PROVE  op \notin DOMAIN Promised
BY PromisedIs DEF MotionInv, OutcomeInv, StepShape, CommandShape, Applying

LEMMA ApplyingFollows ==
    ASSUME step \in Applying
    PROVE  /\ Following(step) \in Applying \cup {"done"}
           /\ Following(step) \in {"velocity", "current", "position"} =>
                 step \in {"restore", "velocity", "current"}
BY DEF Following, Applying

\* A step of these operations that sends no control frame.
LEMMA ApplyingKeeps ==
    ASSUME MotionInv, OutcomeInv, step \in Applying,
           step' \in {Following(step), "done"},
           step = "restore" => ~restorePending,
           UNCHANGED <<mode, control, op, target, restorePending, devMode, devControl,
                       devStopped, executed, homing>>,
           link' \in {link, "lossy"}
    PROVE  OutcomeInv'
<1>1. step' \in Applying \cup {"done"} /\ step # "home start"
  BY ApplyingFollows DEF Applying
<1>2. op \notin DOMAIN Promised
  BY ApplyingIsNoCommand
<1>3. CommandShape'
  BY <1>1, <1>2, PromisedIs DEF CommandShape, Applying
<1>4. HomeOrder'
  BY <1>1, ApplyingFollows DEF OutcomeInv, HomeOrder
<1>5. DeviceOrder' /\ CachedCodes'
  BY <1>1 DEF OutcomeInv, DeviceOrder, CachedCodes, Applying
<1>6. SuccessMeansExecuted'
  BY <1>1, <1>2 DEF SuccessMeansExecuted, Applying
<1>7. ClearOnReliableLink'
  BY <1>2, PromisedIs DEF ClearOnReliableLink
<1> QED
  BY <1>3, <1>4, <1>5, <1>6, <1>7 DEF OutcomeInv

\* Starting an operation changes nothing that the device or the cache holds.
LEMMA BeginKeepsOutcome ==
    ASSUME MotionInv, OutcomeInv, NEW o \in Operations, NEW axes \in SUBSET Axes, Begin(o, axes),
           UNCHANGED <<mode, control, restorePending, devMode, devControl, devStopped, homing>>
    PROVE  OutcomeInv'
<1>1. /\ step = "done" /\ step' = First[o] /\ op' = o /\ link' = link
      /\ executed' = [a \in Axes |-> {}]
  BY DEF Begin
<1>2. /\ First["enable"] = "zero" /\ First["disable"] = "zero" /\ First["clear"] = "zero"
      /\ First["mode"] = "position mode" /\ First["stop"] = "stop"
      /\ First["home"] = "home mode" /\ First["move"] = "leave mode"
      /\ First["speed"] = "restore" /\ First["limit"] = "restore"
  BY DEF First
<1>3. step' \in {"zero", "position mode", "stop", "home mode", "leave mode", "restore"}
      /\ (o \in {"enable", "disable", "clear"} => step' = "zero")
  BY <1>1, <1>2 DEF Operations
<1>4. CommandShape'
  BY <1>1, <1>3 DEF CommandShape
<1>5. HomeOrder'
  BY <1>1, <1>3 DEF OutcomeInv, HomeOrder
<1>6. DeviceOrder' /\ CachedCodes'
  BY <1>1, <1>3 DEF OutcomeInv, DeviceOrder, CachedCodes
<1>7. SuccessMeansExecuted'
  BY <1>3 DEF SuccessMeansExecuted
<1>8. ClearOnReliableLink'
  BY <1>1 DEF ClearOnReliableLink
<1> QED
  BY <1>4, <1>5, <1>6, <1>7, <1>8 DEF OutcomeInv

\* After a started homing every frame but those of a new homing carries mode 0.
LEMMA CachedModeRestored ==
    ASSUME OutcomeInv, NEW s \in ControlSteps, step = s,
           homing = "started", s \notin {"home mode", "home start"}
    PROVE  \A a \in Axes : CachedMode(s)[a] = 0
BY ControlIs DEF OutcomeInv, HomeOrder, CachedMode

LEMMA LostControlKeeps ==
    ASSUME MotionInv, OutcomeInv, NEW s \in ControlSteps, ControlStep(s, "lost")
    PROVE  OutcomeInv'
<1>1. /\ step = s /\ step' = "done" /\ ok' = FALSE /\ link' = "lossy"
      /\ op' = op /\ target' = target
      /\ UNCHANGED <<devMode, devControl, devStopped, executed>>
  BY DEF ControlStep, Continue, SendControl, deviceVars
<1>2. restorePending' = restorePending
  BY DEF ControlStep, RestoreAfter
<1>3. mode' = [a \in Axes |-> CachedMode(s)[a]]
  BY DEF ControlStep
<1>4. homing' = "started" => homing = "started" /\ s \notin {"home mode", "home start"}
  BY DEF ControlStep, HomingAfter
<1>5. HomeOrder'
  <2> SUFFICES ASSUME homing' = "started" PROVE HomeOrder'
    BY DEF HomeOrder
  <2>1. \A a \in Axes : mode'[a] = 0
    BY <1>1, <1>3, <1>4, CachedModeRestored
  <2> QED
    BY <1>1, <1>2, <1>4, <2>1 DEF OutcomeInv, HomeOrder
<1>6. CommandShape' /\ DeviceOrder' /\ CachedCodes'
  BY <1>1 DEF OutcomeInv, CommandShape, DeviceOrder, CachedCodes
<1>7. SuccessMeansExecuted' /\ ClearOnReliableLink'
  BY <1>1 DEF SuccessMeansExecuted, ClearOnReliableLink
<1> QED
  BY <1>5, <1>6, <1>7 DEF OutcomeInv

LEMMA SentControlKeeps ==
    ASSUME MotionInv, OutcomeInv, NEW s \in ControlSteps, ControlStep(s, "ok")
    PROVE  OutcomeInv'
<1>1. /\ step = s /\ step' = Following(s) /\ link' = link
      /\ op' = op /\ target' = target
  BY DEF ControlStep, Continue
<1>2. DeviceReceives(CachedMode(s), CachedControl(s))
  BY DEF ControlStep, SendControl
<1>3. devMode' = CachedMode(s) /\ devControl' = CachedControl(s)
  BY <1>2 DEF DeviceReceives
<1>4. \A a \in Axes : executed'[a] = executed[a] \cup
          (IF CachedControl(s)[a] # devControl[a] THEN {CachedControl(s)[a]} \ {0} ELSE {})
  BY <1>2 DEF DeviceReceives, Changed
<1>5. \A a \in Axes : a \in devStopped' <=>
          /\ a \in devStopped \/ (CachedControl(s)[a] # devControl[a] /\ CachedControl(s)[a] = 7)
          /\ ~(CachedControl(s)[a] # devControl[a] /\ CachedControl(s)[a] = 8)
  BY <1>2 DEF DeviceReceives, Changed
<1>6. restorePending' = (IF s = "home start" THEN TRUE
                         ELSE IF s = "restore" THEN FALSE ELSE restorePending)
  BY DEF ControlStep, RestoreAfter
<1>7. /\ s = "home start" => \A a \in target : mode'[a] = 0 /\ control'[a] = 0
      /\ s # "home start" => \A a \in Axes : /\ mode'[a] = CachedMode(s)[a]
                                             /\ control'[a] = CachedControl(s)[a]
  BY DEF ControlStep, MotionInv, TypeOK
<1>8. s # "home start" /\ homing' = "started" => homing = "started"
  BY DEF ControlStep, HomingAfter
<1>9. /\ s = "zero" => Following(s) = op /\ op \in {"enable", "disable", "clear"}
      /\ s = "stop" => Following(s) = "revoke after stop"
      /\ s = "home mode" => Following(s) = "home start"
      /\ s \in {"enable", "disable", "clear", "revoke after stop", "home start",
                "position mode"} => Following(s) = "done"
      /\ s \in {"leave mode", "revoke", "restore"} => Following(s) \in Applying
      /\ Following(s) \in {"velocity", "current", "position"} => s = "restore"
  BY <1>1, ControlStepsAre DEF Following, MotionInv, StepShape, Applying
<1>10. /\ s = "home start" => target = Axes /\ op = "home"
       /\ s = "home mode" => target = Axes /\ op = "home"
       /\ s \in {"stop", "revoke after stop"} => target = Axes /\ op = "stop"
       /\ target \subseteq Axes
  BY <1>1 DEF MotionInv, TypeOK, StepShape
<1>11. \A a \in Axes :
          /\ a \in Addressed(s) /\ s # "position mode" => CachedControl(s)[a] = Control[s][2]
          /\ a \notin Addressed(s) \/ s = "position mode" => CachedControl(s)[a] = control[a]
  BY DEF CachedControl
<1>12. s \notin WholeHand => Addressed(s) = target
  BY DEF Addressed
<1>13. CommandShape'
  BY <1>1, <1>9, <1>10, ControlStepsAre DEF OutcomeInv, CommandShape, MotionInv, StepShape, Applying
<1>14. HomeOrder'
  <2>1. CASE s = "home start"
    BY <1>1, <1>6, <1>7, <1>9, <1>10, <2>1 DEF HomeOrder
  <2>2. CASE s = "home mode"
    BY <1>1, <1>9, <2>2 DEF HomeOrder
  <2>3. CASE s \notin {"home mode", "home start"}
    <3> SUFFICES ASSUME homing' = "started" PROVE HomeOrder'
      BY DEF HomeOrder
    <3>1. \A a \in Axes : CachedMode(s)[a] = 0
      BY <1>1, <1>8, <2>3, CachedModeRestored
    <3>2. \A a \in Axes : mode'[a] = 0 /\ devMode'[a] = 0
      BY <1>3, <1>7, <2>3, <3>1
    <3> QED
      BY <1>1, <1>6, <1>9, <3>2 DEF HomeOrder
  <2> QED
    BY <2>1, <2>2, <2>3
<1>15. DeviceOrder'
  <2>1. \A a \in Axes : devControl'[a] = 7 => a \in devStopped'
    <3> SUFFICES ASSUME NEW a \in Axes, devControl'[a] = 7 PROVE a \in devStopped'
      OBVIOUS
    <3>1. CachedControl(s)[a] = 7
      BY <1>3
    <3>2. devControl[a] = 7 => a \in devStopped
      BY DEF OutcomeInv, DeviceOrder
    <3> QED
      BY <1>5, <3>1, <3>2
  <2>2. step' \in {"enable", "disable", "clear"} => \A a \in target' : devControl'[a] = 0
    <3>1. step' \in {"enable", "disable", "clear"} => s = "zero"
      BY <1>1, <1>9, ControlStepsAre DEF Applying
    <3> QED
      BY <1>1, <1>3, <1>10, <1>11, <1>12, <3>1, ControlIs DEF WholeHand
  <2>3. step' = "home start" => \A a \in Axes : devControl'[a] = 0
    <3>1. step' = "home start" => s = "home mode"
      BY <1>1, <1>9, ControlStepsAre DEF Applying
    <3> QED
      BY <1>3, <1>10, <1>11, <1>12, <3>1, ControlIs DEF WholeHand
  <2>4. step' = "revoke after stop" => \A a \in Axes : devControl'[a] = 7
    <3>1. step' = "revoke after stop" => s = "stop"
      BY <1>1, <1>9, ControlStepsAre DEF Applying
    <3> QED
      BY <1>3, <1>10, <1>11, <1>12, <3>1, ControlIs DEF WholeHand
  <2> QED
    BY <2>1, <2>2, <2>3, <2>4 DEF DeviceOrder
<1>16. CachedCodes'
  BY <1>1, <1>3, <1>7, <1>10 DEF CachedCodes
<1>17. SuccessMeansExecuted'
  <2>1. ASSUME op \in DOMAIN Promised, step' = "done", NEW a \in target
        PROVE  Promised[op] \subseteq executed'[a]
    <3>1. \/ s \in {"enable", "disable", "clear"} /\ op = s
          \/ s = "home start" /\ op = "home"
          \/ s = "revoke after stop" /\ op = "stop"
      BY <1>1, <1>9, <1>10, <2>1, PromisedIs, ControlStepsAre
      DEF OutcomeInv, CommandShape, MotionInv, StepShape, Applying
    <3>2. a \in Axes /\ CachedControl(s)[a] = Control[s][2]
      BY <1>10, <1>11, <1>12, <3>1 DEF WholeHand
    <3>3. devControl[a] # Control[s][2] /\ Control[s][2] # 0
      <4>1. /\ s \in {"enable", "disable", "clear", "home start"} => devControl[a] = 0
            /\ s = "revoke after stop" => devControl[a] = 7
        BY <1>1, <3>2 DEF OutcomeInv, DeviceOrder
      <4>2. CASE s \in {"enable", "disable", "clear", "home start"}
        BY <4>1, <4>2, CommandCodes, Zenon
      <4>3. CASE s = "revoke after stop"
        <5>1. Control[s][2] = 8
          BY <4>3, ControlIs
        <5> QED
          BY <4>1, <4>3, <5>1, CodesDiffer, Zenon
      <4> QED
        BY <3>1, <4>2, <4>3
    <3>4. Control[s][2] \in executed'[a]
      BY <1>4, <3>2, <3>3
    <3>5. Promised[op] = {Control[s][2]}
      BY <3>1, PromisedIs, ControlIs
    <3> QED
      BY <3>4, <3>5
  <2>2. step' = "revoke after stop" => devStopped' = Axes
    <3>1. step' = "revoke after stop" => s = "stop"
      BY <1>1, <1>9, ControlStepsAre DEF Applying
    <3>2. s = "stop" => \A a \in Axes : CachedControl(s)[a] = 7
      BY <1>10, <1>11, <1>12, ControlIs DEF WholeHand
    <3>3. s = "stop" => \A a \in Axes : a \in devStopped'
      BY <1>1, <1>5, <3>2 DEF OutcomeInv, DeviceOrder
    <3>4. devStopped' \subseteq Axes
      BY <1>2 DEF DeviceReceives, Changed, MotionInv, TypeOK
    <3> QED
      BY <3>1, <3>3, <3>4
  <2> QED
    BY <1>1, <2>1, <2>2 DEF SuccessMeansExecuted
<1>18. ClearOnReliableLink'
  <2> SUFFICES ASSUME link = "sound", op = "clear", NEW a \in Axes
               PROVE  executed'[a] \subseteq IF a \in target THEN {3} ELSE {}
    BY <1>1 DEF ClearOnReliableLink
  <2>1. executed[a] \subseteq IF a \in target THEN {3} ELSE {}
    BY DEF OutcomeInv, ClearOnReliableLink
  <2>2. s \in {"zero", "clear"}
    BY <1>1, ControlStepsAre DEF OutcomeInv, CommandShape
  <2>3. a \in target => CachedControl(s)[a] \in {0, 3}
    BY <1>11, <1>12, <2>2, ControlIs DEF WholeHand
  <2>4. a \notin target => CachedControl(s)[a] \in {0, devControl[a]}
    BY <1>11, <1>12, <2>2 DEF WholeHand, OutcomeInv, CachedCodes
  <2> QED
    BY <1>4, <2>1, <2>3, <2>4
<1> QED
  BY <1>13, <1>14, <1>15, <1>16, <1>17, <1>18 DEF OutcomeInv

LEMMA InitOutcome == Init => OutcomeInv
<1> SUFFICES ASSUME Init PROVE OutcomeInv
  OBVIOUS
<1> USE DEF Init
<1>1. \A a \in Axes : devControl[a] = 7 => a \in devStopped
  <2> PICK m \in Modes, c \in Codes :
          /\ devControl = [a \in Axes |-> c]
          /\ devStopped \in IF c = 7 THEN {Axes} ELSE IF c = 8 THEN {{}} ELSE {{}, Axes}
    OBVIOUS
  <2> QED
    OBVIOUS
<1>2. CommandShape /\ HomeOrder /\ DeviceOrder /\ CachedCodes
  BY <1>1 DEF CommandShape, HomeOrder, DeviceOrder, CachedCodes
<1>3. SuccessMeansExecuted /\ ClearOnReliableLink
  BY PromisedIs DEF SuccessMeansExecuted, ClearOnReliableLink
<1> QED
  BY <1>2, <1>3 DEF OutcomeInv

LEMMA StepOutcome == MotionInv /\ OutcomeInv /\ [Next]_vars => OutcomeInv'
<1> SUFFICES ASSUME MotionInv, OutcomeInv, [Next]_vars PROVE OutcomeInv'
  OBVIOUS
<1>1. ASSUME NEW o \in Operations, NEW axes \in {Axes} \cup {{a} : a \in Axes},
             BeginCommand(o, axes)
      PROVE  OutcomeInv'
  <2>1. axes \in SUBSET Axes /\ Begin(o, axes)
    BY <1>1 DEF BeginCommand
  <2>2. UNCHANGED <<mode, control, restorePending, devMode, devControl, devStopped, homing>>
    BY <1>1 DEF BeginCommand, cacheVars, flagVars
  <2> QED
    BY <2>1, <2>2, BeginKeepsOutcome
<1>2. ASSUME NEW v \in Params, SetSpeed(v) PROVE OutcomeInv'
  <2>1. "speed" \in Operations /\ Axes \in SUBSET Axes /\ Begin("speed", Axes)
    BY <1>2 DEF SetSpeed, Operations
  <2>2. UNCHANGED <<mode, control, restorePending, devMode, devControl, devStopped, homing>>
    BY <1>2 DEF SetSpeed, cacheVars
  <2> QED
    BY <2>1, <2>2, BeginKeepsOutcome
<1>3. ASSUME NEW v \in Params, SetLimit(v) PROVE OutcomeInv'
  <2>1. "limit" \in Operations /\ Axes \in SUBSET Axes /\ Begin("limit", Axes)
    BY <1>3 DEF SetLimit, Operations
  <2>2. UNCHANGED <<mode, control, restorePending, devMode, devControl, devStopped, homing>>
    BY <1>3 DEF SetLimit, cacheVars
  <2> QED
    BY <2>1, <2>2, BeginKeepsOutcome
<1>4. CASE Skip
  <2>1. step \in Applying /\ (step = "restore" => ~restorePending)
    BY <1>4 DEF Skip, Needed, Applying
  <2>2. /\ step' = Following(step) /\ link' = link
        /\ UNCHANGED <<mode, control, op, target, restorePending, devMode, devControl,
                       devStopped, executed, homing>>
    BY <1>4 DEF Skip, cacheVars, flagVars, deviceVars
  <2> QED
    BY <2>1, <2>2, ApplyingKeeps
<1>5. CASE CheckHomed
  <2>1. step = "homed" /\ step \in Applying
    BY <1>5 DEF CheckHomed, Applying
  <2>2. /\ step' \in {Following(step), "done"} /\ link' = link
        /\ UNCHANGED <<mode, control, op, target, restorePending, devMode, devControl,
                       devStopped, executed, homing>>
    BY <1>5 DEF CheckHomed, cacheVars, flagVars, deviceVars
  <2> QED
    BY <2>1, <2>2, ApplyingKeeps
<1>6. ASSUME NEW outcome \in Outcomes, NEW s \in ControlSteps, ControlStep(s, outcome)
      PROVE  OutcomeInv'
  BY <1>6, OutcomesAssumption, LostControlKeeps, SentControlKeeps
<1>7. ASSUME NEW outcome \in Outcomes,
             VelocityStep(outcome) \/ CurrentStep(outcome) \/ PositionStep(outcome)
      PROVE  OutcomeInv'
  <2>1. step \in {"velocity", "current", "position"} /\ step \in Applying
    BY <1>7 DEF VelocityStep, CurrentStep, PositionStep, Applying
  <2>2. step' \in {Following(step), "done"} /\ link' \in {link, "lossy"}
    BY <1>7 DEF VelocityStep, CurrentStep, PositionStep, Continue
  <2>3. UNCHANGED <<mode, control, op, target, restorePending, devMode, devControl,
                    devStopped, executed, homing>>
    BY <1>7 DEF VelocityStep, CurrentStep, PositionStep, cacheVars, flagVars, deviceVars
  <2> QED
    BY <2>1, <2>2, <2>3, ApplyingKeeps
<1>8. CASE ReceiveStatus \/ UNCHANGED vars
  <2>1. UNCHANGED <<mode, control, op, target, step, ok, restorePending, devMode, devControl,
                    devStopped, executed, homing, link>>
    BY <1>8 DEF ReceiveStatus, vars, cacheVars, flagVars, deviceVars
  <2>2. CommandShape' /\ HomeOrder' /\ DeviceOrder' /\ CachedCodes'
    BY <2>1 DEF OutcomeInv, CommandShape, HomeOrder, DeviceOrder, CachedCodes
  <2>3. SuccessMeansExecuted' /\ ClearOnReliableLink'
    BY <2>1 DEF OutcomeInv, SuccessMeansExecuted, ClearOnReliableLink
  <2> QED
    BY <2>2, <2>3 DEF OutcomeInv
<1> QED
  BY <1>1, <1>2, <1>3, <1>4, <1>5, <1>6, <1>7, <1>8 DEF Next

\* The same with what the operations leave in cache and device, and what they
\* have made the device do (send_control, home_motors, move_motors).
THEOREM OutcomeInvariance == Spec => [](MotionInv /\ OutcomeInv)
BY InitMotion, StepMotion, InitOutcome, StepOutcome, PTL DEF Spec

-----------------------------------------------------------------------------
(***************************************************************************)
(* What a move has made sure of on its way to the position: which steps    *)
(* are its own (MoveShape), that after "leave mode" the cache holds mode 0 *)
(* and a homing that stopped half-way is still readable in it (ModeOrder), *)
(* and that after "revoke" an axis in emergency stop is one the feedback   *)
(* did not show (RevokeOrder).                                             *)
(***************************************************************************)
MoveShape == step \in {"leave mode", "revoke", "homed", "position"} => op = "move"

ModeOrder ==
    /\ homing = "failed" => \A a \in Axes : mode[a] = 0 => devMode[a] = 0
    /\ op = "move" /\ step \in {"revoke", "homed", "restore", "velocity", "current", "position"}
          => \A a \in Axes : mode[a] = 0

RevokeOrder ==
    /\ \A a \in Axes : devControl[a] = 8 => a \notin devStopped
    /\ op = "move" /\ step \in {"homed", "restore", "velocity", "current", "position"}
          => devStopped = {} \/ unnoticed

MoveInv == MoveShape /\ ModeOrder /\ RevokeOrder

\* A move begins with "leave mode" and ends with the position.
LEMMA MoveFollows ==
    ASSUME MotionInv, MoveInv, step # "done"
    PROVE  /\ Following(step) \in {"leave mode", "revoke", "homed", "position"} => op = "move"
           /\ Following(step) # "leave mode"
           /\ Following(step) = "revoke" => step = "leave mode"
           /\ Following(step) = "homed" => step = "revoke"
           /\ op = "move" /\ Following(step) \in {"restore", "velocity", "current", "position"}
                 => step \in {"homed", "restore", "velocity", "current"}
BY ControlStepsAre DEF MotionInv, TypeOK, StepShape, MoveInv, MoveShape, Following, Steps

LEMMA InitMove == Init => MoveInv
<1> SUFFICES ASSUME Init PROVE MoveInv
  OBVIOUS
<1> USE DEF Init
<1>1. \A a \in Axes : devControl[a] = 8 => a \notin devStopped
  <2> PICK m \in Modes, c \in Codes :
          /\ devControl = [a \in Axes |-> c]
          /\ devStopped \in IF c = 7 THEN {Axes} ELSE IF c = 8 THEN {{}} ELSE {{}, Axes}
    OBVIOUS
  <2> QED
    BY CodesDiffer
<1> QED
  BY <1>1 DEF MoveInv, MoveShape, ModeOrder, RevokeOrder

LEMMA BeginKeepsMove ==
    ASSUME MoveInv, NEW o \in Operations, NEW axes, Begin(o, axes),
           UNCHANGED <<mode, devMode, devControl, devStopped, homing>>
    PROVE  MoveInv'
<1>1. /\ First["enable"] = "zero" /\ First["disable"] = "zero" /\ First["clear"] = "zero"
      /\ First["mode"] = "position mode" /\ First["stop"] = "stop"
      /\ First["home"] = "home mode" /\ First["move"] = "leave mode"
      /\ First["speed"] = "restore" /\ First["limit"] = "restore"
  BY DEF First
<1>2. op' = o /\ step' = First[o]
  BY DEF Begin
<1>3. /\ o = "move" => step' = "leave mode"
      /\ o # "move" => step' \notin {"leave mode", "revoke", "homed", "position"}
  BY <1>1, <1>2 DEF Operations
<1> QED
  BY <1>2, <1>3 DEF MoveInv, MoveShape, ModeOrder, RevokeOrder

\* A step that sends no control frame and is not the decision to revoke.
LEMMA PlainKeepsMove ==
    ASSUME MotionInv, MoveInv, step \notin {"leave mode", "revoke", "done"},
           step' \in {Following(step), "done"},
           UNCHANGED <<mode, op, devMode, devControl, devStopped, homing, unnoticed>>
    PROVE  MoveInv'
BY MoveFollows DEF MoveInv, MoveShape, ModeOrder, RevokeOrder

LEMMA SkipKeepsMove == MotionInv /\ MoveInv /\ Skip => MoveInv'
<1> SUFFICES ASSUME MotionInv, MoveInv, Skip PROVE MoveInv'
  OBVIOUS
<1>1. /\ step' = Following(step) /\ step # "done"
      /\ UNCHANGED <<mode, op, devMode, devControl, devStopped, homing>>
  BY DEF Skip, Needed, cacheVars, deviceVars
<1>2. CASE step = "leave mode"
  <2>1. step' = "revoke" /\ op = "move" /\ \A a \in Axes : mode[a] = 0
    BY <1>1, <1>2 DEF Following, Skip, Needed, MoveInv, MoveShape
  <2> QED
    BY <1>1, <2>1 DEF MoveInv, MoveShape, ModeOrder, RevokeOrder
<1>3. CASE step = "revoke"
  <2>1. step' = "homed" /\ op = "move" /\ ~seenStop
    BY <1>1, <1>3 DEF Following, Skip, Needed, Revoking, MoveInv, MoveShape
  <2>2. devStopped = {} \/ unnoticed'
    BY <1>3, <2>1 DEF Skip, Decide
  <2> QED
    BY <1>1, <1>3, <2>1, <2>2 DEF MoveInv, MoveShape, ModeOrder, RevokeOrder
<1>4. CASE step \notin {"leave mode", "revoke"}
  <2>1. unnoticed' = unnoticed
    BY <1>4 DEF Skip, Decide
  <2> QED
    BY <1>1, <1>4, <2>1, PlainKeepsMove
<1> QED
  BY <1>2, <1>3, <1>4

LEMMA LostKeepsMove ==
    ASSUME MotionInv, MoveInv, NEW s \in ControlSteps, ControlStep(s, "lost")
    PROVE  MoveInv'
<1>1. /\ step = s /\ step' = "done" /\ op' = op
      /\ UNCHANGED <<devMode, devControl, devStopped>>
  BY DEF ControlStep, Continue, SendControl, deviceVars
<1>2. homing' = "failed" => s \in {"home mode", "home start"}
  BY DEF ControlStep, HomingAfter
<1>3. s \in {"home mode", "home start"} => \A a \in Axes : mode'[a] = 5
  <2> SUFFICES ASSUME s \in {"home mode", "home start"}, NEW a \in Axes PROVE mode'[a] = 5
    OBVIOUS
  <2>1. a \in target /\ Control[s][1] = 5
    BY <1>1, ControlStepsAre DEF MotionInv, StepShape, Control
  <2>2. CachedMode(s)[a] = 5
    BY <2>1 DEF CachedMode, Addressed, WholeHand
  <2> QED
    BY <2>2 DEF ControlStep
<1>4. ModeOrder'
  <2>1. 5 # 0
    OBVIOUS
  <2>2. homing' = "failed" => \A a \in Axes : mode'[a] # 0
    BY <1>2, <1>3, <2>1, Zenon
  <2>3. step' \notin {"revoke", "homed", "restore", "velocity", "current", "position"}
    BY <1>1
  <2> QED
    BY <2>2, <2>3, Zenon DEF ModeOrder
<1>5. RevokeOrder'
  BY <1>1 DEF MoveInv, RevokeOrder
<1>6. MoveShape'
  BY <1>1 DEF MoveShape
<1> QED
  BY <1>4, <1>5, <1>6 DEF MoveInv

LEMMA SentKeepsMove ==
    ASSUME MotionInv, MoveInv, NEW s \in ControlSteps, ControlStep(s, "ok")
    PROVE  MoveInv'
<1>1. /\ step = s /\ s # "done" /\ step' = Following(s) /\ op' = op
      /\ DeviceReceives(CachedMode(s), CachedControl(s))
  BY ControlStepsAre DEF ControlStep, Continue, SendControl
<1>2. devMode' = CachedMode(s) /\ devControl' = CachedControl(s)
  BY <1>1 DEF DeviceReceives
<1>3. \A a \in Axes : a \in devStopped' <=>
          /\ a \in devStopped \/ (CachedControl(s)[a] # devControl[a] /\ CachedControl(s)[a] = 7)
          /\ ~(CachedControl(s)[a] # devControl[a] /\ CachedControl(s)[a] = 8)
  BY <1>1 DEF DeviceReceives, Changed
<1>4. devStopped' \subseteq Axes
  BY <1>1 DEF DeviceReceives, Changed, MotionInv, TypeOK
<1>5. s # "home start" => \A a \in Axes : mode'[a] = CachedMode(s)[a]
  BY DEF ControlStep
<1>6. s = "home start" => homing' = "started"
  BY DEF ControlStep, HomingAfter
<1>7. MoveShape'
  BY <1>1, MoveFollows DEF MoveShape
<1>8. s \in WholeHand => \A a \in Axes : /\ CachedMode(s)[a] = 0
                                         /\ CachedControl(s)[a] = IF s = "revoke" THEN 8 ELSE 0
  BY DEF WholeHand, CachedMode, CachedControl, Addressed, Control
<1>9. ModeOrder'
  <2>1. homing' = "failed" => \A a \in Axes : mode'[a] = 0 => devMode'[a] = 0
    BY <1>2, <1>5, <1>6
  <2>2. ASSUME op' = "move",
               step' \in {"revoke", "homed", "restore", "velocity", "current", "position"}
        PROVE  \A a \in Axes : mode'[a] = 0
    <3>1. s \in WholeHand
      BY <1>1, <2>2, MoveFollows, ControlStepsAre DEF WholeHand
    <3> QED
      BY <1>5, <1>8, <3>1 DEF WholeHand
  <2> QED
    BY <2>1, <2>2 DEF ModeOrder
<1>10. RevokeOrder'
  <2>1. \A a \in Axes : devControl'[a] = 8 => a \notin devStopped'
    BY <1>2, <1>3, CodesDiffer DEF MoveInv, RevokeOrder
  <2>2. ASSUME op' = "move",
               step' \in {"homed", "restore", "velocity", "current", "position"}
        PROVE  devStopped' = {} \/ unnoticed'
    <3>1. s \in {"revoke", "restore"}
      BY <1>1, <2>2, MoveFollows, ControlStepsAre
    <3>2. CASE s = "revoke"
      <4>1. \A a \in Axes : devControl'[a] = 8
        BY <1>2, <1>8, <3>2 DEF WholeHand
      <4> QED
        BY <1>4, <2>1, <4>1
    <3>3. CASE s = "restore"
      <4>1. devStopped' \subseteq devStopped
        BY <1>3, <1>4, <1>8, <3>3, CodesDiffer DEF WholeHand
      <4>2. devStopped = {} \/ unnoticed
        BY <1>1, <2>2, <3>3 DEF MoveInv, RevokeOrder
      <4>3. unnoticed' = unnoticed
        BY <1>1, <3>3 DEF ControlStep, Decide
      <4> QED
        BY <4>1, <4>2, <4>3
    <3> QED
      BY <3>1, <3>2, <3>3
  <2> QED
    BY <2>1, <2>2 DEF RevokeOrder
<1> QED
  BY <1>7, <1>9, <1>10 DEF MoveInv

LEMMA StepMove == MotionInv /\ MoveInv /\ [Next]_vars => MoveInv'
<1> SUFFICES ASSUME MotionInv, MoveInv, [Next]_vars PROVE MoveInv'
  OBVIOUS
<1>1. ASSUME NEW o \in Operations, NEW axes \in {Axes} \cup {{a} : a \in Axes},
             BeginCommand(o, axes)
      PROVE  MoveInv'
  BY <1>1, BeginKeepsMove DEF BeginCommand, cacheVars
<1>2. ASSUME NEW v \in Params, SetSpeed(v) \/ SetLimit(v) PROVE MoveInv'
  <2>1. "speed" \in Operations /\ "limit" \in Operations
    BY DEF Operations
  <2>2. Begin("speed", Axes) \/ Begin("limit", Axes)
    BY <1>2 DEF SetSpeed, SetLimit
  <2>3. UNCHANGED <<mode, devMode, devControl, devStopped, homing>>
    BY <1>2 DEF SetSpeed, SetLimit, cacheVars
  <2> QED
    BY <2>1, <2>2, <2>3, BeginKeepsMove
<1>3. CASE Skip
  BY <1>3, SkipKeepsMove
<1>4. CASE CheckHomed
  <2>1. /\ step = "homed" /\ step' \in {Following(step), "done"}
        /\ UNCHANGED <<mode, op, devMode, devControl, devStopped, homing, unnoticed>>
    BY <1>4 DEF CheckHomed, cacheVars, deviceVars
  <2> QED
    BY <2>1, PlainKeepsMove
<1>5. ASSUME NEW outcome \in Outcomes, NEW s \in ControlSteps, ControlStep(s, outcome)
      PROVE  MoveInv'
  BY <1>5, OutcomesAssumption, LostKeepsMove, SentKeepsMove
<1>6. ASSUME NEW outcome \in Outcomes,
             VelocityStep(outcome) \/ CurrentStep(outcome) \/ PositionStep(outcome)
      PROVE  MoveInv'
  <2>1. /\ step \in {"velocity", "current", "position"}
        /\ step' \in {Following(step), "done"}
    BY <1>6 DEF VelocityStep, CurrentStep, PositionStep, Continue
  <2>2. UNCHANGED <<mode, op, devMode, devControl, devStopped, homing, unnoticed>>
    BY <1>6 DEF VelocityStep, CurrentStep, PositionStep, cacheVars, deviceVars
  <2> QED
    BY <2>1, <2>2, PlainKeepsMove
<1>7. CASE ReceiveStatus \/ UNCHANGED vars
  <2>1. UNCHANGED <<mode, op, step, devMode, devControl, devStopped, homing, unnoticed>>
    BY <1>7 DEF ReceiveStatus, vars, cacheVars, deviceVars
  <2> QED
    BY <2>1 DEF MoveInv, MoveShape, ModeOrder, RevokeOrder
<1> QED
  BY <1>1, <1>2, <1>3, <1>4, <1>5, <1>6, <1>7 DEF Next

\* The same with what a move has made sure of at each of its steps (move_motors).
THEOREM MoveInvariance == Spec => [](MotionInv /\ MoveInv)
BY InitMotion, StepMotion, InitMove, StepMove, PTL DEF Spec

(***************************************************************************)
(* The first position after a homing finds every axis back in position     *)
(* mode, also when frames of the restoring operations were lost and also   *)
(* when the homing stopped half-way, unless the control frame after it was *)
(* refused too (move_motors, apply_motion_params).                         *)
(***************************************************************************)
THEOREM RestoredBeforePositionCorrect == Spec => []RestoredBeforePosition
<1>1. OutcomeInv /\ MoveInv => RestoredBeforePosition
  <2> SUFFICES ASSUME OutcomeInv, MoveInv, step = "position", homing \in {"started", "failed"}
               PROVE  \A a \in Axes : devMode[a] = 0
    BY DEF RestoredBeforePosition
  <2>1. homing = "started" => \A a \in Axes : devMode[a] = 0
    BY DEF OutcomeInv, HomeOrder
  <2>2. homing = "failed" => \A a \in Axes : devMode[a] = 0
    BY DEF MoveInv, MoveShape, ModeOrder
  <2> QED
    BY <2>1, <2>2
<1> QED
  BY <1>1, OutcomeInvariance, MoveInvariance, PTL

(***************************************************************************)
(* A position goes to an axis in emergency stop only if the feedback that  *)
(* move_motors decided on did not show that stop (move_motors).            *)
(***************************************************************************)
THEOREM RevokedBeforePositionCorrect == Spec => []RevokedBeforePosition
<1>1. MoveInv => RevokedBeforePosition
  BY DEF MoveInv, MoveShape, RevokeOrder, RevokedBeforePosition
<1> QED
  BY <1>1, MoveInvariance, PTL

(***************************************************************************)
(* An operation that reports success was executed by every axis it         *)
(* addressed, although axes ignore a repeated code, and a stop took hold.  *)
(***************************************************************************)
THEOREM SuccessMeansExecutedCorrect == Spec => []SuccessMeansExecuted
<1>1. OutcomeInv => SuccessMeansExecuted
  BY DEF OutcomeInv
<1> QED
  BY <1>1, OutcomeInvariance, PTL

(***************************************************************************)
(* As long as no frame was refused, the axes that clear_faults addresses   *)
(* execute the code that clears and the others execute no code (what mode  *)
(* they receive is not part of it: set_clear_alarm, control).              *)
(***************************************************************************)
THEOREM ClearOnReliableLinkCorrect == Spec => []ClearOnReliableLink
<1>1. OutcomeInv => ClearOnReliableLink
  BY DEF OutcomeInv
<1> QED
  BY <1>1, OutcomeInvariance, PTL
=============================================================================
