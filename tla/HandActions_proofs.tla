------------------------- MODULE HandActions_proofs -------------------------
(***************************************************************************)
(* Proofs about HandActions, for any axes, any number of attempts and any  *)
(* number of status frames on their way: when action() answers success the *)
(* hand is in the state it was asked for.                                  *)
(***************************************************************************)
EXTENDS HandActions, SequenceTheorems, TLAPS

\* A status frame is true of a device with the axes o enabled and m in motion,
\* during a call k in mode d: exactly, if no command came since; if only commands
\* of this call came, on the side that matters.
TrueOf(f, o, m, k, d) ==
    /\ ~f.past => f.on = o
    /\ ~f.past \/ (~f.foreign /\ k \notin {"none", "move"}) => m \cap f.still = {}
    /\ ~f.foreign /\ d = "enable" => f.on \subseteq o
    /\ ~f.foreign /\ d \in {"disable", "stop"} => o \subseteq f.on

\* Frames on their way are as true as the snapshot. After a restart the snapshot
\* is wrong until its feedback has expired, and no frame is on its way.
FramesInv ==
    /\ \A i \in 1 .. Len(frames) : TrueOf(frames[i], on, moving, op, mode)
    /\ "status" \in fresh /\ ~restarted => TrueOf(view, on, moving, op, mode)
    /\ restarted => frames = <<>>

\* What the call asks for, and the attempts it may still make.
CallInv ==
    /\ op = "none" <=> pc = "idle"
    /\ op \in {"none", "move"} => mode = "none"
    /\ op \in Modes => mode = op
    /\ op = "prepare" => mode \in {"stop", "disable"}
    /\ op = "move" => pc \in {"send", "return"}
    /\ pc \in {"send", "confirm", "pause"} /\ op # "move" => attempt <= Attempts

ActionInv == TypeOK /\ CallInv /\ FramesInv

-----------------------------------------------------------------------------
(* Frames marked one by one.                                                *)

LEMMA FrameFields ==
    ASSUME NEW f \in Frames
    PROVE  /\ f.on \subseteq Axes /\ f.still \subseteq Axes
           /\ f.past \in BOOLEAN /\ f.foreign \in BOOLEAN
           /\ f = [on |-> f.on, still |-> f.still, past |-> f.past, foreign |-> f.foreign]
BY Zenon DEF Frames

LEMMA OutdatedFrame ==
    ASSUME NEW f \in Frames
    PROVE  /\ Outdated(f) \in Frames
           /\ Outdated(f).on = f.on /\ Outdated(f).still = f.still
           /\ Outdated(f).past = TRUE /\ Outdated(f).foreign = f.foreign
BY DEF Outdated, Frames

Forgotten(f) == [f EXCEPT !.foreign = f.past]

LEMMA ForgottenFrame ==
    ASSUME NEW f \in Frames
    PROVE  /\ Forgotten(f) \in Frames
           /\ Forgotten(f).on = f.on /\ Forgotten(f).still = f.still
           /\ Forgotten(f).past = f.past /\ Forgotten(f).foreign = f.past
BY DEF Forgotten, Frames

LEMMA StatusFrame ==
    TypeOK => /\ Status \in Frames
              /\ Status.on = on /\ Status.still = Axes \ moving
              /\ Status.past = FALSE /\ Status.foreign = FALSE
BY DEF TypeOK, Status, Frames

LEMMA OnTheirWay ==
    TypeOK => /\ frames \in Seq(Frames) /\ Len(frames) \in Nat
              /\ \A i \in 1 .. Len(frames) : frames[i] \in Frames
BY DEF TypeOK

-----------------------------------------------------------------------------
(* What a step does to the frames.                                          *)

LEMMA TrueAfterCall ==
    ASSUME NEW f \in Frames, NEW o, NEW m, NEW k, NEW d, NEW k2, NEW d2,
           TrueOf(f, o, m, k, d)
    PROVE  TrueOf(Forgotten(f), o, m, k2, d2)
BY ForgottenFrame DEF TrueOf

LEMMA TrueAfterSend ==
    ASSUME NEW f \in Frames, NEW o, NEW m, NEW k, NEW d, NEW o2, NEW m2,
           TrueOf(f, o, m, k, d),
           d = "enable" => o \subseteq o2,
           d # "enable" => o2 \subseteq o,
           k # "move" => m2 = m,
           k = "move" => d = "none"
    PROVE  TrueOf(Outdated(f), o2, m2, k, d)
BY OutdatedFrame DEF TrueOf

LEMMA TrueAfterReturn ==
    ASSUME NEW f \in Frames, NEW o, NEW m, NEW k, NEW d, TrueOf(f, o, m, k, d)
    PROVE  /\ TrueOf(f, o, m, "none", "none")
           /\ d = "stop" => TrueOf(f, o, m, k, "disable")
BY DEF TrueOf

LEMMA TrueWhenStill ==
    ASSUME NEW f \in Frames, NEW o, NEW m, NEW k, NEW d, NEW m2, TrueOf(f, o, m, k, d),
           m2 \subseteq m
    PROVE  TrueOf(f, o, m2, k, d)
BY DEF TrueOf

LEMMA TrueWhenSent ==
    ASSUME TypeOK, NEW k, NEW d
    PROVE  TrueOf(Status, on, moving, k, d)
BY StatusFrame DEF TrueOf, TypeOK

\* Every frame on its way is marked, none is lost.
LEMMA FramesMarked ==
    ASSUME TypeOK, NEW t, t = [i \in 1 .. Len(frames) |-> t[i]],
           \A i \in 1 .. Len(frames) : t[i] \in Frames
    PROVE  /\ t \in Seq(Frames) /\ Len(t) = Len(frames)
           /\ frames = <<>> => t = <<>>
<1>1. t \in [1 .. Len(frames) -> Frames] /\ Len(frames) \in Nat
  BY OnTheirWay
<1>2. t \in Seq(Frames)
  BY <1>1, SeqDef
<1>3. Len(t) = Len(frames)
  BY <1>1, <1>2, LenProperties
<1> QED
  BY <1>2, <1>3, EmptySeq, OnTheirWay

LEMMA CallMarks ==
    ASSUME TypeOK, NEW c \in Calls, Call(c)
    PROVE  /\ frames' \in Seq(Frames) /\ Len(frames') = Len(frames)
           /\ frames = <<>> => frames' = <<>>
           /\ \A i \in 1 .. Len(frames) : frames'[i] = Forgotten(frames[i])
           /\ view' = Forgotten(view)
<1>1. frames' = [i \in 1 .. Len(frames) |-> Forgotten(frames[i])] /\ view' = Forgotten(view)
  BY Zenon DEF Call, Forgotten
<1>2. \A i \in 1 .. Len(frames) : frames'[i] = Forgotten(frames[i])
  BY <1>1, Zenon
<1>3. \A i \in 1 .. Len(frames) : frames'[i] \in Frames
  BY <1>2, OnTheirWay, ForgottenFrame
<1>4. frames' = [i \in 1 .. Len(frames) |-> frames'[i]]
  BY <1>1
<1> QED
  BY <1>1, <1>2, <1>3, <1>4, FramesMarked

LEMMA SendMarks ==
    ASSUME TypeOK, NEW obey \in SUBSET Axes, Send(obey)
    PROVE  /\ frames' \in Seq(Frames) /\ Len(frames') = Len(frames)
           /\ frames = <<>> => frames' = <<>>
           /\ \A i \in 1 .. Len(frames) : frames'[i] = Outdated(frames[i])
           /\ view' = Outdated(view)
<1>1. frames' = [i \in 1 .. Len(frames) |-> Outdated(frames[i])] /\ view' = Outdated(view)
  BY Zenon DEF Send
<1>2. \A i \in 1 .. Len(frames) : frames'[i] = Outdated(frames[i])
  BY <1>1, Zenon
<1>3. \A i \in 1 .. Len(frames) : frames'[i] \in Frames
  BY <1>2, OnTheirWay, OutdatedFrame
<1>4. frames' = [i \in 1 .. Len(frames) |-> frames'[i]]
  BY <1>1
<1> QED
  BY <1>1, <1>2, <1>3, <1>4, FramesMarked

\* What a command does to the axes, by mode.
LEMMA SendEffect ==
    ASSUME TypeOK, CallInv, NEW obey \in SUBSET Axes, Send(obey)
    PROVE  /\ mode = "enable" => on \subseteq on'
           /\ mode # "enable" => on' \subseteq on
           /\ op # "move" => moving' = moving
           /\ op = "move" => mode = "none"
           /\ on' \subseteq Axes /\ moving' \subseteq Axes
<1>1. /\ mode = "enable" => on' = on \cup obey
      /\ mode = "disable" => on' = on \ obey
      /\ mode # "enable" /\ mode # "disable" => on' = on
  BY Zenon DEF Send
<1>2. moving' = IF op = "move" THEN moving \cup (obey \cap on) ELSE moving
  BY Zenon DEF Send
<1> QED
  BY <1>1, <1>2 DEF TypeOK, CallInv

-----------------------------------------------------------------------------
(* The invariant, one part at a time.                                       *)

LEMMA FramesStep ==
    ASSUME TypeOK, CallInv, FramesInv, [Next]_vars
    PROVE  FramesInv'
<1>types. /\ view \in Frames /\ frames \in Seq(Frames) /\ Len(frames) \in Nat
          /\ \A i \in 1 .. Len(frames) : frames[i] \in Frames
  BY OnTheirWay DEF TypeOK
<1>1. CASE UNCHANGED <<on, moving, frames, view, fresh, op, mode, restarted>>
  BY <1>1, Zenon DEF FramesInv
<1>2. ASSUME NEW c \in Calls, Call(c) PROVE FramesInv'
  <2>1. UNCHANGED <<on, moving, fresh, restarted>>
    BY <1>2, Zenon DEF Call, deviceVars
  <2>2. \A i \in 1 .. Len(frames) : TrueOf(frames'[i], on, moving, op', mode')
    BY <1>types, <1>2, CallMarks, TrueAfterCall DEF FramesInv
  <2>3. "status" \in fresh /\ ~restarted => TrueOf(view', on, moving, op', mode')
    BY <1>types, <1>2, CallMarks, TrueAfterCall DEF FramesInv
  <2>4. restarted => frames' = <<>>
    BY <1>2, CallMarks DEF FramesInv
  <2>5. Len(frames') = Len(frames)
    BY <1>2, CallMarks
  <2> QED
    BY <2>1, <2>2, <2>3, <2>4, <2>5, Zenon DEF FramesInv
<1>3. ASSUME NEW obey \in SUBSET Axes, Send(obey) PROVE FramesInv'
  <2>1. UNCHANGED <<fresh, op, mode, restarted>>
    BY <1>3, Zenon DEF Send, callVars
  <2>2. \A i \in 1 .. Len(frames) : TrueOf(frames'[i], on', moving', op, mode)
    BY <1>types, <1>3, SendMarks, SendEffect, TrueAfterSend DEF FramesInv
  <2>3. "status" \in fresh /\ ~restarted => TrueOf(view', on', moving', op, mode)
    BY <1>types, <1>3, SendMarks, SendEffect, TrueAfterSend DEF FramesInv
  <2>4. restarted => frames' = <<>>
    BY <1>3, SendMarks DEF FramesInv
  <2>5. Len(frames') = Len(frames)
    BY <1>3, SendMarks
  <2> QED
    BY <2>1, <2>2, <2>3, <2>4, <2>5, Zenon DEF FramesInv
<1>4. CASE Return
  <2>1. UNCHANGED <<on, moving, frames, view, fresh, restarted>>
    BY <1>4, Zenon DEF Return, deviceVars, viewVars
  <2>2. \/ op' = "none" /\ mode' = "none"
        \/ op' = op /\ mode = "stop" /\ mode' = "disable"
    BY <1>4, Zenon DEF Return
  <2>3. \A f \in Frames : TrueOf(f, on, moving, op, mode) => TrueOf(f, on, moving, op', mode')
    BY <2>2, TrueAfterReturn
  <2> QED
    BY <1>types, <2>1, <2>3, Zenon DEF FramesInv
<1>5. CASE ReceiveStatus
  <2>1. /\ frames # <<>> /\ view' = Head(frames) /\ frames' = Tail(frames)
        /\ UNCHANGED <<on, moving, op, mode, restarted>>
    BY <1>5, Zenon DEF ReceiveStatus, deviceVars, callVars
  <2>2. ~restarted
    BY <2>1 DEF FramesInv
  <2>3. /\ Head(frames) = frames[1] /\ 1 \in 1 .. Len(frames)
        /\ Len(Tail(frames)) = Len(frames) - 1
        /\ \A i \in 1 .. Len(frames) - 1 : Tail(frames)[i] = frames[i + 1]
    BY <1>types, <2>1, HeadTailProperties, EmptySeq
  <2>4. TrueOf(view', on, moving, op, mode)
    BY <2>1, <2>3, Zenon DEF FramesInv
  <2>5. ASSUME NEW i \in 1 .. Len(frames') PROVE TrueOf(frames'[i], on, moving, op, mode)
    <3>1. i \in 1 .. Len(frames) - 1 /\ i + 1 \in 1 .. Len(frames)
      BY <1>types, <2>1, <2>3
    <3> QED
      BY <2>1, <2>3, <3>1, Zenon DEF FramesInv
  <2> QED
    BY <2>1, <2>2, <2>4, <2>5, Zenon DEF FramesInv
<1>6. CASE ReceiveMotor
  <2>1. /\ fresh' = fresh \cup {"motor"}
        /\ UNCHANGED <<on, moving, frames, view, op, mode, restarted>>
    BY <1>6, Zenon DEF ReceiveMotor, deviceVars, callVars
  <2>2. "status" \in fresh' => "status" \in fresh
    BY <2>1
  <2> QED
    BY <2>1, <2>2, Zenon DEF FramesInv
<1>7. ASSUME NEW g \in Groups, Expire(g) PROVE FramesInv'
  <2>1. /\ fresh' = fresh \ {g} /\ restarted' = (restarted /\ g # "status")
        /\ UNCHANGED <<on, moving, frames, view, op, mode>>
    BY <1>7, Zenon DEF Expire, deviceVars, callVars
  <2>2. "status" \in fresh' => "status" \in fresh /\ g # "status"
    BY <2>1
  <2> QED
    BY <2>1, <2>2, Zenon DEF FramesInv
<1>8. CASE SendStatus
  <2>1. /\ ~restarted /\ frames' = Append(frames, Status)
        /\ UNCHANGED <<on, moving, view, fresh, op, mode, restarted>>
    BY <1>8, Zenon DEF SendStatus, deviceVars, callVars
  <2>2. /\ Len(frames') = Len(frames) + 1
        /\ \A i \in 1 .. Len(frames) : frames'[i] = frames[i]
        /\ frames'[Len(frames) + 1] = Status
    BY <1>types, <2>1, StatusFrame, AppendProperties
  <2>3. TrueOf(Status, on, moving, op, mode)
    BY TrueWhenSent
  <2>4. ASSUME NEW i \in 1 .. Len(frames') PROVE TrueOf(frames'[i], on, moving, op, mode)
    <3>1. i \in 1 .. Len(frames) \/ i = Len(frames) + 1
      BY <1>types, <2>2
    <3> QED
      BY <2>2, <2>3, <3>1, Zenon DEF FramesInv
  <2> QED
    BY <2>1, <2>4, Zenon DEF FramesInv
<1>9. ASSUME NEW a \in Axes, EndMotion(a) PROVE FramesInv'
  <2>1. /\ moving' = moving \ {a}
        /\ UNCHANGED <<on, frames, view, fresh, op, mode, restarted>>
    BY <1>9, Zenon DEF EndMotion, viewVars, callVars
  <2>2. \A f \in Frames : TrueOf(f, on, moving, op, mode) => TrueOf(f, on, moving', op, mode)
    <3>1. moving' \subseteq moving
      BY <2>1
    <3> QED
      BY <3>1, TrueWhenStill
  <2> QED
    BY <1>types, <2>1, <2>2, Zenon DEF FramesInv
<1>10. CASE Restart
  <2>1. /\ frames' = <<>> /\ restarted' = ("status" \in fresh) /\ fresh' = fresh
    BY <1>10, Zenon DEF Restart
  <2>2. Len(frames') = 0
    BY <2>1
  <2>3. \A i \in 1 .. Len(frames') : FALSE
    BY <2>2
  <2> QED
    BY <2>1, <2>3, Zenon DEF FramesInv
<1>11. CASE Decide \/ TakeBaseline \/ Exhausted \/ SendFails \/ Confirm \/ TryAgain \/ Cancel
  <2>1. UNCHANGED <<on, moving, frames, view, fresh, op, mode, restarted>>
    BY <1>11, Zenon
    DEF Decide, TakeBaseline, Exhausted, SendFails, Confirm, TryAgain, Cancel, Answer, deviceVars,
        viewVars, callVars
  <2> QED
    BY <1>1, <2>1
<1>12. CASE UNCHANGED vars
  <2>1. UNCHANGED <<on, moving, frames, view, fresh, op, mode, restarted>>
    BY <1>12, Zenon DEF vars, deviceVars, viewVars, callVars
  <2> QED
    BY <1>1, <2>1
<1> QED
  BY <1>2, <1>3, <1>4, <1>5, <1>6, <1>7, <1>8, <1>9, <1>10, <1>11, <1>12, Zenon
  DEF Next, Worker, Environment

LEMMA CallStep ==
    ASSUME TypeOK, CallInv, [Next]_vars
    PROVE  CallInv'
<1>1. Attempts \in Nat \ {0}
  BY AttemptsAssumption
<1>2. ASSUME NEW c \in Calls, Call(c) PROVE CallInv'
  BY <1>2 DEF Call, CallInv, Calls, Modes
<1>3. CASE Decide
  BY <1>3 DEF Decide, Answer, CallInv, Modes, viewVars, deviceVars
<1>4. CASE TakeBaseline
  <2>1. attempt <= Attempts
    BY <1>1, <1>4 DEF TakeBaseline, Limit, TypeOK
  <2> QED
    BY <1>4, <2>1 DEF TakeBaseline, CallInv, Modes, callVars
<1>5. CASE Exhausted \/ Confirm
  BY <1>5 DEF Exhausted, Confirm, Answer, CallInv, Modes
<1>6. CASE SendFails
  BY <1>6 DEF SendFails, CallInv, Modes
<1>7. CASE TryAgain
  BY <1>7 DEF TryAgain, CallInv, Modes
<1>8. CASE Return
  BY <1>8 DEF Return, CallInv, Modes, Calls
<1>9. ASSUME NEW obey \in SUBSET Axes, Send(obey) PROVE CallInv'
  <2>1. /\ pc = "send" /\ pc' = IF op = "move" THEN "return" ELSE "confirm"
        /\ UNCHANGED callVars
    BY <1>9, Zenon DEF Send
  <2> QED
    BY <2>1 DEF CallInv, Modes, callVars
<1>10. CASE Environment \/ UNCHANGED vars
  <2>1. UNCHANGED <<op, mode, attempt, pc>>
    BY <1>10, Zenon
    DEF Environment, Cancel, ReceiveStatus, ReceiveMotor, Expire, SendStatus, EndMotion, Restart,
        vars, callVars
  <2> QED
    BY <2>1, Zenon DEF CallInv
<1> QED
  BY <1>2, <1>3, <1>4, <1>5, <1>6, <1>7, <1>8, <1>9, <1>10, Zenon DEF Next, Worker

\* Type correctness in the parts the actions change.
DeviceTypes == on \subseteq Axes /\ moving \subseteq Axes
ViewTypes   == frames \in Seq(Frames) /\ Len(frames) <= MaxFrames /\ view \in Frames /\ fresh \subseteq Groups
ControlTypes ==
    /\ op \in Calls \cup {"none"} /\ mode \in Modes \cup {"none"}
    /\ pc \in {"idle", "begin", "loop", "send", "confirm", "pause", "return"}
    /\ attempt \in 0 .. Attempts + 1
FlagTypes == /\ news \in BOOLEAN /\ cancelled \in BOOLEAN
             /\ result \in BOOLEAN /\ restarted \in BOOLEAN

LEMMA TypeParts == TypeOK <=> DeviceTypes /\ ViewTypes /\ ControlTypes /\ FlagTypes
<1>1. {news, cancelled, result, restarted} \subseteq BOOLEAN <=> FlagTypes
  BY Zenon DEF FlagTypes
<1> QED
  BY <1>1, Zenon DEF TypeOK, DeviceTypes, ViewTypes, ControlTypes

LEMMA ControlTypesStep ==
    ASSUME TypeOK, CallInv, [Next]_vars
    PROVE  ControlTypes'
<1>1. Attempts \in Nat \ {0} /\ ControlTypes
  BY AttemptsAssumption, TypeParts
<1>2. ASSUME NEW c \in Calls, Call(c) PROVE ControlTypes'
  BY <1>1, <1>2 DEF Call, ControlTypes, Calls, Modes
<1>3. CASE Decide
  BY <1>1, <1>3 DEF Decide, Answer, ControlTypes
<1>4. CASE TakeBaseline
  BY <1>1, <1>4 DEF TakeBaseline, ControlTypes, callVars
<1>5. CASE Exhausted \/ Confirm
  BY <1>1, <1>5 DEF Exhausted, Confirm, Answer, ControlTypes
<1>6. CASE SendFails
  BY <1>1, <1>6 DEF SendFails, ControlTypes
<1>7. CASE TryAgain
  <2>1. attempt <= Attempts
    BY <1>7 DEF TryAgain, CallInv
  <2> QED
    BY <1>1, <1>7, <2>1 DEF TryAgain, NextAttempt, ControlTypes
<1>8. CASE Return
  BY <1>1, <1>8 DEF Return, ControlTypes, Modes
<1>9. ASSUME NEW obey \in SUBSET Axes, Send(obey) PROVE ControlTypes'
  <2>1. /\ pc' = IF op = "move" THEN "return" ELSE "confirm"
        /\ UNCHANGED callVars
    BY <1>9, Zenon DEF Send
  <2> QED
    BY <1>1, <2>1 DEF ControlTypes, callVars
<1>10. CASE Environment \/ UNCHANGED vars
  <2>1. UNCHANGED <<op, mode, attempt, pc>>
    BY <1>10, Zenon
    DEF Environment, Cancel, ReceiveStatus, ReceiveMotor, Expire, SendStatus, EndMotion, Restart,
        vars, callVars
  <2> QED
    BY <1>1, <2>1, Zenon DEF ControlTypes
<1> QED
  BY <1>2, <1>3, <1>4, <1>5, <1>6, <1>7, <1>8, <1>9, <1>10, Zenon DEF Next, Worker

LEMMA FlagTypesStep ==
    ASSUME FlagTypes, [Next]_vars
    PROVE  FlagTypes'
<1>1. ASSUME NEW c \in Calls, Call(c) PROVE FlagTypes'
  BY <1>1, Zenon DEF Call, FlagTypes
<1>2. CASE Worker
  <2>1. ASSUME NEW ok \in BOOLEAN, Answer(ok) PROVE FlagTypes'
    BY <2>1, Zenon DEF Answer, FlagTypes, viewVars
  <2>2. Decide => FlagTypes'
    BY <2>1, Zenon DEF Decide, FlagTypes, viewVars
  <2>3. Exhausted \/ Confirm => FlagTypes'
    BY <2>1, Zenon DEF Exhausted, Confirm
  <2>4. TakeBaseline \/ SendFails \/ TryAgain \/ Return => FlagTypes'
    BY Zenon DEF TakeBaseline, SendFails, TryAgain, Return, FlagTypes, viewVars, callVars
  <2>5. ASSUME NEW obey \in SUBSET Axes, Send(obey) PROVE FlagTypes'
    BY <2>5, Zenon DEF Send, FlagTypes, callVars
  <2> QED
    BY <1>2, <2>2, <2>3, <2>4, <2>5, Zenon DEF Worker
<1>3. CASE Environment
  <2>1. Cancel \/ ReceiveStatus \/ ReceiveMotor \/ SendStatus => FlagTypes'
    BY Zenon DEF Cancel, ReceiveStatus, ReceiveMotor, SendStatus, FlagTypes, callVars, viewVars
  <2>2. Restart => FlagTypes'
    <3>1. ("status" \in fresh) \in BOOLEAN
      <4>1. ("status" \in fresh) = TRUE \/ ("status" \in fresh) = FALSE
        OBVIOUS
      <4> QED
        BY <4>1, Zenon
    <3>2. Restart => restarted' \in BOOLEAN /\ UNCHANGED <<news, cancelled, result>>
      BY <3>1, Zenon DEF Restart, callVars
    <3> QED
      BY <3>2, Zenon DEF FlagTypes
  <2>3. ASSUME NEW g \in Groups, Expire(g) PROVE FlagTypes'
    <3>1. (restarted /\ g # "status") \in BOOLEAN
      BY Zenon
    <3>2. restarted' \in BOOLEAN /\ UNCHANGED <<news, cancelled, result>>
      BY <2>3, <3>1, Zenon DEF Expire, callVars
    <3> QED
      BY <3>2, Zenon DEF FlagTypes
  <2>4. ASSUME NEW a \in Axes, EndMotion(a) PROVE FlagTypes'
    BY <2>4, Zenon DEF EndMotion, FlagTypes, callVars, viewVars
  <2> QED
    BY <1>3, <2>1, <2>2, <2>3, <2>4, Zenon DEF Environment
<1>4. CASE UNCHANGED vars
  BY <1>4, Zenon DEF FlagTypes, vars, viewVars, callVars
<1> QED
  BY <1>1, <1>2, <1>3, <1>4, Zenon DEF Next

LEMMA DataTypesStep ==
    ASSUME TypeOK, CallInv, [Next]_vars
    PROVE  DeviceTypes' /\ ViewTypes'
<1>types. /\ on \subseteq Axes /\ moving \subseteq Axes /\ view \in Frames /\ fresh \subseteq Groups
          /\ frames \in Seq(Frames) /\ Len(frames) \in Nat /\ Len(frames) <= MaxFrames
          /\ MaxFrames \in Nat \ {0}
  BY OnTheirWay, AttemptsAssumption DEF TypeOK
<1>1. CASE UNCHANGED <<on, moving, frames, view, fresh>>
  BY <1>types, <1>1, Zenon DEF DeviceTypes, ViewTypes
<1>2. ASSUME NEW c \in Calls, Call(c) PROVE DeviceTypes' /\ ViewTypes'
  <2>1. UNCHANGED <<on, moving, fresh>>
    BY <1>2, Zenon DEF Call, deviceVars
  <2>2. frames' \in Seq(Frames) /\ Len(frames') = Len(frames) /\ view' \in Frames
    BY <1>types, <1>2, CallMarks, ForgottenFrame
  <2> QED
    BY <1>types, <2>1, <2>2, Zenon DEF DeviceTypes, ViewTypes
<1>3. ASSUME NEW obey \in SUBSET Axes, Send(obey) PROVE DeviceTypes' /\ ViewTypes'
  <2>1. fresh' = fresh /\ on' \subseteq Axes /\ moving' \subseteq Axes
    BY <1>3, SendEffect DEF Send
  <2>2. frames' \in Seq(Frames) /\ Len(frames') = Len(frames) /\ view' \in Frames
    BY <1>types, <1>3, SendMarks, OutdatedFrame
  <2> QED
    BY <1>types, <2>1, <2>2, Zenon DEF DeviceTypes, ViewTypes
<1>4. CASE ReceiveStatus
  <2>1. /\ frames # <<>> /\ view' = Head(frames) /\ frames' = Tail(frames)
        /\ fresh' = fresh \cup {"status"} /\ UNCHANGED <<on, moving>>
    BY <1>4, Zenon DEF ReceiveStatus, deviceVars
  <2>2. Head(frames) \in Frames /\ Tail(frames) \in Seq(Frames) /\ Len(Tail(frames)) = Len(frames) - 1
    BY <1>types, <2>1, HeadTailProperties
  <2>3. Len(frames') <= MaxFrames
    BY <1>types, <2>1, <2>2
  <2>4. fresh' \subseteq Groups
    BY <1>types, <2>1 DEF Groups
  <2> QED
    BY <1>types, <2>1, <2>2, <2>3, <2>4, Zenon DEF DeviceTypes, ViewTypes
<1>5. CASE ReceiveMotor \/ \E g \in Groups : Expire(g)
  <2>1. (fresh' = fresh \cup {"motor"} \/ \E g \in Groups : fresh' = fresh \ {g})
        /\ UNCHANGED <<on, moving, frames, view>>
    BY <1>5, Zenon DEF ReceiveMotor, Expire, deviceVars
  <2>2. fresh' \subseteq Groups
    BY <1>types, <2>1 DEF Groups
  <2> QED
    BY <1>types, <2>1, <2>2, Zenon DEF DeviceTypes, ViewTypes
<1>6. CASE SendStatus
  <2>1. /\ Len(frames) < MaxFrames /\ frames' = Append(frames, Status)
        /\ UNCHANGED <<on, moving, view, fresh>>
    BY <1>6, Zenon DEF SendStatus, deviceVars
  <2>2. frames' \in Seq(Frames) /\ Len(frames') = Len(frames) + 1
    BY <1>types, <2>1, StatusFrame, AppendProperties
  <2>3. Len(frames') <= MaxFrames
    BY <1>types, <2>1, <2>2
  <2> QED
    BY <1>types, <2>1, <2>2, <2>3, Zenon DEF DeviceTypes, ViewTypes
<1>7. CASE Restart \/ \E a \in Axes : EndMotion(a)
  <2>1. CASE Restart
    <3>1. on' = {} /\ moving' = {} /\ frames' = <<>> /\ UNCHANGED <<view, fresh>>
      BY <2>1, Zenon DEF Restart
    <3>2. frames' \in Seq(Frames) /\ Len(frames') <= MaxFrames
      BY <1>types, <3>1, EmptySeq
    <3> QED
      BY <1>types, <3>1, <3>2 DEF DeviceTypes, ViewTypes
  <2>2. CASE \E a \in Axes : EndMotion(a)
    <3>1. (\E a \in Axes : moving' = moving \ {a}) /\ UNCHANGED <<on, frames, view, fresh>>
      BY <2>2, Zenon DEF EndMotion, viewVars
    <3>2. moving' \subseteq Axes
      BY <1>types, <3>1
    <3> QED
      BY <1>types, <3>1, <3>2, Zenon DEF DeviceTypes, ViewTypes
  <2> QED
    BY <1>7, <2>1, <2>2
<1>8. CASE Decide \/ TakeBaseline \/ Exhausted \/ SendFails \/ Confirm \/ TryAgain \/ Return \/ Cancel
  <2>1. UNCHANGED <<on, moving, frames, view, fresh>>
    BY <1>8, Zenon
    DEF Decide, TakeBaseline, Exhausted, SendFails, Confirm, TryAgain, Return, Cancel, Answer,
        deviceVars, viewVars
  <2> QED
    BY <1>1, <2>1
<1>9. CASE UNCHANGED vars
  <2>1. UNCHANGED <<on, moving, frames, view, fresh>>
    BY <1>9, Zenon DEF vars, deviceVars, viewVars
  <2> QED
    BY <1>1, <2>1
<1> QED
  BY <1>2, <1>3, <1>4, <1>5, <1>6, <1>7, <1>8, <1>9, Zenon DEF Next, Worker, Environment

LEMMA ActionInit == Init => ActionInv
<1> SUFFICES ASSUME Init PROVE ActionInv
  OBVIOUS
<1>1. Attempts \in Nat \ {0} /\ MaxFrames \in Nat \ {0}
  BY AttemptsAssumption
<1>2. Status \in Frames /\ Status.on = on /\ Status.still = Axes \ moving
  BY DEF Init, Status, Frames
<1>3. DeviceTypes /\ ViewTypes
  BY <1>1, <1>2, EmptySeq DEF Init, DeviceTypes, ViewTypes
<1>4. ControlTypes /\ FlagTypes
  <2>1. ControlTypes
    BY <1>1 DEF Init, ControlTypes
  <2>2. FlagTypes
    BY Zenon DEF Init, FlagTypes
  <2> QED
    BY <2>1, <2>2
<1>5. CallInv
  BY DEF Init, CallInv, Modes
<1>6. TypeOK
  BY <1>3, <1>4, TypeParts
<1>7. FramesInv
  <2>1. \A i \in 1 .. Len(frames) : FALSE
    <3>1. Len(frames) = 0
      BY DEF Init
    <3> QED
      BY <3>1
  <2>2. TrueOf(view, on, moving, op, mode)
    BY <1>6, TrueWhenSent DEF Init
  <2> QED
    BY <2>1, <2>2 DEF Init, FramesInv
<1> QED
  BY <1>5, <1>6, <1>7 DEF ActionInv

LEMMA ActionStep == ActionInv /\ [Next]_vars => ActionInv'
<1> SUFFICES ASSUME ActionInv, [Next]_vars PROVE ActionInv'
  OBVIOUS
<1>1. FlagTypes
  BY TypeParts DEF ActionInv
<1>2. DeviceTypes' /\ ViewTypes' /\ ControlTypes' /\ FlagTypes'
  BY <1>1, DataTypesStep, ControlTypesStep, FlagTypesStep DEF ActionInv
<1>3. {news', cancelled', result', restarted'} \subseteq BOOLEAN
  BY <1>2, Zenon DEF FlagTypes
<1>4. TypeOK'
  BY <1>2, <1>3, Zenon DEF TypeOK, DeviceTypes, ViewTypes, ControlTypes
<1> QED
  BY <1>4, CallStep, FramesStep DEF ActionInv

-----------------------------------------------------------------------------

\* Type correctness.
THEOREM ActionsTypeCorrect == Spec => []TypeOK
<1>1. ActionInv => TypeOK
  BY DEF ActionInv
<1> QED
  BY ActionInit, ActionStep, <1>1, PTL DEF Spec

\* enable(), disable(), stop() and prepare_disconnect() answer success only if the
\* hand is in the state asked for, whichever frame they decided from: one older
\* than the command still bounds what the command can have left undone (action,
\* confirm).
THEOREM SuccessIsTrueCorrect == Spec => SuccessIsTrue
<1> DEFINE Succeeds == pc # "return" /\ pc' = "return" /\ result' /\ op # "move"
                       /\ ~view.foreign /\ ~restarted
<1>1. ASSUME ActionInv, Next, Succeeds PROVE InState
  <2>1. TypeOK /\ CallInv /\ FramesInv
    BY <1>1 DEF ActionInv
  <2>2. Valid /\ Matches(view) /\ pc \in {"begin", "confirm"}
    <3>1. Decide \/ Confirm
      <4>1. ASSUME NEW c \in Calls, Call(c) PROVE FALSE
        BY <1>1, <4>1 DEF Call
      <4>2. ASSUME NEW obey \in SUBSET Axes, Send(obey) PROVE FALSE
        <5>1. pc' = IF op = "move" THEN "return" ELSE "confirm"
          BY <4>2, Zenon DEF Send
        <5> QED
          BY <1>1, <5>1
      <4>3. ~Exhausted /\ ~TakeBaseline /\ ~SendFails /\ ~TryAgain /\ ~Return
        BY <1>1 DEF Exhausted, TakeBaseline, SendFails, TryAgain, Return, Answer
      <4>4. ~Environment
        <5>1. Environment => pc' = pc
          BY Zenon DEF Environment, Cancel, ReceiveStatus, ReceiveMotor, Expire, SendStatus,
             EndMotion, Restart
        <5> QED
          BY <1>1, <5>1
      <4> QED
        BY <1>1, <4>1, <4>2, <4>3, <4>4, Zenon DEF Next, Worker
    <3>2. Decide => Valid /\ Matches(view) /\ pc = "begin"
      BY <1>1 DEF Decide, Answer
    <3>3. Confirm => Valid /\ Matches(view) /\ pc = "confirm"
      BY Zenon DEF Confirm
    <3> QED
      BY <3>1, <3>2, <3>3
  <2>3. op \notin {"none", "move"} /\ mode \in Modes
    BY <1>1, <2>1, <2>2 DEF CallInv, TypeOK, Calls, Modes
  <2>4. "status" \in fresh
    BY <2>2 DEF Valid, Groups
  <2>5. TrueOf(view, on, moving, op, mode)
    BY <1>1, <2>1, <2>4 DEF FramesInv
  <2>6. /\ moving \cap view.still = {}
        /\ mode = "enable" => view.on \subseteq on
        /\ mode = "disable" => on \subseteq view.on
    BY <1>1, <2>3, <2>5 DEF TrueOf
  <2>7. on \subseteq Axes /\ moving \subseteq Axes
    BY <2>1 DEF TypeOK
  <2>8. CASE mode = "enable"
    <3>1. view.on = Axes
      BY <2>2, <2>8, Zenon DEF Matches
    <3>2. on = Axes
      BY <2>6, <2>7, <2>8, <3>1
    <3> QED
      BY <2>8, <3>2, Zenon DEF InState
  <2>9. CASE mode = "disable"
    <3>1. view.on = {}
      BY <2>2, <2>9, Zenon DEF Matches
    <3>2. on = {}
      BY <2>6, <2>9, <3>1
    <3> QED
      BY <2>9, <3>2, Zenon DEF InState
  <2>10. CASE mode = "stop"
    <3>1. view.still = Axes
      BY <2>2, <2>10, Zenon DEF Matches
    <3>2. moving = {}
      BY <2>6, <2>7, <3>1
    <3> QED
      BY <2>10, <3>2, Zenon DEF InState
  <2> QED
    BY <2>3, <2>8, <2>9, <2>10 DEF Modes
<1>2. ActionInv /\ [Next]_vars => [Succeeds => InState]_vars
  BY <1>1
<1> QED
  BY ActionInit, ActionStep, <1>2, PTL DEF Spec, SuccessIsTrue
=============================================================================
