---------------------------- MODULE HandActions ----------------------------
(***************************************************************************)
(* action() and confirm() of src/hand.cpp: enable, disable, stop and       *)
(* prepare_disconnect as the control worker runs them, beside positions,   *)
(* which are sent without confirmation. The worker decides from the last   *)
(* status frame received; the device sends one whenever it likes, and it   *)
(* is some time on its way.                                                *)
(*                                                                         *)
(* The device is external. A command is obeyed at once or ignored by each  *)
(* axis; a motion ends by itself or after a stop, which makes no           *)
(* difference here. A device that restarts is silent for longer than the   *)
(* 100 ms for which feedback is valid.                                     *)
(***************************************************************************)
EXTENDS Integers, Sequences, SequencesExt

CONSTANTS
    Axes,
    Attempts,    \* 30 in the code
    MaxFrames    \* bound: status frames on their way

ASSUME AttemptsAssumption == Attempts \in Nat \ {0} /\ MaxFrames \in Nat \ {0}

VARIABLES
    on, moving,    \* device: axes enabled, axes in motion
    frames,        \* status frames on their way, oldest first
    view,          \* the status in the session's snapshot
    fresh,         \* feedback groups received during the last 100 ms
    news,          \* the snapshot is newer than the baseline
    op,            \* the call being run
    mode,          \* what action() is asked for
    attempt,
    cancelled,     \* the token of the call is no longer current
    result,        \* what action() has answered
    pc,
    restarted      \* history: the device restarted and `view` has not expired

deviceVars == <<on, moving>>
viewVars   == <<frames, view, fresh, news>>
callVars   == <<op, mode, attempt, cancelled, result>>
vars == <<deviceVars, viewVars, callVars, pc, restarted>>

Groups == {"motor", "status"}
Calls  == {"enable", "disable", "stop", "prepare", "move"}
Modes  == {"enable", "disable", "stop"}

\* A status frame; past: a command was sent since, foreign: by an earlier call.
Frames == [on : SUBSET Axes, still : SUBSET Axes, past : BOOLEAN, foreign : BOOLEAN]

TypeOK ==
    /\ on \subseteq Axes /\ moving \subseteq Axes
    /\ frames \in Seq(Frames) /\ Len(frames) <= MaxFrames
    /\ view \in Frames
    /\ fresh \subseteq Groups
    /\ op \in Calls \cup {"none"} /\ mode \in Modes \cup {"none"}
    /\ attempt \in 0 .. Attempts + 1
    /\ pc \in {"idle", "begin", "loop", "send", "confirm", "pause", "return"}
    /\ {news, cancelled, result, restarted} \subseteq BOOLEAN

Status == [on |-> on, still |-> Axes \ moving, past |-> FALSE, foreign |-> FALSE]

Init ==
    /\ on \in SUBSET Axes
    /\ moving = {}
    /\ frames = <<>>
    /\ view = Status
    /\ fresh = Groups
    /\ news = FALSE
    /\ op = "none"
    /\ mode = "none"
    /\ attempt = 0
    /\ cancelled = FALSE
    /\ result = FALSE
    /\ pc = "idle"
    /\ restarted = FALSE

-----------------------------------------------------------------------------
(* What the worker sees.                                                    *)

\* Faulty variant: feedback of one group makes all of it valid.
ValidByAnyGroup == fresh # {}

Valid == fresh = Groups

Matches(f) ==
    CASE mode = "enable"  -> f.on = Axes
      [] mode = "disable" -> f.on = {}
      [] mode = "stop"    -> f.still = Axes

-----------------------------------------------------------------------------
(* The control worker.                                                      *)

\* The attempts of action() for this call.
Limit == IF op = "prepare" THEN 1 ELSE Attempts

Call(c) ==
    /\ pc = "idle"
    /\ op' = c
    /\ mode' = IF c \in Modes THEN c ELSE IF c = "prepare" THEN "stop" ELSE "none"
    /\ pc' = IF c = "move" THEN "send" ELSE "begin"
    /\ cancelled' = FALSE
    /\ result' = TRUE
    /\ view' = [view EXCEPT !.foreign = view.past]
    /\ frames' = [i \in 1 .. Len(frames) |-> [frames[i] EXCEPT !.foreign = frames[i].past]]
    /\ UNCHANGED <<deviceVars, fresh, news, attempt, restarted>>

\* action() returns; prepare_disconnect combines its two answers.
Answer(ok) ==
    /\ pc' = "return"
    /\ result' = (result /\ ok)
    /\ UNCHANGED <<deviceVars, viewVars, op, mode, attempt, cancelled, restarted>>

\* enable needs feedback without alarm, axes at rest and position mode.
Decide ==
    /\ pc = "begin"
    /\ \/ mode = "enable" /\ Answer(FALSE)
       \/ Valid /\ Matches(view) /\ Answer(TRUE)
       \/ /\ ~(Valid /\ Matches(view))
          /\ mode = "enable" => Valid /\ view.still = Axes
          /\ pc' = "loop"
          /\ attempt' = 1
          /\ UNCHANGED <<deviceVars, viewVars, op, mode, cancelled, result, restarted>>

TakeBaseline ==
    /\ pc = "loop" /\ attempt <= Limit /\ ~cancelled
    /\ pc' = "send"
    /\ news' = FALSE
    /\ UNCHANGED <<deviceVars, frames, view, fresh, callVars, restarted>>

Exhausted ==
    /\ pc = "loop" /\ (attempt > Limit \/ cancelled)
    /\ Answer(FALSE)

\* A command makes all status frames on their way frames of before.
Outdated(f) == [f EXCEPT !.past = TRUE]

\* The frame is sent; each axis obeys or not.
Send(obey) ==
    /\ pc = "send"
    /\ on' = CASE mode = "enable"  -> on \cup obey
               [] mode = "disable" -> on \ obey
               [] OTHER            -> on
    /\ moving' = IF op = "move" THEN moving \cup (obey \cap on) ELSE moving
    /\ view' = Outdated(view)
    /\ frames' = [i \in 1 .. Len(frames) |-> Outdated(frames[i])]
    /\ pc' = IF op = "move" THEN "return" ELSE "confirm"
    /\ UNCHANGED <<fresh, news, callVars, restarted>>

SendFails ==
    /\ pc = "send"
    /\ pc' = IF op = "move" THEN "return" ELSE "pause"
    /\ result' = (result /\ op # "move")
    /\ UNCHANGED <<deviceVars, viewVars, op, mode, attempt, cancelled, restarted>>

Confirm ==
    /\ pc = "confirm" /\ ~cancelled
    /\ Valid /\ news /\ Matches(view)
    /\ Answer(TRUE)

NextAttempt == attempt + 1

\* confirm() was cancelled, receiving has failed, or its 500 ms are over, in
\* which either a status came or the feedback expired; or the pause of 100 ms
\* after a failed send has passed.
TryAgain ==
    /\ pc = "pause" \/ (pc = "confirm" /\ (cancelled \/ news \/ ~Valid))
    /\ pc' = "loop"
    /\ attempt' = NextAttempt
    /\ UNCHANGED <<deviceVars, viewVars, op, mode, cancelled, result, restarted>>

\* prepare_disconnect goes on to disable, whatever became of the stop.
Return ==
    /\ pc = "return"
    /\ IF op = "prepare" /\ mode = "stop"
       THEN pc' = "begin" /\ mode' = "disable" /\ UNCHANGED op
       ELSE pc' = "idle" /\ mode' = "none" /\ op' = "none"
    /\ attempt' = 0
    /\ UNCHANGED <<deviceVars, viewVars, cancelled, result, restarted>>

-----------------------------------------------------------------------------
(* The session, the device and other callers.                               *)

\* stop, disable, prepare_disconnect or disconnect of another thread.
Cancel ==
    /\ pc # "idle" /\ ~cancelled
    /\ cancelled' = TRUE
    /\ UNCHANGED <<deviceVars, viewVars, op, mode, attempt, result, pc, restarted>>

ReceiveStatus ==
    /\ frames # <<>>
    /\ view' = Head(frames)
    /\ frames' = Tail(frames)
    /\ fresh' = fresh \cup {"status"}
    /\ news' = TRUE
    /\ UNCHANGED <<deviceVars, callVars, pc, restarted>>

ReceiveMotor ==
    /\ fresh' = fresh \cup {"motor"}
    /\ UNCHANGED <<deviceVars, frames, view, news, callVars, pc, restarted>>

Expire(group) ==
    /\ fresh' = fresh \ {group}
    /\ restarted' = (restarted /\ group # "status")
    /\ UNCHANGED <<deviceVars, frames, view, news, callVars, pc>>

SendStatus ==
    /\ ~restarted /\ Len(frames) < MaxFrames
    /\ frames' = Append(frames, Status)
    /\ UNCHANGED <<deviceVars, view, fresh, news, callVars, pc, restarted>>

EndMotion(a) ==
    /\ a \in moving
    /\ moving' = moving \ {a}
    /\ UNCHANGED <<on, viewVars, callVars, pc, restarted>>

Restart ==
    /\ on # {}
    /\ on' = {}
    /\ moving' = {}
    /\ frames' = <<>>
    /\ restarted' = ("status" \in fresh)
    /\ UNCHANGED <<view, fresh, news, callVars, pc>>

-----------------------------------------------------------------------------

Worker ==
    \/ Decide \/ TakeBaseline \/ Exhausted \/ SendFails \/ Confirm
    \/ TryAgain \/ Return
    \/ \E obey \in SUBSET Axes : Send(obey)

Environment ==
    \/ Cancel \/ ReceiveStatus \/ ReceiveMotor \/ SendStatus \/ Restart
    \/ \E g \in Groups : Expire(g)
    \/ \E a \in Axes : EndMotion(a)

Next == (\E c \in Calls : Call(c)) \/ Worker \/ Environment

Spec == Init /\ [][Next]_vars

-----------------------------------------------------------------------------

\* The hand is in the state that action() was asked for.
InState ==
    CASE mode = "enable"  -> on = Axes
      [] mode = "disable" -> on = {}
      [] mode = "stop"    -> moving = {}

\* action() succeeds only when the whole hand is in the state it was asked for,
\* although the frame it decides from may be older than its own command, any
\* send may have failed and either feedback group may have stopped - provided
\* that the frame is not older than the last command of the calls before, and
\* the device did not restart during the last 100 ms (action, confirm, snapshot).
SuccessIsTrue ==
    [][pc # "return" /\ pc' = "return" /\ result' /\ op # "move"
         /\ ~view.foreign /\ ~restarted => InState]_vars

\* The manual says that stop() waits until six axes have reached the stop
\* condition.
StopMeansStill == pc = "return" /\ result /\ op = "stop" => moving = {}
=============================================================================
