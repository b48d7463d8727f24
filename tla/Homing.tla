------------------------------- MODULE Homing -------------------------------
(***************************************************************************)
(* home() of src/hand.cpp: the whole hand is sent home, again every second *)
(* until every axis was seen homing, and position mode is restored when    *)
(* all are done. The worker decides from status frames, which are some     *)
(* time on their way; the session adds up the axes it saw homing.          *)
(*                                                                         *)
(* The device is external. An axis starts a run at once or ignores the     *)
(* command, also while it is homing or after it is done; position mode     *)
(* ends a run. One assumption about time: a frame arrives before the next  *)
(* one is sent, 20 ms later.                                               *)
(*                                                                         *)
(* Frames come in any phase, so also between the decision to start and the *)
(* start. home_motors takes 5 ms, in which one frame may arrive or be      *)
(* sent; but its send may wait up to 100 ms for a slot, and the worker may *)
(* be held up, so that there may be any number of them. `window` tells     *)
(* these starts apart.                                                     *)
(***************************************************************************)
EXTENDS Integers, FiniteSets

CONSTANTS
    Axes,
    Attempts,    \* starts of the whole hand: 30 in the code
    Restores     \* position-mode commands at the end: 30 in the code

ASSUME HomingAssumption == Attempts \in Nat \ {0} /\ Restores \in Nat \ {0}

VARIABLES
    homing, homed,   \* device: axes on their run, axes with a valid reference
    frame,           \* the status frame on its way, or NoFrame
    view,            \* the status in the session's snapshot
    tracking,        \* track_home_
    observed,        \* observed_home: axes seen homing
    pc,
    attempts,
    restores,        \* position-mode commands sent
    sentAll,         \* sent_all
    cancelled,       \* the token of the call is no longer current
    result,
    window,          \* history: what came between a decision and its start:
                     \* "quiet", a frame "arrived", or after that another was
                     \* sent and the start of this call came "late"
    ran              \* history: axes that ran since the oldest frame on its
                     \* way when the call began

deviceVars == <<homing, homed>>
viewVars   == <<frame, view, tracking, observed>>
callVars   == <<attempts, restores, sentAll, cancelled, result>>
homingVars == <<deviceVars, viewVars, callVars, pc, window, ran>>

Status == [homing |-> homing, homed |-> homed]
StatusFrames == [homing : SUBSET Axes, homed : SUBSET Axes]
NoFrame == [homing |-> {}]

TypeOK ==
    /\ homing \subseteq Axes /\ homed \subseteq Axes
    /\ frame \in StatusFrames \cup {NoFrame}
    /\ view \in StatusFrames
    /\ observed \subseteq Axes /\ ran \subseteq Axes
    /\ pc \in {"idle", "begin", "start", "wait", "retry", "restore", "pause"}
    /\ attempts \in 0 .. Attempts
    /\ restores \in 0 .. Restores
    /\ window \in {"quiet", "arrived", "late"}
    /\ {tracking, sentAll, cancelled, result} \subseteq BOOLEAN

\* The hand may be on a run that an earlier call began.
HomingInit ==
    /\ homing \in SUBSET Axes
    /\ homed = Axes \ homing
    /\ frame = NoFrame
    /\ view = Status
    /\ tracking = FALSE
    /\ observed = {}
    /\ pc = "idle"
    /\ attempts = 0
    /\ restores = 0
    /\ sentAll = FALSE
    /\ cancelled = FALSE
    /\ result = FALSE
    /\ window = "quiet"
    /\ ran = {}

-----------------------------------------------------------------------------
(* The control worker.                                                      *)

Begin ==
    /\ pc = "idle"
    /\ pc' = "begin"
    /\ cancelled' = FALSE
    /\ result' = FALSE
    /\ window' = "quiet"
    /\ ran' = homing \cup frame.homing
    /\ UNCHANGED <<deviceVars, viewVars, attempts, restores, sentAll>>

\* Faulty variant: what an earlier call saw is kept.
ObservedBefore == observed

NothingObserved == {}

TrackHome ==
    /\ pc = "begin"
    /\ pc' = "start"
    /\ tracking' = TRUE
    /\ observed' = NothingObserved
    /\ attempts' = 1
    /\ UNCHANGED <<deviceVars, frame, view, restores, sentAll, cancelled, result, window, ran>>

\* home() returns; the guard object ends tracking.
Leave(ok) ==
    /\ pc' = "idle"
    /\ result' = ok
    /\ tracking' = FALSE
    /\ attempts' = 0
    /\ restores' = 0
    /\ UNCHANGED <<deviceVars, frame, view, observed, sentAll, cancelled, window, ran>>

\* The start command, whose outcome home() does not look at: each axis starts
\* or not, and one that starts may keep its old reference until it is done.
Start(axes, kept) ==
    /\ pc \in {"start", "retry"} /\ ~(pc = "start" /\ cancelled)
    /\ pc' = "wait"
    /\ homing' = homing \cup axes
    /\ homed' = homed \ (axes \ kept)
    /\ ran' = ran \cup axes
    /\ UNCHANGED <<viewVars, callVars, window>>

\* Faulty variant: axes need not be at rest.
DoneMoving == observed = Axes /\ view.homed = Axes

Done == observed = Axes /\ view.homed = Axes /\ view.homing = {}

Finish ==
    /\ pc = "wait" /\ ~cancelled /\ Done
    /\ pc' = "restore"
    /\ sentAll' = TRUE
    /\ UNCHANGED <<deviceVars, viewVars, attempts, restores, cancelled, result, window, ran>>

AttemptsLeft == attempts < Attempts

\* A second after the last start, some axis was not seen homing yet.
Retry ==
    /\ pc = "wait" /\ ~cancelled /\ observed # Axes /\ AttemptsLeft
    /\ pc' = "retry"
    /\ attempts' = attempts + 1
    /\ window' = IF window = "late" THEN "late" ELSE "quiet"
    /\ UNCHANGED <<deviceVars, viewVars, restores, sentAll, cancelled, result, ran>>

\* Faulty variant: the deadline is forgotten.
GiveUpWhenCancelled ==
    /\ pc \in {"start", "wait", "restore", "pause"} /\ cancelled
    /\ Leave(FALSE)

\* The 60 s are over, the attempts are used up, feedback is missing, an axis
\* has an alarm or is disabled, or the call was cancelled.
GiveUp ==
    /\ pc \in {"start", "wait", "restore", "pause"}
    /\ pc = "start" => cancelled
    /\ Leave(FALSE)

\* One of the position-mode commands; they end a run that is not over.
Restore(sent) ==
    /\ pc = "restore" /\ ~cancelled /\ view.homed = Axes
    /\ pc' = "pause"
    /\ restores' = restores + 1
    /\ sentAll' = (sentAll /\ sent)
    /\ homing' = IF sent THEN {} ELSE homing
    /\ homed' = IF sent THEN homed \ homing ELSE homed
    /\ UNCHANGED <<viewVars, attempts, cancelled, result, window, ran>>

NextRestore ==
    /\ pc = "pause" /\ restores < Restores /\ ~cancelled
    /\ pc' = "restore"
    /\ UNCHANGED <<deviceVars, viewVars, callVars, window, ran>>

Succeed ==
    /\ pc = "pause" /\ restores = Restores
    /\ Leave(~cancelled /\ sentAll)

-----------------------------------------------------------------------------
(* The session, the device and other callers.                               *)

Cancel ==
    /\ pc # "idle" /\ ~cancelled
    /\ cancelled' = TRUE
    /\ UNCHANGED <<deviceVars, viewVars, attempts, restores, sentAll, result, pc, window, ran>>

Deciding == pc \in {"start", "retry"}

ReceiveStatus ==
    /\ frame # NoFrame
    /\ view' = frame
    /\ frame' = NoFrame
    /\ observed' = IF tracking THEN observed \cup frame.homing ELSE observed
    /\ window' = IF Deciding /\ window = "quiet" THEN "arrived" ELSE window
    /\ UNCHANGED <<deviceVars, tracking, callVars, pc, ran>>

SendStatus ==
    /\ frame = NoFrame
    /\ frame' = Status
    /\ window' = IF Deciding /\ window = "arrived" THEN "late" ELSE window
    /\ UNCHANGED <<deviceVars, view, tracking, observed, callVars, pc, ran>>

EndRun(a) ==
    /\ a \in homing
    /\ homing' = homing \ {a}
    /\ homed' = homed \cup {a}
    /\ UNCHANGED <<viewVars, callVars, pc, window, ran>>

-----------------------------------------------------------------------------

Worker ==
    \/ TrackHome \/ Finish \/ Retry \/ GiveUp \/ NextRestore \/ Succeed
    \/ \E axes \in SUBSET Axes : \E kept \in SUBSET axes : Start(axes, kept)
    \/ \E sent \in BOOLEAN : Restore(sent)

Environment == Cancel \/ ReceiveStatus \/ SendStatus \/ (\E a \in Axes : EndRun(a))

HomingNext == Begin \/ Worker \/ Environment

HomingSpec == HomingInit /\ [][HomingNext]_homingVars

\* The worker runs and its deadline expires; nothing is assumed of the device.
FairHomingSpec == HomingSpec /\ WF_homingVars(Worker)

-----------------------------------------------------------------------------

\* When home() reports success, every axis has made a run that was seen by this
\* call and is at rest with a valid reference, although runs of an earlier call
\* may have been under way, starts were ignored or repeated for axes that were
\* already done, and every decision was made on old frames, some of which came
\* between a decision and its start (home, set_canfd_data_decode). No start may
\* come later than a status period, which the code does not make sure of: a late
\* one lets home() succeed while axes run.
HomeMeansHomed ==
    [][result' /\ ~result /\ window # "late" =>
           homing = {} /\ homed = Axes /\ ran = Axes]_homingVars

\* Position mode, which would end a run half-way, is not restored while an axis
\* is on its run, unless a start came late (home).
RestoreSparesRuns ==
    [][pc = "restore" /\ pc' = "pause" /\ window # "late" => homing = {}]_homingVars

\* home() ends, whatever the device does (home).
HomeEnds == (pc # "idle") ~> (pc = "idle")
=============================================================================
