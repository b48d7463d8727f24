------------------------------- MODULE GsUsb -------------------------------
(***************************************************************************)
(* The gs_usb adapter backend (src/rphand/backends/gs_usb_winusb.cpp):     *)
(* transmit slots, echoes, reset and drain, start, failure and close.      *)
(*                                                                         *)
(* Two threads use it: the control worker opens it, sends and closes it,   *)
(* the session's receiver thread calls receive() in a loop between opening *)
(* and closing. They share `failed` and `pending` under `mutex`.           *)
(*                                                                         *)
(* The adapter is external. It sends an echo for a frame it transmitted,   *)
(* sooner or later, or loses the frame. The bus arbitrates, so echoes come *)
(* back in any order, and only their number per slot is kept. Records that *)
(* are no echoes change nothing here and are part of ReadNothing.          *)
(***************************************************************************)
EXTENDS Integers, FiniteSets

CONSTANT SlotCount    \* tx_slots: 10

ASSUME SlotCountAssumption == SlotCount \in Nat \ {0}

Slots  == 0 .. SlotCount - 1
NoSlot == -1

VARIABLES
    worker,     \* where the control worker is in open, send or close
    receiver,   \* where the receiver thread is in receive()
    stopping,   \* Session::closed_: the receiver is asked to end
    started,    \* a START may have reached the adapter and no RESET since
    failed,     \* the transport is unusable until it is opened again
    pending,    \* slots of frames whose echo is awaited
    slot,       \* slot of the frame the worker is sending
    echo,       \* slot of the echo the receiver has read
    running,    \* adapter: its channel is started
    flight,     \* adapter: frames of each slot it has yet to transmit
    echoes,     \* echoes of each slot on their way to the host
    lost,       \* history: slots whose frame the adapter lost
    fault,      \* history: USB or the adapter failed since the last opening
    refused     \* history: the adapter was running when we first came, or
                \* a RESET failed, and no RESET has succeeded since

hostVars    == <<started, failed, pending, slot, echo>>
adapterVars == <<running, flight, echoes>>
historyVars == <<lost, fault, refused>>
vars == <<worker, receiver, stopping, hostVars, adapterVars, historyVars>>

WorkerStates   == {"closed", "reset", "drain", "start", "commit", "idle",
                   "send", "sleep", "write", "written", "join", "closeReset",
                   "closeDrain", "free"}
ReceiverStates == {"none", "check", "read", "echo"}

None == [s \in Slots |-> 0]

TypeOK ==
    /\ worker \in WorkerStates
    /\ receiver \in ReceiverStates
    /\ {stopping, started, failed, running, fault, refused} \subseteq BOOLEAN
    /\ pending \subseteq Slots
    /\ slot \in Slots \cup {NoSlot}
    /\ echo \in Slots \cup {NoSlot}
    /\ flight \in [Slots -> Nat]
    /\ echoes \in [Slots -> Nat]
    /\ lost \subseteq Slots

\* The adapter is as an earlier program left it, running or not.
Init ==
    /\ worker = "closed"
    /\ receiver = "none"
    /\ stopping = FALSE
    /\ started = FALSE
    /\ failed = TRUE
    /\ pending = {}
    /\ slot = NoSlot
    /\ echo = NoSlot
    /\ running \in BOOLEAN
    /\ flight = None
    /\ \E old \in SUBSET Slots : echoes = [s \in Slots |-> IF s \in old THEN 1 ELSE 0]
    /\ lost = {}
    /\ fault = FALSE
    /\ refused = running

\* changed.notify_all(): a sleeping send tests its condition again.
Notified == IF worker = "sleep" THEN "send" ELSE worker

-----------------------------------------------------------------------------
(* The control worker opens the adapter.                                    *)

Access ==
    /\ worker = "closed"
    /\ worker' = "reset"
    /\ fault' = FALSE
    /\ UNCHANGED <<receiver, stopping, hostVars, adapterVars, lost, refused>>

\* A configuration request before RESET or START is refused: open() cleans up.
OpenFails ==
    /\ worker \in {"reset", "start"}
    /\ worker' = "free"
    /\ UNCHANGED <<receiver, stopping, hostVars, adapterVars, historyVars>>

\* RESET of reset_and_drain(): the adapter stops and forgets its frames, but
\* what it already handed to USB stays there. A failed request may still have
\* reached the adapter.
Reset(done, reached) ==
    /\ worker \in {"reset", "closeReset"}
    /\ done => reached
    /\ worker' = IF ~done THEN "free"
                 ELSE IF worker = "reset" THEN "drain" ELSE "closeDrain"
    /\ started' = (started /\ ~done)
    /\ running' = (running /\ ~reached)
    /\ flight' = IF reached THEN None ELSE flight
    /\ refused' = (~done /\ (refused \/ running))
    /\ UNCHANGED <<receiver, stopping, failed, pending, slot, echo, echoes, lost, fault>>

\* Faulty variant: only WinUSB's host cache is flushed.
DrainHostOnly == echoes

\* drain_stopped_rx() ended with Quiet; module UsbDrain describes its loop.
Drained == None

Drain(quiet) ==
    /\ worker \in {"drain", "closeDrain"}
    /\ worker' = IF quiet /\ worker = "drain" THEN "start" ELSE "free"
    /\ echoes' = IF quiet THEN Drained ELSE echoes
    /\ UNCHANGED <<receiver, stopping, hostVars, running, flight, historyVars>>

\* Faulty variant: started is set once the request has succeeded.
StartMarkedLate(done, reached) ==
    /\ worker = "start"
    /\ done => reached
    /\ started' = done
    /\ running' = (running \/ reached)
    /\ worker' = IF done THEN "commit" ELSE "free"
    /\ UNCHANGED <<receiver, stopping, failed, pending, slot, echo,
                   flight, echoes, historyVars>>

\* The START request; started is set before it, so that a clean-up resets.
Start(done, reached) ==
    /\ worker = "start"
    /\ done => reached
    /\ started' = TRUE
    /\ running' = (running \/ reached)
    /\ worker' = IF done THEN "commit" ELSE "closeReset"
    /\ UNCHANGED <<receiver, stopping, failed, pending, slot, echo,
                   flight, echoes, historyVars>>

\* The transport becomes usable and the session starts its receiver.
Commit ==
    /\ worker = "commit"
    /\ worker' = "idle"
    /\ failed' = FALSE
    /\ pending' = {}
    /\ lost' = {}
    /\ receiver' = "check"
    /\ UNCHANGED <<stopping, started, slot, echo, adapterVars, fault, refused>>

-----------------------------------------------------------------------------
(* The control worker sends.                                                *)

Send ==
    /\ worker = "idle"
    /\ worker' = "send"
    /\ UNCHANGED <<receiver, stopping, hostVars, adapterVars, historyVars>>

Available == failed \/ pending # Slots

Sleep ==
    /\ worker = "send" /\ ~Available
    /\ worker' = "sleep"
    /\ UNCHANGED <<receiver, stopping, hostVars, adapterVars, historyVars>>

\* wait_for ended, after 100 ms or with a broken transport: nothing is sent.
SendRejected ==
    /\ \/ worker = "sleep"
       \/ worker = "send" /\ (failed \/ ~started)
    /\ worker' = "idle"
    /\ UNCHANGED <<receiver, stopping, hostVars, adapterVars, historyVars>>

\* Faulty variant: slots are used in turn, as if echoes came back in order.
NextSlotInTurn == (slot + 1) % SlotCount

FirstFree == CHOOSE s \in Slots \ pending :
                 \A t \in Slots \ pending : s <= t

\* The slot is taken under the mutex, before the frame is written.
Claim ==
    /\ worker = "send" /\ Available /\ ~failed /\ started
    /\ worker' = "write"
    /\ slot' = FirstFree
    /\ pending' = pending \cup {FirstFree}
    /\ UNCHANGED <<receiver, stopping, started, failed, echo, adapterVars, historyVars>>

\* The adapter has the frame, and may answer before the write returns.
Write ==
    /\ worker = "write"
    /\ worker' = "written"
    /\ flight' = [flight EXCEPT ![slot] = @ + 1]
    /\ UNCHANGED <<receiver, stopping, hostVars, running, echoes, historyVars>>

WriteReturns ==
    /\ worker = "written"
    /\ worker' = "idle"
    /\ UNCHANGED <<receiver, stopping, hostVars, adapterVars, historyVars>>

\* broken(), after a failed or short write.
WriteFails ==
    /\ worker \in {"write", "written"}
    /\ worker' = "idle"
    /\ failed' = TRUE
    /\ fault' = TRUE
    /\ UNCHANGED <<receiver, stopping, started, pending, slot, echo,
                   adapterVars, lost, refused>>

-----------------------------------------------------------------------------
(* The control worker closes.                                               *)

Close ==
    /\ worker = "idle"
    /\ worker' = "join"
    /\ stopping' = TRUE
    /\ UNCHANGED <<receiver, hostVars, adapterVars, historyVars>>

Join ==
    /\ worker = "join" /\ receiver = "none"
    /\ worker' = IF started THEN "closeReset" ELSE "free"
    /\ UNCHANGED <<receiver, stopping, hostVars, adapterVars, historyVars>>

Free ==
    /\ worker = "free"
    /\ worker' = "closed"
    /\ stopping' = FALSE
    /\ started' = FALSE
    /\ failed' = TRUE
    /\ pending' = {}
    /\ lost' = {}
    /\ slot' = NoSlot
    /\ UNCHANGED <<receiver, echo, adapterVars, fault, refused>>

-----------------------------------------------------------------------------
(* The receiver thread: receive() until the session closes or it fails.     *)

\* Faulty variant: a failure of the other thread is not looked at.
CheckStopOnly ==
    /\ receiver = "check"
    /\ receiver' = IF stopping THEN "none" ELSE "read"
    /\ UNCHANGED <<worker, stopping, hostVars, adapterVars, historyVars>>

Check ==
    /\ receiver = "check"
    /\ receiver' = IF stopping \/ failed THEN "none" ELSE "read"
    /\ UNCHANGED <<worker, stopping, hostVars, adapterVars, historyVars>>

\* The read timed out after 20 ms, or the record is no echo.
ReadNothing ==
    /\ receiver = "read"
    /\ receiver' = "check"
    /\ UNCHANGED <<worker, stopping, hostVars, adapterVars, historyVars>>

ReadEcho(s) ==
    /\ receiver = "read" /\ echoes[s] > 0
    /\ receiver' = "echo"
    /\ echo' = s
    /\ echoes' = [echoes EXCEPT ![s] = @ - 1]
    /\ UNCHANGED <<worker, stopping, started, failed, pending, slot,
                   running, flight, historyVars>>

\* broken(): the read failed, or a record is malformed or reports a failure.
ReadFails ==
    /\ receiver = "read"
    /\ receiver' = "none"
    /\ failed' = TRUE
    /\ fault' = TRUE
    /\ worker' = Notified
    /\ UNCHANGED <<stopping, started, pending, slot, echo, adapterVars, lost, refused>>

\* Faulty variant: the waiting send is not woken.
CompleteUnnotified ==
    /\ receiver = "echo" /\ echo \in pending
    /\ receiver' = "check"
    /\ pending' = pending \ {echo}
    /\ echo' = NoSlot
    /\ UNCHANGED <<worker, stopping, started, failed, slot, adapterVars, historyVars>>

Complete ==
    /\ receiver = "echo" /\ echo \in pending
    /\ receiver' = "check"
    /\ pending' = pending \ {echo}
    /\ echo' = NoSlot
    /\ worker' = Notified
    /\ UNCHANGED <<stopping, started, failed, slot, adapterVars, historyVars>>

UnexpectedEcho ==
    /\ receiver = "echo" /\ echo \notin pending
    /\ receiver' = "none"
    /\ failed' = TRUE
    /\ echo' = NoSlot
    /\ worker' = Notified
    /\ UNCHANGED <<stopping, started, pending, slot, adapterVars, historyVars>>

-----------------------------------------------------------------------------
(* The adapter.                                                             *)

Transmit(s) ==
    /\ running /\ flight[s] > 0
    /\ flight' = [flight EXCEPT ![s] = @ - 1]
    /\ echoes' = [echoes EXCEPT ![s] = @ + 1]
    /\ UNCHANGED <<worker, receiver, stopping, hostVars, running, historyVars>>

Lose(s) ==
    /\ running /\ flight[s] > 0
    /\ flight' = [flight EXCEPT ![s] = @ - 1]
    /\ lost' = lost \cup {s}
    /\ UNCHANGED <<worker, receiver, stopping, hostVars, running, echoes, fault, refused>>

\* A faulty adapter repeats an echo, once until the next opening.
Repeat(s) ==
    /\ running /\ ~fault /\ echoes[s] = 0
    /\ echoes' = [echoes EXCEPT ![s] = 1]
    /\ fault' = TRUE
    /\ UNCHANGED <<worker, receiver, stopping, hostVars, running, flight, lost, refused>>

-----------------------------------------------------------------------------

\* Open and close, which the user decides on, and the calls in progress.
Opening ==
    \/ OpenFails
    \/ \E done, reached \in BOOLEAN : Reset(done, reached) \/ Start(done, reached)
    \/ \E quiet \in BOOLEAN : Drain(quiet)
    \/ Commit

Sending == Sleep \/ Claim \/ Write \/ WriteReturns \/ WriteFails

Closing == Join \/ Free

Receiving ==
    \/ Check \/ ReadNothing \/ ReadFails \/ Complete \/ UnexpectedEcho
    \/ \E s \in Slots : ReadEcho(s)

Adapter == \E s \in Slots : Transmit(s) \/ Lose(s) \/ Repeat(s)

Next == Access \/ Opening \/ Send \/ Sending \/ SendRejected \/ Close \/ Closing
        \/ Receiving \/ Adapter

Spec == Init /\ [][Next]_vars

\* Both threads keep running, and what waits in the pipe is read at last. A
\* frame is transmitted or lost at last while it stays in the adapter.
FairSpec ==
    /\ Spec
    /\ WF_vars(Sending) /\ WF_vars(SendRejected /\ worker = "send")
    /\ WF_vars(Receiving)
    /\ \A s \in Slots : SF_vars(ReadEcho(s)) /\ WF_vars(Transmit(s))

-----------------------------------------------------------------------------

InUse == worker \in {"idle", "send", "sleep", "write", "written"}

\* Frames of slot s that are under way in one form or another.
UnderWay(s) ==
    flight[s] + echoes[s] + (IF echo = s THEN 1 ELSE 0)
              + (IF worker = "write" /\ slot = s THEN 1 ELSE 0)
              + (IF s \in lost THEN 1 ELSE 0)

\* No two frames in the adapter carry the same slot, a slot is never free
\* while its frame or echo is under way, and no slot is held without one:
\* echoes complete the frame they belong to, in any order and also before the
\* write returns (send, receive). A repeated echo is a fault of the adapter and
\* excluded: it breaks the transport if its slot is free, and otherwise passes
\* for the echo of a newer frame.
SlotAccounting ==
    InUse /\ ~failed /\ ~fault => \A s \in Slots : UnderWay(s) = (IF s \in pending THEN 1 ELSE 0)

\* A transport fails only because USB or the adapter did: an echo is never
\* taken for an unexpected one, however it races with the send it belongs to,
\* and nothing of an earlier session is received (send, reset_and_drain).
FailureHasCause == InUse /\ failed => fault

\* A closed transport leaves no running adapter behind, also when START timed
\* out, unless a RESET failed (open, close).
ClosedMeansStopped == worker = "closed" /\ running => refused

\* A send that waits for a slot goes on when the adapter answers or fails, not
\* only at its timeout; fairness does not include the timeout (send, receive).
SendGoesOn == worker \in {"send", "sleep"} ~>
                  (worker \notin {"send", "sleep"} \/ lost # {})

\* A failure found while writing reaches the receiver, which tells the session
\* (broken, receive).
FailureReachesReceiver == (failed /\ worker = "idle") ~> (receiver = "none")
=============================================================================
