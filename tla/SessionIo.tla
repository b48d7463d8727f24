----------------------------- MODULE SessionIo -----------------------------
(***************************************************************************)
(* Input and output of a session (src/src/rphand/session.cpp) while a hand *)
(* connects, works and closes: the receiver thread, the pending SDO        *)
(* transaction, the condition variable all waits share, cancellation from  *)
(* other threads, and the connection set-up of src/src/hand.cpp that uses  *)
(* them (open_device, write_feedback_period, configure_feedback).          *)
(*                                                                         *)
(* The control worker is the only thread that waits on `received_`. A wait *)
(* is Evaluate (take receive_mutex_, test the predicate), Sleep (release   *)
(* it), and then a notification or the deadline. The predicate also reads  *)
(* the hand's generation, which other threads change without the mutex.    *)
(*                                                                         *)
(* The CAN bus is two bounded queues. The device answers a request, fails  *)
(* to, or takes its time; what it takes long to answer arrives during a    *)
(* later attempt, a later register or a later connection. Every attempt    *)
(* writes the same value, so `written` is the set of registers that hold   *)
(* it; the device is not restarted.                                        *)
(***************************************************************************)
EXTENDS Integers, Sequences

CONSTANTS
    Registers,   \* number of feedback-period registers, written 1, 2, ... (6)
    Attempts,    \* attempts to write one register (3)
    Repeats,     \* sends of the feedback configuration (10)
    Requests,    \* bound: requests on their way to the device
    Arrivals     \* bound: frames received by the host and not yet read

ASSUME RegistersAssumption == Registers \in Nat \ {0}
ASSUME AttemptsAssumption == Attempts \in Nat \ {0}
ASSUME RepeatsAssumption == Repeats \in Nat \ {0}
ASSUME BoundsAssumption == Requests \in Nat /\ Arrivals \in Nat

VARIABLES
    worker,      \* program counter of the control worker
    waitFor,     \* what it waits for, or last waited for
    register,    \* register being written; Registers + 1 once all are confirmed
    attempt,     \* attempt at this register, or send of the configuration
    rc,          \* code of the last transaction: 0, 2 closed, 6 not sent, 7 unanswered
    cancelled,   \* cancelled(token) of the job the worker runs
    notifying,   \* the cancelling thread has yet to call notify_waiters
    receiver,    \* program counter of the receiver thread
    transport,   \* the transport is open
    closed,      \* closed_
    rxDone,      \* rx_done_
    rxFailed,    \* rx_failed_
    pending,     \* pending_
    reply,       \* answered_ and sdo_: "none", "ack" or "abort"
    fresh,       \* groups whose sequence exceeds the baseline of the wait
    outbox,      \* requests on their way to the device
    inbox,       \* frames on their way to the receiver
    written,     \* device: registers written
    heard        \* history: groups stored since the last register was confirmed

jobVars    == <<register, attempt, rc>>
cancelVars == <<cancelled, notifying>>
rxVars     == <<receiver, transport, closed, rxDone, rxFailed>>
sdoVars    == <<pending, reply>>
feedVars   == <<fresh, heard>>
busVars    == <<outbox, inbox, written>>
vars == <<worker, waitFor, jobVars, cancelVars, rxVars, sdoVars, feedVars, busVars>>

Groups == {"motion", "status"}         \* feedback 0x50 and 0x5A

Frames == [kind : {"ack", "abort"} \cup Groups, of : 0..Registers]

WorkerStates == {"idle", "initial", "begin", "send", "settle", "baseline", "configure",
                 "publish", "open", "awake", "drowsy", "asleep",
                 "close", "stop receiver", "join", "shut"}
Waits == {"answer", "retry", "interval", "feedback", "news"}

TypeOK ==
    /\ worker \in WorkerStates
    /\ waitFor \in Waits
    /\ register \in 1..Registers + 1
    /\ attempt \in Nat \ {0}
    /\ rc \in {0, 2, 6, 7}
    /\ cancelled \in BOOLEAN
    /\ notifying \in BOOLEAN
    /\ receiver \in {"none", "check", "receive", "store"}
    /\ transport \in BOOLEAN
    /\ closed \in BOOLEAN
    /\ rxDone \in BOOLEAN
    /\ rxFailed \in BOOLEAN
    /\ pending \in BOOLEAN
    /\ reply \in {"none", "ack", "abort"}
    /\ fresh \subseteq Groups
    /\ outbox \in Seq(1..Registers)
    /\ inbox \in Seq(Frames)
    /\ written \subseteq 1..Registers
    /\ heard \subseteq Groups

Init ==
    /\ worker = "idle"
    /\ waitFor = "answer"
    /\ register = 1
    /\ attempt = 1
    /\ rc = 0
    /\ cancelled = FALSE
    /\ notifying = FALSE
    /\ receiver = "none"
    /\ transport = FALSE
    /\ closed = TRUE
    /\ rxDone = TRUE
    /\ rxFailed = FALSE
    /\ pending = FALSE
    /\ reply = "none"
    /\ fresh = {}
    /\ outbox = <<>>
    /\ inbox = <<>>
    /\ written = {}
    /\ heard = {}

-----------------------------------------------------------------------------
(* Waiting                                                                  *)

\* Between evaluating its predicate and sleeping the worker holds receive_mutex_.
\* Every other critical section of that mutex is a step of its own.
MutexFree == worker # "drowsy"

\* Faulty variant: the wait for feedback does not look at cancelled().
SatisfiedUncancelled ==
    \/ waitFor # "feedback" /\ cancelled
    \/ waitFor \in {"answer", "feedback"} /\ closed
    \/ waitFor \in {"answer", "feedback", "news"} /\ rxFailed
    \/ waitFor = "answer" /\ reply # "none"
    \/ waitFor = "feedback" /\ fresh = Groups
    \/ waitFor = "news" /\ "status" \in fresh

\* What ends each wait; the pauses do not look at rx_failed_.
Satisfied ==
    \/ cancelled
    \/ waitFor \in {"answer", "feedback"} /\ closed
    \/ waitFor \in {"answer", "feedback", "news"} /\ rxFailed
    \/ waitFor = "answer" /\ reply # "none"
    \/ waitFor = "feedback" /\ fresh = Groups
    \/ waitFor = "news" /\ "status" \in fresh

Wait(what) ==
    /\ worker' = "awake"
    /\ waitFor' = what

\* The code after a wait. A transaction ends under the mutex it waited with.
Resume(timedOut) ==
    /\ worker' = CASE waitFor = "answer"   -> "settle"
                   [] waitFor = "retry"    -> IF cancelled THEN "close" ELSE "begin"
                   [] waitFor = "interval" -> IF cancelled THEN "close" ELSE "configure"
                   [] waitFor = "news"     -> "open"
                   [] waitFor = "feedback" ->
                        IF fresh = Groups /\ ~closed /\ ~rxFailed /\ ~cancelled
                        THEN "publish" ELSE "close"
    /\ attempt' = IF waitFor \in {"retry", "interval"} THEN attempt + 1 ELSE attempt
    /\ IF waitFor = "answer"
       THEN /\ pending' = FALSE
            /\ rc' = IF timedOut THEN 7
                     ELSE IF closed \/ cancelled THEN 2
                     ELSE IF rxFailed THEN 6
                     ELSE IF reply = "abort" THEN 7 ELSE 0
       ELSE UNCHANGED <<pending, rc>>
    /\ UNCHANGED <<waitFor, register, cancelVars, rxVars, reply, feedVars, busVars>>

Evaluate ==
    /\ worker = "awake"
    /\ IF Satisfied
       THEN Resume(FALSE)
       ELSE worker' = "drowsy"
            /\ UNCHANGED <<waitFor, jobVars, cancelVars, rxVars, sdoVars, feedVars, busVars>>

Sleep ==
    /\ worker = "drowsy"
    /\ worker' = "asleep"
    /\ UNCHANGED <<waitFor, jobVars, cancelVars, rxVars, sdoVars, feedVars, busVars>>

\* The deadline: the predicate is tested a last time.
TimeOut ==
    /\ worker = "asleep"
    /\ Resume(~Satisfied)

\* received_.notify_all()
Notify == worker' = IF worker = "asleep" THEN "awake" ELSE worker

-----------------------------------------------------------------------------
(* Cancellation: submit() of an urgent job and disconnect() advance the     *)
(* generation first and call notify_waiters() afterwards.                   *)

Cancel ==
    /\ worker # "idle"
    /\ ~cancelled
    /\ cancelled' = TRUE
    /\ notifying' = TRUE
    /\ UNCHANGED <<worker, waitFor, jobVars, rxVars, sdoVars, feedVars, busVars>>

\* Faulty variant: notify_all without the mutex.
NotifyWaitersUnlocked ==
    /\ notifying
    /\ notifying' = FALSE
    /\ Notify
    /\ UNCHANGED <<waitFor, jobVars, cancelled, rxVars, sdoVars, feedVars, busVars>>

NotifyWaiters ==
    /\ notifying
    /\ MutexFree
    /\ notifying' = FALSE
    /\ Notify
    /\ UNCHANGED <<waitFor, jobVars, cancelled, rxVars, sdoVars, feedVars, busVars>>

-----------------------------------------------------------------------------
(* The receiver thread. A frame is taken from the inbox when it is stored.  *)

CheckDone ==
    /\ receiver = "check"
    /\ receiver' = IF rxDone THEN "none" ELSE "receive"
    /\ UNCHANGED <<worker, waitFor, jobVars, cancelVars, transport, closed, rxDone,
                   rxFailed, sdoVars, feedVars, busVars>>

\* receive() returns a frame, or nothing after 20 ms.
Receive ==
    /\ receiver = "receive"
    /\ receiver' = IF inbox = <<>> THEN "check" ELSE "store"
    /\ UNCHANGED <<worker, waitFor, jobVars, cancelVars, transport, closed, rxDone,
                   rxFailed, sdoVars, feedVars, busVars>>

ReceiveError ==
    /\ receiver = "receive"
    /\ MutexFree
    /\ rxFailed' = TRUE
    /\ receiver' = "none"
    /\ Notify
    /\ UNCHANGED <<waitFor, jobVars, cancelVars, transport, closed, rxDone, sdoVars,
                   feedVars, busVars>>

\* Faulty variant: the register a reply belongs to is not compared.
MatchesAnyRegister(frame) ==
    /\ pending
    /\ reply = "none"

Matches(frame) ==
    /\ pending
    /\ reply = "none"
    /\ frame.of = register

\* set_canfd_data_decode()
Store ==
    /\ receiver = "store"
    /\ MutexFree
    /\ inbox # <<>>
    /\ inbox' = Tail(inbox)
    /\ receiver' = "check"
    /\ LET frame == Head(inbox) IN
       \/ /\ ~closed
          /\ frame.kind \in Groups
          /\ fresh' = fresh \cup {frame.kind}
          /\ heard' = heard \cup {frame.kind}
          /\ Notify
          /\ UNCHANGED reply
       \/ /\ ~closed
          /\ frame.kind \notin Groups
          /\ Matches(frame)
          /\ reply' = frame.kind
          /\ Notify
          /\ UNCHANGED feedVars
       \/ /\ closed \/ (frame.kind \notin Groups /\ ~Matches(frame))
          /\ UNCHANGED <<worker, reply, feedVars>>
    /\ UNCHANGED <<waitFor, jobVars, cancelVars, transport, closed, rxDone, rxFailed,
                   pending, outbox, written>>

-----------------------------------------------------------------------------
(* The device and the bus                                                   *)

CanDeliver == transport /\ Len(inbox) < Arrivals

\* What becomes of a request: lost, or carried out or refused, with an answer
\* or (the answer being lost, or no transport open) without one.
ServeRequest ==
    /\ outbox # <<>>
    /\ outbox' = Tail(outbox)
    /\ \E kind \in {"ack", "abort"}, answered \in BOOLEAN :
          /\ written' = IF kind = "ack" THEN written \cup {Head(outbox)} ELSE written
          /\ answered => CanDeliver
          /\ inbox' = IF answered THEN Append(inbox, [kind |-> kind, of |-> Head(outbox)])
                      ELSE inbox
    /\ UNCHANGED <<worker, waitFor, jobVars, cancelVars, rxVars, sdoVars, feedVars>>

SendFeedback(g) ==
    /\ CanDeliver
    /\ inbox' = Append(inbox, [kind |-> g, of |-> 0])
    /\ UNCHANGED <<worker, waitFor, jobVars, cancelVars, rxVars, sdoVars, feedVars,
                   outbox, written>>

-----------------------------------------------------------------------------
(* Opening: open_transport(), initial()                                     *)

\* A new job has a valid token. It fails when the transport cannot be opened
\* or the receiver thread cannot be started.
OpenTransport ==
    /\ worker = "idle"
    /\ cancelled' = FALSE
    /\ rxFailed' = FALSE
    /\ fresh' = {}
    /\ \/ /\ transport' = TRUE
          /\ rxDone' = FALSE
          /\ receiver' = "check"
          /\ worker' = "initial"
       \/ /\ transport' \in BOOLEAN
          /\ rxDone' = (rxDone /\ ~transport')
          /\ worker' = "close"
          /\ UNCHANGED receiver
    /\ UNCHANGED <<waitFor, jobVars, notifying, closed, sdoVars, heard, busVars>>

Initial ==
    /\ worker = "initial"
    /\ closed' = FALSE
    /\ fresh' = {}
    /\ register' = 1
    /\ attempt' = 1
    /\ worker' = "begin"
    /\ UNCHANGED <<waitFor, rc, cancelVars, receiver, transport, rxDone, rxFailed,
                   sdoVars, heard, busVars>>

-----------------------------------------------------------------------------
(* write_feedback_period(): one transaction per attempt                     *)

GiveUp == cancelled \/ rxFailed

BeginRequest ==
    /\ worker = "begin"
    /\ IF GiveUp
       THEN worker' = "close" /\ UNCHANGED sdoVars
       ELSE worker' = "send" /\ pending' = TRUE /\ reply' = "none"
    /\ UNCHANGED <<waitFor, jobVars, cancelVars, rxVars, feedVars, busVars>>

\* The request goes out (a full queue refuses it, as does a broken link), or the transaction ends without waiting.
SendRequest ==
    /\ worker = "send"
    /\ \/ /\ ~cancelled
          /\ Len(outbox) < Requests
          /\ outbox' = Append(outbox, register)
          /\ Wait("answer")
          /\ UNCHANGED <<pending, rc>>
       \/ /\ rc' = IF cancelled THEN 2 ELSE 6
          /\ pending' = FALSE
          /\ worker' = "settle"
          /\ UNCHANGED <<waitFor, outbox>>
    /\ UNCHANGED <<register, attempt, cancelVars, rxVars, reply, feedVars, inbox, written>>

Confirmed == rc = 0 /\ reply = "ack"

\* A refused send or an unanswered request; an abort is final.
Retryable == reply # "abort" /\ (rc = 6 \/ (rc = 7 /\ reply = "none"))

LastRegister == register = Registers

Settle ==
    /\ worker = "settle"
    /\ \/ /\ ~GiveUp
          /\ Confirmed
          /\ register' = register + 1
          /\ attempt' = 1
          /\ worker' = IF LastRegister THEN "baseline" ELSE "begin"
          /\ heard' = {}
          /\ UNCHANGED waitFor
       \/ /\ ~GiveUp
          /\ Retryable
          /\ attempt < Attempts
          /\ Wait("retry")
          /\ UNCHANGED <<register, attempt, heard>>
       \/ /\ GiveUp \/ ~(Confirmed \/ (Retryable /\ attempt < Attempts))
          /\ worker' = "close"
          /\ UNCHANGED <<waitFor, register, attempt, heard>>
    /\ UNCHANGED <<rc, cancelVars, rxVars, sdoVars, fresh, busVars>>

-----------------------------------------------------------------------------
(* configure_feedback() and the end of open_device()                        *)

\* Faulty variant: feedback counts since initial(), not since this point.
BaselineOfInitial ==
    /\ worker = "baseline"
    /\ worker' = "configure"
    /\ UNCHANGED <<waitFor, jobVars, cancelVars, rxVars, sdoVars, feedVars, busVars>>

Baseline ==
    /\ worker = "baseline"
    /\ fresh' = {}
    /\ worker' = "configure"
    /\ UNCHANGED <<waitFor, jobVars, cancelVars, rxVars, sdoVars, heard, busVars>>

\* One send of the configuration: refused, followed by a pause, or the last one.
Configure ==
    /\ worker = "configure"
    /\ \/ worker' = "close" /\ UNCHANGED waitFor
       \/ ~GiveUp /\ attempt < Repeats /\ Wait("interval")
       \/ ~GiveUp /\ attempt = Repeats /\ Wait("feedback")
    /\ UNCHANGED <<jobVars, cancelVars, rxVars, sdoVars, feedVars, busVars>>

Publish ==
    /\ worker = "publish"
    /\ worker' = IF GiveUp THEN "close" ELSE "open"
    /\ UNCHANGED <<waitFor, jobVars, cancelVars, rxVars, sdoVars, feedVars, busVars>>

\* A later job waits for a status newer than its baseline (wait_for_status).
AwaitStatus ==
    /\ worker = "open"
    /\ cancelled' = FALSE
    /\ fresh' = fresh \ {"status"}
    /\ Wait("news")
    /\ UNCHANGED <<jobVars, notifying, rxVars, sdoVars, heard, busVars>>

Disconnect ==
    /\ worker = "open"
    /\ worker' = "close"
    /\ UNCHANGED <<waitFor, jobVars, cancelVars, rxVars, sdoVars, feedVars, busVars>>

-----------------------------------------------------------------------------
(* close()                                                                  *)

Close ==
    /\ worker = "close"
    /\ closed' = TRUE
    /\ worker' = "stop receiver"
    /\ UNCHANGED <<waitFor, jobVars, cancelVars, receiver, transport, rxDone, rxFailed,
                   sdoVars, feedVars, busVars>>

StopReceiver ==
    /\ worker = "stop receiver"
    /\ rxDone' = TRUE
    /\ worker' = "join"
    /\ UNCHANGED <<waitFor, jobVars, cancelVars, receiver, transport, closed, rxFailed,
                   sdoVars, feedVars, busVars>>

\* Faulty variant: the transport is closed under a running receiver.
JoinReceiverLater ==
    /\ worker = "join"
    /\ worker' = "shut"
    /\ UNCHANGED <<waitFor, jobVars, cancelVars, rxVars, sdoVars, feedVars, busVars>>

JoinReceiver ==
    /\ worker = "join"
    /\ receiver = "none"
    /\ worker' = "shut"
    /\ UNCHANGED <<waitFor, jobVars, cancelVars, rxVars, sdoVars, feedVars, busVars>>

CloseTransport ==
    /\ worker = "shut"
    /\ transport' = FALSE
    /\ inbox' = <<>>
    /\ worker' = "idle"
    /\ UNCHANGED <<waitFor, jobVars, cancelVars, receiver, closed, rxDone, rxFailed,
                   sdoVars, feedVars, outbox, written>>

-----------------------------------------------------------------------------
Waiting == Evaluate \/ Sleep

SettingUp ==
    \/ Initial \/ BeginRequest \/ SendRequest \/ Settle \/ Baseline \/ Configure \/ Publish

Closing == Close \/ StopReceiver \/ JoinReceiver \/ CloseTransport

Receiver == CheckDone \/ Receive \/ Store \/ ReceiveError

Environment == ServeRequest \/ (\E g \in Groups : SendFeedback(g)) \/ Cancel \/ NotifyWaiters

Next ==
    \/ OpenTransport \/ SettingUp \/ Waiting \/ TimeOut
    \/ AwaitStatus \/ Disconnect \/ Closing
    \/ Receiver \/ Environment

Spec == Init /\ [][Next]_vars

\* Threads keep running once they are started. No deadline has to expire, no
\* frame has to arrive, and no user has to connect or disconnect.
FairSpec ==
    /\ Spec
    /\ WF_vars(SettingUp)
    /\ WF_vars(Waiting)
    /\ WF_vars(Closing)
    /\ WF_vars(Receiver)
    /\ WF_vars(NotifyWaiters)

-----------------------------------------------------------------------------
(* Properties                                                               *)

\* A register the set-up has left behind was really written by the device, though
\* answers of earlier attempts, registers and connections arrive at any time
\* (session.cpp:182-192, the retries of hand.cpp:148-168).
ConfirmedAreWritten == \A r \in 1..Registers : r < register => r \in written

\* A waiter whose wait is over is not left sleeping until its deadline: either it
\* was woken or the thread that ended the wait has yet to notify it. This is why
\* notify_waiters takes the mutex (session.cpp:67-71).
NoLostWakeup == worker = "asleep" /\ Satisfied => notifying

\* The receiver never uses a transport that close() has closed (session.cpp:103-110).
ReceiverHasTransport == receiver # "none" => transport

\* A connection is published only after both feedback groups were received later
\* than the last register was confirmed (hand.cpp:173-183).
OpenOnNewFeedback == worker \in {"publish", "open"} => heard = Groups

\* A connect that is cancelled ends without any deadline having to expire: it has
\* closed everything, or had succeeded already (hand.cpp:185-195).
Connecting == worker \notin {"idle", "open"}
CancelledConnectEnds == (cancelled /\ Connecting) ~> ~Connecting
=============================================================================
