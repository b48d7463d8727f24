-------------------------- MODULE SessionIo_proofs --------------------------
(***************************************************************************)
(* Proofs about SessionIo, for any number of registers, attempts and sends *)
(* and any bounds on the bus.                                              *)
(***************************************************************************)
EXTENDS SessionIo, TLAPS

USE RegistersAssumption, AttemptsAssumption, RepeatsAssumption

\* The worker is in a wait for `what`.
WaitingFor(what) == worker \in {"awake", "drowsy", "asleep"} /\ waitFor = what

\* The worker is inside transact_sdo() or looks at its result.
Transacting == worker \in {"send", "settle"} \/ WaitingFor("answer")

\* The register is one of the hand's until all are confirmed.
RegisterInv == Transacting \/ worker = "begin" \/ WaitingFor("retry") => register <= Registers

\* TypeOK in three parts.
ControlTypes ==
    /\ worker \in WorkerStates
    /\ waitFor \in Waits
    /\ register \in 1..Registers + 1
    /\ attempt \in Nat \ {0}
    /\ rc \in {0, 2, 6, 7}
    /\ receiver \in {"none", "check", "receive", "store"}

FlagTypes ==
    /\ cancelled \in BOOLEAN
    /\ notifying \in BOOLEAN
    /\ transport \in BOOLEAN
    /\ closed \in BOOLEAN
    /\ rxDone \in BOOLEAN
    /\ rxFailed \in BOOLEAN
    /\ pending \in BOOLEAN

BusTypes ==
    /\ reply \in {"none", "ack", "abort"}
    /\ fresh \subseteq Groups
    /\ outbox \in Seq(1..Registers)
    /\ inbox \in Seq(Frames)
    /\ written \subseteq 1..Registers
    /\ heard \subseteq Groups

\* An answer is taken only during a transaction, and acknowledgements tell the truth.
AnswerInv ==
    /\ ConfirmedAreWritten
    /\ pending => worker = "send" \/ WaitingFor("answer")
    /\ \A i \in 1..Len(inbox) : inbox[i].kind = "ack" => inbox[i].of \in written
    /\ Transacting /\ reply = "ack" => register \in written

\* A worker that is asleep or about to sleep misses nothing but a cancellation whose
\* notification is still to come.
WakeInv == worker \in {"drowsy", "asleep"} /\ Satisfied => notifying

\* The receiver runs only between open_transport() and its join.
ReceiverInv ==
    /\ ReceiverHasTransport
    /\ worker \in {"idle", "shut"} => receiver = "none"

\* Since the baseline, what the wait has seen was received after the registers.
FeedbackInv ==
    /\ worker = "configure" \/ WaitingFor("interval") \/ WaitingFor("feedback")
         => fresh \subseteq heard
    /\ worker \in {"publish", "open"} \/ WaitingFor("news") => heard = Groups

-----------------------------------------------------------------------------
(* Each part of the invariant is kept by every step                         *)

LEMMA RegisterStep ==
    ASSUME TypeOK, RegisterInv, [Next]_vars
    PROVE  RegisterInv'
<1> USE DEF TypeOK, RegisterInv, Transacting, WaitingFor, Waits, WorkerStates
<1>1. CASE OpenTransport
    BY <1>1 DEF OpenTransport, jobVars, sdoVars, busVars
<1>2. CASE Initial
    BY <1>2 DEF Initial, cancelVars, sdoVars, busVars
<1>3. CASE BeginRequest
    BY <1>3 DEF BeginRequest, GiveUp, jobVars, cancelVars, rxVars, sdoVars, feedVars,
       busVars
<1>4. CASE SendRequest
    BY <1>4 DEF SendRequest, Wait, cancelVars, rxVars, feedVars
<1>5. CASE Settle
    BY <1>5 DEF Settle, Wait, GiveUp, LastRegister, Confirmed, Retryable, cancelVars,
       rxVars, sdoVars, busVars
<1>6. CASE Baseline
    BY <1>6 DEF Baseline, jobVars, cancelVars, rxVars, sdoVars, busVars
<1>7. CASE Configure
    BY <1>7 DEF Configure, Wait, GiveUp, jobVars, cancelVars, rxVars, sdoVars, feedVars,
       busVars
<1>8. CASE Publish
    BY <1>8 DEF Publish, GiveUp, jobVars, cancelVars, rxVars, sdoVars, feedVars, busVars
<1>9. CASE Evaluate
    BY <1>9 DEF Evaluate, Resume, jobVars, cancelVars, rxVars, sdoVars, feedVars, busVars
<1>10. CASE Sleep
    BY <1>10 DEF Sleep, jobVars, cancelVars, rxVars, sdoVars, feedVars, busVars
<1>11. CASE TimeOut
    BY <1>11 DEF TimeOut, Resume, cancelVars, rxVars, feedVars, busVars
<1>12. CASE AwaitStatus
    BY <1>12 DEF AwaitStatus, Wait, jobVars, rxVars, sdoVars, busVars
<1>13. CASE Disconnect
    BY <1>13 DEF Disconnect, jobVars, cancelVars, rxVars, sdoVars, feedVars, busVars
<1>14. CASE Close
    BY <1>14 DEF Close, jobVars, cancelVars, sdoVars, feedVars, busVars
<1>15. CASE StopReceiver
    BY <1>15 DEF StopReceiver, jobVars, cancelVars, sdoVars, feedVars, busVars
<1>16. CASE JoinReceiver
    BY <1>16 DEF JoinReceiver, jobVars, cancelVars, rxVars, sdoVars, feedVars, busVars
<1>17. CASE CloseTransport
    BY <1>17 DEF CloseTransport, jobVars, cancelVars, sdoVars, feedVars
<1>18. CASE CheckDone
    BY <1>18 DEF CheckDone, jobVars, cancelVars, sdoVars, feedVars, busVars
<1>19. CASE Receive
    BY <1>19 DEF Receive, jobVars, cancelVars, sdoVars, feedVars, busVars
<1>20. CASE Store
    BY <1>20 DEF Store, Notify, jobVars, cancelVars, feedVars
<1>21. CASE ReceiveError
    BY <1>21 DEF ReceiveError, Notify, jobVars, cancelVars, sdoVars, feedVars, busVars
<1>22. CASE ServeRequest
    BY <1>22 DEF ServeRequest, jobVars, cancelVars, rxVars, sdoVars, feedVars
<1>23. ASSUME NEW g \in Groups, SendFeedback(g) PROVE RegisterInv'
    BY <1>23 DEF SendFeedback, jobVars, cancelVars, rxVars, sdoVars, feedVars
<1>24. CASE Cancel
    BY <1>24 DEF Cancel, jobVars, rxVars, sdoVars, feedVars, busVars
<1>25. CASE NotifyWaiters
    BY <1>25 DEF NotifyWaiters, Notify, jobVars, rxVars, sdoVars, feedVars, busVars
<1>26. CASE UNCHANGED vars
    BY <1>26 DEF vars, jobVars, cancelVars, rxVars, sdoVars, feedVars, busVars
<1> QED
    BY <1>1, <1>2, <1>3, <1>4, <1>5, <1>6, <1>7, <1>8, <1>9, <1>10, <1>11, <1>12, <1>13,
       <1>14, <1>15, <1>16, <1>17, <1>18, <1>19, <1>20, <1>21, <1>22, <1>23, <1>24, <1>25, <1>26
    DEF Next, SettingUp, Waiting, Closing, Receiver, Environment

LEMMA WakeStep ==
    ASSUME TypeOK, WakeInv, [Next]_vars
    PROVE  WakeInv'
<1> USE DEF TypeOK, WakeInv, Satisfied, MutexFree
<1>1. CASE OpenTransport
    BY <1>1 DEF OpenTransport, jobVars, sdoVars, busVars
<1>2. CASE Initial
    BY <1>2 DEF Initial, cancelVars, sdoVars, busVars
<1>3. CASE BeginRequest
    BY <1>3 DEF BeginRequest, GiveUp, jobVars, cancelVars, rxVars, sdoVars, feedVars,
       busVars
<1>4. CASE SendRequest
    BY <1>4 DEF SendRequest, Wait, cancelVars, rxVars, feedVars
<1>5. CASE Settle
    BY <1>5 DEF Settle, Wait, GiveUp, LastRegister, Confirmed, Retryable, cancelVars,
       rxVars, sdoVars, busVars
<1>6. CASE Baseline
    BY <1>6 DEF Baseline, jobVars, cancelVars, rxVars, sdoVars, busVars
<1>7. CASE Configure
    BY <1>7 DEF Configure, Wait, GiveUp, jobVars, cancelVars, rxVars, sdoVars, feedVars,
       busVars
<1>8. CASE Publish
    BY <1>8 DEF Publish, GiveUp, jobVars, cancelVars, rxVars, sdoVars, feedVars, busVars
<1>9. CASE Evaluate
  <2>1. CASE Satisfied
    <3>1. Resume(FALSE)
      BY <1>9, <2>1 DEF Evaluate
    <3>2. worker' \notin {"drowsy", "asleep"}
      BY <3>1 DEF Resume, Waits
    <3> QED BY <3>2
  <2>2. CASE ~Satisfied
    <3>1. UNCHANGED <<waitFor, cancelled, closed, rxFailed, reply, fresh>>
      BY <1>9, <2>2 DEF Evaluate, jobVars, cancelVars, rxVars, sdoVars, feedVars, busVars
    <3>2. ~Satisfied'
      BY <2>2, <3>1
    <3> QED BY <3>2
  <2> QED BY <2>1, <2>2
<1>10. CASE Sleep
    BY <1>10 DEF Sleep, jobVars, cancelVars, rxVars, sdoVars, feedVars, busVars
<1>11. CASE TimeOut
    BY <1>11 DEF TimeOut, Resume, cancelVars, rxVars, feedVars, busVars
<1>12. CASE AwaitStatus
    BY <1>12 DEF AwaitStatus, Wait, jobVars, rxVars, sdoVars, busVars
<1>13. CASE Disconnect
    BY <1>13 DEF Disconnect, jobVars, cancelVars, rxVars, sdoVars, feedVars, busVars
<1>14. CASE Close
    BY <1>14 DEF Close, jobVars, cancelVars, sdoVars, feedVars, busVars
<1>15. CASE StopReceiver
    BY <1>15 DEF StopReceiver, jobVars, cancelVars, sdoVars, feedVars, busVars
<1>16. CASE JoinReceiver
    BY <1>16 DEF JoinReceiver, jobVars, cancelVars, rxVars, sdoVars, feedVars, busVars
<1>17. CASE CloseTransport
    BY <1>17 DEF CloseTransport, jobVars, cancelVars, sdoVars, feedVars
<1>18. CASE CheckDone
    BY <1>18 DEF CheckDone, jobVars, cancelVars, sdoVars, feedVars, busVars
<1>19. CASE Receive
    BY <1>19 DEF Receive, jobVars, cancelVars, sdoVars, feedVars, busVars
<1>20. CASE Store
    BY <1>20 DEF Store, Notify, jobVars, cancelVars, feedVars
<1>21. CASE ReceiveError
    BY <1>21 DEF ReceiveError, Notify, jobVars, cancelVars, sdoVars, feedVars, busVars
<1>22. CASE ServeRequest
    BY <1>22 DEF ServeRequest, jobVars, cancelVars, rxVars, sdoVars, feedVars
<1>23. ASSUME NEW g \in Groups, SendFeedback(g) PROVE WakeInv'
    BY <1>23 DEF SendFeedback, jobVars, cancelVars, rxVars, sdoVars, feedVars
<1>24. CASE Cancel
    BY <1>24 DEF Cancel, jobVars, rxVars, sdoVars, feedVars, busVars
<1>25. CASE NotifyWaiters
    BY <1>25 DEF NotifyWaiters, Notify, jobVars, rxVars, sdoVars, feedVars, busVars
<1>26. CASE UNCHANGED vars
    BY <1>26 DEF vars, jobVars, cancelVars, rxVars, sdoVars, feedVars, busVars
<1> QED
    BY <1>1, <1>2, <1>3, <1>4, <1>5, <1>6, <1>7, <1>8, <1>9, <1>10, <1>11, <1>12, <1>13,
       <1>14, <1>15, <1>16, <1>17, <1>18, <1>19, <1>20, <1>21, <1>22, <1>23, <1>24, <1>25, <1>26
    DEF Next, SettingUp, Waiting, Closing, Receiver, Environment

LEMMA ReceiverStep ==
    ASSUME TypeOK, ReceiverInv, [Next]_vars
    PROVE  ReceiverInv'
<1> USE DEF TypeOK, ReceiverInv, ReceiverHasTransport, Waits
<1>1. CASE OpenTransport
    BY <1>1 DEF OpenTransport, jobVars, sdoVars, busVars
<1>2. CASE Initial
    BY <1>2 DEF Initial, cancelVars, sdoVars, busVars
<1>3. CASE BeginRequest
    BY <1>3 DEF BeginRequest, GiveUp, jobVars, cancelVars, rxVars, sdoVars, feedVars,
       busVars
<1>4. CASE SendRequest
    BY <1>4 DEF SendRequest, Wait, cancelVars, rxVars, feedVars
<1>5. CASE Settle
    BY <1>5 DEF Settle, Wait, GiveUp, LastRegister, Confirmed, Retryable, cancelVars,
       rxVars, sdoVars, busVars
<1>6. CASE Baseline
    BY <1>6 DEF Baseline, jobVars, cancelVars, rxVars, sdoVars, busVars
<1>7. CASE Configure
    BY <1>7 DEF Configure, Wait, GiveUp, jobVars, cancelVars, rxVars, sdoVars, feedVars,
       busVars
<1>8. CASE Publish
    BY <1>8 DEF Publish, GiveUp, jobVars, cancelVars, rxVars, sdoVars, feedVars, busVars
<1>9. CASE Evaluate
    BY <1>9 DEF Evaluate, Resume, jobVars, cancelVars, rxVars, sdoVars, feedVars, busVars
<1>10. CASE Sleep
    BY <1>10 DEF Sleep, jobVars, cancelVars, rxVars, sdoVars, feedVars, busVars
<1>11. CASE TimeOut
    BY <1>11 DEF TimeOut, Resume, cancelVars, rxVars, feedVars, busVars
<1>12. CASE AwaitStatus
    BY <1>12 DEF AwaitStatus, Wait, jobVars, rxVars, sdoVars, busVars
<1>13. CASE Disconnect
    BY <1>13 DEF Disconnect, jobVars, cancelVars, rxVars, sdoVars, feedVars, busVars
<1>14. CASE Close
    BY <1>14 DEF Close, jobVars, cancelVars, sdoVars, feedVars, busVars
<1>15. CASE StopReceiver
    BY <1>15 DEF StopReceiver, jobVars, cancelVars, sdoVars, feedVars, busVars
<1>16. CASE JoinReceiver
    BY <1>16 DEF JoinReceiver, jobVars, cancelVars, rxVars, sdoVars, feedVars, busVars
<1>17. CASE CloseTransport
    BY <1>17 DEF CloseTransport, jobVars, cancelVars, sdoVars, feedVars
<1>18. CASE CheckDone
    BY <1>18 DEF CheckDone, jobVars, cancelVars, sdoVars, feedVars, busVars
<1>19. CASE Receive
    BY <1>19 DEF Receive, jobVars, cancelVars, sdoVars, feedVars, busVars
<1>20. CASE Store
    BY <1>20 DEF Store, Notify, jobVars, cancelVars, feedVars
<1>21. CASE ReceiveError
    BY <1>21 DEF ReceiveError, Notify, jobVars, cancelVars, sdoVars, feedVars, busVars
<1>22. CASE ServeRequest
    BY <1>22 DEF ServeRequest, jobVars, cancelVars, rxVars, sdoVars, feedVars
<1>23. ASSUME NEW g \in Groups, SendFeedback(g) PROVE ReceiverInv'
    BY <1>23 DEF SendFeedback, jobVars, cancelVars, rxVars, sdoVars, feedVars
<1>24. CASE Cancel
    BY <1>24 DEF Cancel, jobVars, rxVars, sdoVars, feedVars, busVars
<1>25. CASE NotifyWaiters
    BY <1>25 DEF NotifyWaiters, Notify, jobVars, rxVars, sdoVars, feedVars, busVars
<1>26. CASE UNCHANGED vars
    BY <1>26 DEF vars, jobVars, cancelVars, rxVars, sdoVars, feedVars, busVars
<1> QED
    BY <1>1, <1>2, <1>3, <1>4, <1>5, <1>6, <1>7, <1>8, <1>9, <1>10, <1>11, <1>12, <1>13,
       <1>14, <1>15, <1>16, <1>17, <1>18, <1>19, <1>20, <1>21, <1>22, <1>23, <1>24, <1>25, <1>26
    DEF Next, SettingUp, Waiting, Closing, Receiver, Environment

LEMMA FeedbackStep ==
    ASSUME TypeOK, FeedbackInv, [Next]_vars
    PROVE  FeedbackInv'
<1> USE DEF TypeOK, FeedbackInv, WaitingFor, Waits, Groups
<1>1. CASE OpenTransport
    BY <1>1 DEF OpenTransport, jobVars, sdoVars, busVars
<1>2. CASE Initial
    BY <1>2 DEF Initial, cancelVars, sdoVars, busVars
<1>3. CASE BeginRequest
    BY <1>3 DEF BeginRequest, GiveUp, jobVars, cancelVars, rxVars, sdoVars, feedVars,
       busVars
<1>4. CASE SendRequest
    BY <1>4 DEF SendRequest, Wait, cancelVars, rxVars, feedVars
<1>5. CASE Settle
    BY <1>5 DEF Settle, Wait, GiveUp, LastRegister, Confirmed, Retryable, cancelVars,
       rxVars, sdoVars, busVars
<1>6. CASE Baseline
    BY <1>6 DEF Baseline, jobVars, cancelVars, rxVars, sdoVars, busVars
<1>7. CASE Configure
    BY <1>7 DEF Configure, Wait, GiveUp, jobVars, cancelVars, rxVars, sdoVars, feedVars,
       busVars
<1>8. CASE Publish
    BY <1>8 DEF Publish, GiveUp, jobVars, cancelVars, rxVars, sdoVars, feedVars, busVars
<1>9. CASE Evaluate
    BY <1>9 DEF Evaluate, Resume, jobVars, cancelVars, rxVars, sdoVars, feedVars, busVars
<1>10. CASE Sleep
    BY <1>10 DEF Sleep, jobVars, cancelVars, rxVars, sdoVars, feedVars, busVars
<1>11. CASE TimeOut
    BY <1>11 DEF TimeOut, Resume, cancelVars, rxVars, feedVars, busVars
<1>12. CASE AwaitStatus
    BY <1>12 DEF AwaitStatus, Wait, jobVars, rxVars, sdoVars, busVars
<1>13. CASE Disconnect
    BY <1>13 DEF Disconnect, jobVars, cancelVars, rxVars, sdoVars, feedVars, busVars
<1>14. CASE Close
    BY <1>14 DEF Close, jobVars, cancelVars, sdoVars, feedVars, busVars
<1>15. CASE StopReceiver
    BY <1>15 DEF StopReceiver, jobVars, cancelVars, sdoVars, feedVars, busVars
<1>16. CASE JoinReceiver
    BY <1>16 DEF JoinReceiver, jobVars, cancelVars, rxVars, sdoVars, feedVars, busVars
<1>17. CASE CloseTransport
    BY <1>17 DEF CloseTransport, jobVars, cancelVars, sdoVars, feedVars
<1>18. CASE CheckDone
    BY <1>18 DEF CheckDone, jobVars, cancelVars, sdoVars, feedVars, busVars
<1>19. CASE Receive
    BY <1>19 DEF Receive, jobVars, cancelVars, sdoVars, feedVars, busVars
<1>20. CASE Store
    BY <1>20 DEF Store, Notify, jobVars, cancelVars, feedVars
<1>21. CASE ReceiveError
    BY <1>21 DEF ReceiveError, Notify, jobVars, cancelVars, sdoVars, feedVars, busVars
<1>22. CASE ServeRequest
    BY <1>22 DEF ServeRequest, jobVars, cancelVars, rxVars, sdoVars, feedVars
<1>23. ASSUME NEW g \in Groups, SendFeedback(g) PROVE FeedbackInv'
    BY <1>23 DEF SendFeedback, jobVars, cancelVars, rxVars, sdoVars, feedVars
<1>24. CASE Cancel
    BY <1>24 DEF Cancel, jobVars, rxVars, sdoVars, feedVars, busVars
<1>25. CASE NotifyWaiters
    BY <1>25 DEF NotifyWaiters, Notify, jobVars, rxVars, sdoVars, feedVars, busVars
<1>26. CASE UNCHANGED vars
    BY <1>26 DEF vars, jobVars, cancelVars, rxVars, sdoVars, feedVars, busVars
<1> QED
    BY <1>1, <1>2, <1>3, <1>4, <1>5, <1>6, <1>7, <1>8, <1>9, <1>10, <1>11, <1>12, <1>13,
       <1>14, <1>15, <1>16, <1>17, <1>18, <1>19, <1>20, <1>21, <1>22, <1>23, <1>24, <1>25, <1>26
    DEF Next, SettingUp, Waiting, Closing, Receiver, Environment

LEMMA AnswerStep ==
    ASSUME TypeOK, TypeOK', RegisterInv, AnswerInv, [Next]_vars
    PROVE  AnswerInv'
<1> USE DEF TypeOK, RegisterInv, AnswerInv, ConfirmedAreWritten, Transacting, WaitingFor, Waits, Frames, Groups
<1>1. CASE OpenTransport
    BY <1>1 DEF OpenTransport, jobVars, sdoVars, busVars
<1>2. CASE Initial
    BY <1>2 DEF Initial, cancelVars, sdoVars, busVars
<1>3. CASE BeginRequest
    BY <1>3 DEF BeginRequest, GiveUp, jobVars, cancelVars, rxVars, sdoVars, feedVars,
       busVars
<1>4. CASE SendRequest
    BY <1>4 DEF SendRequest, Wait, cancelVars, rxVars, feedVars
<1>5. CASE Settle
  <2>1. UNCHANGED <<inbox, written, pending, reply>> /\ Transacting /\ register \in 1..Registers
    BY <1>5 DEF Settle, sdoVars, busVars
  <2>2. ~Transacting' /\ ~pending
    BY <1>5 DEF Settle, Wait
  <2>3. CASE register' = register
    BY <2>1, <2>2, <2>3
  <2>4. CASE register' # register
    <3>1. reply = "ack" /\ register' = register + 1
      BY <1>5, <2>4 DEF Settle, Confirmed
    <3>2. register \in written
      BY <2>1, <3>1
    <3>3. \A r \in 1..Registers : r < register + 1 => r < register \/ r = register
      BY <2>1
    <3>4. ConfirmedAreWritten'
      BY <2>1, <3>1, <3>2, <3>3
    <3> QED BY <2>1, <2>2, <3>4
  <2> QED BY <2>3, <2>4
<1>6. CASE Baseline
    BY <1>6 DEF Baseline, jobVars, cancelVars, rxVars, sdoVars, busVars
<1>7. CASE Configure
    BY <1>7 DEF Configure, Wait, GiveUp, jobVars, cancelVars, rxVars, sdoVars, feedVars,
       busVars
<1>8. CASE Publish
    BY <1>8 DEF Publish, GiveUp, jobVars, cancelVars, rxVars, sdoVars, feedVars, busVars
<1>9. CASE Evaluate
    BY <1>9 DEF Evaluate, Resume, jobVars, cancelVars, rxVars, sdoVars, feedVars, busVars
<1>10. CASE Sleep
    BY <1>10 DEF Sleep, jobVars, cancelVars, rxVars, sdoVars, feedVars, busVars
<1>11. CASE TimeOut
    BY <1>11 DEF TimeOut, Resume, cancelVars, rxVars, feedVars, busVars
<1>12. CASE AwaitStatus
    BY <1>12 DEF AwaitStatus, Wait, jobVars, rxVars, sdoVars, busVars
<1>13. CASE Disconnect
    BY <1>13 DEF Disconnect, jobVars, cancelVars, rxVars, sdoVars, feedVars, busVars
<1>14. CASE Close
    BY <1>14 DEF Close, jobVars, cancelVars, sdoVars, feedVars, busVars
<1>15. CASE StopReceiver
    BY <1>15 DEF StopReceiver, jobVars, cancelVars, sdoVars, feedVars, busVars
<1>16. CASE JoinReceiver
    BY <1>16 DEF JoinReceiver, jobVars, cancelVars, rxVars, sdoVars, feedVars, busVars
<1>17. CASE CloseTransport
    BY <1>17 DEF CloseTransport, jobVars, cancelVars, sdoVars, feedVars
<1>18. CASE CheckDone
    BY <1>18 DEF CheckDone, jobVars, cancelVars, sdoVars, feedVars, busVars
<1>19. CASE Receive
    BY <1>19 DEF Receive, jobVars, cancelVars, sdoVars, feedVars, busVars
<1>20. CASE Store
  <2> DEFINE frame == Head(inbox)
  <2>1. /\ inbox \in Seq(Frames)
        /\ inbox # <<>>
        /\ inbox' = Tail(inbox)
        /\ UNCHANGED <<written, register, pending, waitFor>>
    BY <1>20 DEF Store, jobVars, cancelVars, busVars
  <2>2. frame = inbox[1] /\ 1 \in 1..Len(inbox)
    BY <2>1
  <2>3. \A i \in 1..Len(inbox') : inbox'[i] = inbox[i + 1] /\ i + 1 \in 1..Len(inbox)
    BY <2>1
  <2>4. (\A i \in 1..Len(inbox) : inbox[i].kind = "ack" => inbox[i].of \in written)'
    BY <2>1, <2>3
  <2>5. Transacting' <=> Transacting
    BY <1>20, <2>1 DEF Store, Notify
  <2>6. pending' => (worker = "send" \/ WaitingFor("answer"))'
    BY <1>20, <2>1 DEF Store, Notify
  <2>7. ConfirmedAreWritten'
    BY <2>1
  <2>8. CASE UNCHANGED reply
    <3>1. Transacting' /\ reply' = "ack" => register' \in written'
      BY <2>1, <2>5, <2>8
    <3> QED BY <2>4, <2>6, <2>7, <3>1
  <2>9. CASE reply' # reply
    <3>1. reply' = frame.kind /\ frame.of = register
      BY <1>20, <2>9 DEF Store, Matches, Notify
    <3>2. reply' = "ack" => register \in written
      BY <2>2, <3>1
    <3>3. Transacting' /\ reply' = "ack" => register' \in written'
      BY <2>1, <3>2
    <3> QED BY <2>4, <2>6, <2>7, <3>3
  <2> QED BY <2>8, <2>9
<1>21. CASE ReceiveError
    BY <1>21 DEF ReceiveError, Notify, jobVars, cancelVars, sdoVars, feedVars, busVars
<1>22. CASE ServeRequest
    BY <1>22 DEF ServeRequest, jobVars, cancelVars, rxVars, sdoVars, feedVars
<1>23. ASSUME NEW g \in Groups, SendFeedback(g) PROVE AnswerInv'
    BY <1>23 DEF SendFeedback, jobVars, cancelVars, rxVars, sdoVars, feedVars
<1>24. CASE Cancel
    BY <1>24 DEF Cancel, jobVars, rxVars, sdoVars, feedVars, busVars
<1>25. CASE NotifyWaiters
    BY <1>25 DEF NotifyWaiters, Notify, jobVars, rxVars, sdoVars, feedVars, busVars
<1>26. CASE UNCHANGED vars
    BY <1>26 DEF vars, jobVars, cancelVars, rxVars, sdoVars, feedVars, busVars
<1> QED
    BY <1>1, <1>2, <1>3, <1>4, <1>5, <1>6, <1>7, <1>8, <1>9, <1>10, <1>11, <1>12, <1>13,
       <1>14, <1>15, <1>16, <1>17, <1>18, <1>19, <1>20, <1>21, <1>22, <1>23, <1>24, <1>25, <1>26
    DEF Next, SettingUp, Waiting, Closing, Receiver, Environment

\* The end of a wait, wherever it is reached from.
LEMMA ResumeTypes ==
    ASSUME TypeOK, NEW timedOut, Resume(timedOut)
    PROVE  ControlTypes'
<1>1. waitFor \in Waits /\ UNCHANGED <<waitFor, register, receiver>>
  BY DEF TypeOK, Resume, rxVars
<1>2. worker' \in WorkerStates
  BY <1>1 DEF Resume, Waits, WorkerStates
<1>3. attempt' \in Nat \ {0}
  BY DEF TypeOK, Resume
<1>4. rc' \in {0, 2, 6, 7}
  BY DEF TypeOK, Resume
<1> QED BY <1>1, <1>2, <1>3, <1>4 DEF TypeOK, ControlTypes

LEMMA ControlTypesStep ==
    ASSUME TypeOK, RegisterInv, [Next]_vars
    PROVE  ControlTypes'
<1> USE DEF TypeOK, ControlTypes, WorkerStates, Waits
<1>1. CASE OpenTransport
    BY <1>1 DEF OpenTransport, jobVars, sdoVars, busVars
<1>2. CASE Initial
    BY <1>2 DEF Initial, cancelVars, sdoVars, busVars
<1>3. CASE BeginRequest
    BY <1>3 DEF BeginRequest, GiveUp, jobVars, cancelVars, rxVars, sdoVars, feedVars,
       busVars
<1>4. CASE SendRequest
    BY <1>4 DEF SendRequest, Wait, cancelVars, rxVars, feedVars
<1>5. CASE Settle
  <2>1. register \in 1..Registers
    BY <1>5 DEF Settle, RegisterInv, Transacting
  <2>2. register' \in 1..Registers + 1 /\ attempt' \in Nat \ {0}
    BY <1>5, <2>1 DEF Settle
  <2>3. worker' \in WorkerStates /\ waitFor' \in Waits
    BY <1>5 DEF Settle, Wait
  <2> QED BY <1>5, <2>2, <2>3 DEF Settle, rxVars
<1>6. CASE Baseline
    BY <1>6 DEF Baseline, jobVars, cancelVars, rxVars, sdoVars, busVars
<1>7. CASE Configure
    BY <1>7 DEF Configure, Wait, GiveUp, jobVars, cancelVars, rxVars, sdoVars, feedVars,
       busVars
<1>8. CASE Publish
    BY <1>8 DEF Publish, GiveUp, jobVars, cancelVars, rxVars, sdoVars, feedVars, busVars
<1>9. CASE Evaluate
  <2>1. CASE Satisfied
    BY <1>9, <2>1, ResumeTypes DEF Evaluate
  <2>2. CASE ~Satisfied
    BY <1>9, <2>2 DEF Evaluate, jobVars, rxVars
  <2> QED BY <2>1, <2>2
<1>10. CASE Sleep
    BY <1>10 DEF Sleep, jobVars, cancelVars, rxVars, sdoVars, feedVars, busVars
<1>11. CASE TimeOut
    BY <1>11, ResumeTypes DEF TimeOut
<1>12. CASE AwaitStatus
    BY <1>12 DEF AwaitStatus, Wait, jobVars, rxVars, sdoVars, busVars
<1>13. CASE Disconnect
    BY <1>13 DEF Disconnect, jobVars, cancelVars, rxVars, sdoVars, feedVars, busVars
<1>14. CASE Close
    BY <1>14 DEF Close, jobVars, cancelVars, sdoVars, feedVars, busVars
<1>15. CASE StopReceiver
    BY <1>15 DEF StopReceiver, jobVars, cancelVars, sdoVars, feedVars, busVars
<1>16. CASE JoinReceiver
    BY <1>16 DEF JoinReceiver, jobVars, cancelVars, rxVars, sdoVars, feedVars, busVars
<1>17. CASE CloseTransport
    BY <1>17 DEF CloseTransport, jobVars, cancelVars, sdoVars, feedVars
<1>18. CASE CheckDone
    BY <1>18 DEF CheckDone, jobVars, cancelVars, sdoVars, feedVars, busVars
<1>19. CASE Receive
    BY <1>19 DEF Receive, jobVars, cancelVars, sdoVars, feedVars, busVars
<1>20. CASE Store
    BY <1>20 DEF Store, Notify, jobVars, cancelVars, feedVars
<1>21. CASE ReceiveError
    BY <1>21 DEF ReceiveError, Notify, jobVars, cancelVars, sdoVars, feedVars, busVars
<1>22. CASE ServeRequest
    BY <1>22 DEF ServeRequest, jobVars, cancelVars, rxVars, sdoVars, feedVars
<1>23. ASSUME NEW g \in Groups, SendFeedback(g) PROVE ControlTypes'
    BY <1>23 DEF SendFeedback, jobVars, cancelVars, rxVars, sdoVars, feedVars
<1>24. CASE Cancel
    BY <1>24 DEF Cancel, jobVars, rxVars, sdoVars, feedVars, busVars
<1>25. CASE NotifyWaiters
    BY <1>25 DEF NotifyWaiters, Notify, jobVars, rxVars, sdoVars, feedVars, busVars
<1>26. CASE UNCHANGED vars
    BY <1>26 DEF vars, jobVars, cancelVars, rxVars, sdoVars, feedVars, busVars
<1> QED
    BY <1>1, <1>2, <1>3, <1>4, <1>5, <1>6, <1>7, <1>8, <1>9, <1>10, <1>11, <1>12, <1>13,
       <1>14, <1>15, <1>16, <1>17, <1>18, <1>19, <1>20, <1>21, <1>22, <1>23, <1>24, <1>25, <1>26
    DEF Next, SettingUp, Waiting, Closing, Receiver, Environment

LEMMA FlagTypesStep ==
    ASSUME TypeOK, [Next]_vars
    PROVE  FlagTypes'
<1> USE DEF TypeOK, FlagTypes
<1>1. CASE OpenTransport
    BY <1>1 DEF OpenTransport, jobVars, sdoVars, busVars
<1>2. CASE Initial
    BY <1>2 DEF Initial, cancelVars, sdoVars, busVars
<1>3. CASE BeginRequest
    BY <1>3 DEF BeginRequest, GiveUp, jobVars, cancelVars, rxVars, sdoVars, feedVars,
       busVars
<1>4. CASE SendRequest
    BY <1>4 DEF SendRequest, Wait, cancelVars, rxVars, feedVars
<1>5. CASE Settle
    BY <1>5 DEF Settle, Wait, GiveUp, LastRegister, Confirmed, Retryable, cancelVars,
       rxVars, sdoVars, busVars
<1>6. CASE Baseline
    BY <1>6 DEF Baseline, jobVars, cancelVars, rxVars, sdoVars, busVars
<1>7. CASE Configure
    BY <1>7 DEF Configure, Wait, GiveUp, jobVars, cancelVars, rxVars, sdoVars, feedVars,
       busVars
<1>8. CASE Publish
    BY <1>8 DEF Publish, GiveUp, jobVars, cancelVars, rxVars, sdoVars, feedVars, busVars
<1>9. CASE Evaluate
    BY <1>9 DEF Evaluate, Resume, jobVars, cancelVars, rxVars, sdoVars, feedVars, busVars
<1>10. CASE Sleep
    BY <1>10 DEF Sleep, jobVars, cancelVars, rxVars, sdoVars, feedVars, busVars
<1>11. CASE TimeOut
    BY <1>11 DEF TimeOut, Resume, cancelVars, rxVars, feedVars, busVars
<1>12. CASE AwaitStatus
    BY <1>12 DEF AwaitStatus, Wait, jobVars, rxVars, sdoVars, busVars
<1>13. CASE Disconnect
    BY <1>13 DEF Disconnect, jobVars, cancelVars, rxVars, sdoVars, feedVars, busVars
<1>14. CASE Close
    BY <1>14 DEF Close, jobVars, cancelVars, sdoVars, feedVars, busVars
<1>15. CASE StopReceiver
    BY <1>15 DEF StopReceiver, jobVars, cancelVars, sdoVars, feedVars, busVars
<1>16. CASE JoinReceiver
    BY <1>16 DEF JoinReceiver, jobVars, cancelVars, rxVars, sdoVars, feedVars, busVars
<1>17. CASE CloseTransport
    BY <1>17 DEF CloseTransport, jobVars, cancelVars, sdoVars, feedVars
<1>18. CASE CheckDone
    BY <1>18 DEF CheckDone, jobVars, cancelVars, sdoVars, feedVars, busVars
<1>19. CASE Receive
    BY <1>19 DEF Receive, jobVars, cancelVars, sdoVars, feedVars, busVars
<1>20. CASE Store
    BY <1>20 DEF Store, Notify, jobVars, cancelVars, feedVars
<1>21. CASE ReceiveError
    BY <1>21 DEF ReceiveError, Notify, jobVars, cancelVars, sdoVars, feedVars, busVars
<1>22. CASE ServeRequest
    BY <1>22 DEF ServeRequest, jobVars, cancelVars, rxVars, sdoVars, feedVars
<1>23. ASSUME NEW g \in Groups, SendFeedback(g) PROVE FlagTypes'
    BY <1>23 DEF SendFeedback, jobVars, cancelVars, rxVars, sdoVars, feedVars
<1>24. CASE Cancel
    BY <1>24 DEF Cancel, jobVars, rxVars, sdoVars, feedVars, busVars
<1>25. CASE NotifyWaiters
    BY <1>25 DEF NotifyWaiters, Notify, jobVars, rxVars, sdoVars, feedVars, busVars
<1>26. CASE UNCHANGED vars
    BY <1>26 DEF vars, jobVars, cancelVars, rxVars, sdoVars, feedVars, busVars
<1> QED
    BY <1>1, <1>2, <1>3, <1>4, <1>5, <1>6, <1>7, <1>8, <1>9, <1>10, <1>11, <1>12, <1>13,
       <1>14, <1>15, <1>16, <1>17, <1>18, <1>19, <1>20, <1>21, <1>22, <1>23, <1>24, <1>25, <1>26
    DEF Next, SettingUp, Waiting, Closing, Receiver, Environment

LEMMA BusTypesStep ==
    ASSUME TypeOK, RegisterInv, [Next]_vars
    PROVE  BusTypes'
<1> USE DEF TypeOK, BusTypes
<1>1. CASE OpenTransport
    BY <1>1 DEF OpenTransport, jobVars, sdoVars, busVars
<1>2. CASE Initial
    BY <1>2 DEF Initial, cancelVars, sdoVars, busVars
<1>3. CASE BeginRequest
    BY <1>3 DEF BeginRequest, GiveUp, jobVars, cancelVars, rxVars, sdoVars, feedVars,
       busVars
<1>4. CASE SendRequest
  <2>1. register \in 1..Registers
    BY <1>4 DEF SendRequest, RegisterInv, Transacting
  <2>2. Append(outbox, register) \in Seq(1..Registers)
    BY <2>1
  <2>3. outbox' = Append(outbox, register) \/ outbox' = outbox
    BY <1>4 DEF SendRequest
  <2> QED BY <1>4, <2>2, <2>3 DEF SendRequest, jobVars, cancelVars, rxVars, sdoVars, feedVars, busVars
<1>5. CASE Settle
    BY <1>5 DEF Settle, Wait, GiveUp, LastRegister, Confirmed, Retryable, cancelVars,
       rxVars, sdoVars, busVars
<1>6. CASE Baseline
    BY <1>6 DEF Baseline, jobVars, cancelVars, rxVars, sdoVars, busVars
<1>7. CASE Configure
    BY <1>7 DEF Configure, Wait, GiveUp, jobVars, cancelVars, rxVars, sdoVars, feedVars,
       busVars
<1>8. CASE Publish
    BY <1>8 DEF Publish, GiveUp, jobVars, cancelVars, rxVars, sdoVars, feedVars, busVars
<1>9. CASE Evaluate
    BY <1>9 DEF Evaluate, Resume, jobVars, cancelVars, rxVars, sdoVars, feedVars, busVars
<1>10. CASE Sleep
    BY <1>10 DEF Sleep, jobVars, cancelVars, rxVars, sdoVars, feedVars, busVars
<1>11. CASE TimeOut
    BY <1>11 DEF TimeOut, Resume, cancelVars, rxVars, feedVars, busVars
<1>12. CASE AwaitStatus
    BY <1>12 DEF AwaitStatus, Wait, jobVars, rxVars, sdoVars, busVars
<1>13. CASE Disconnect
    BY <1>13 DEF Disconnect, jobVars, cancelVars, rxVars, sdoVars, feedVars, busVars
<1>14. CASE Close
    BY <1>14 DEF Close, jobVars, cancelVars, sdoVars, feedVars, busVars
<1>15. CASE StopReceiver
    BY <1>15 DEF StopReceiver, jobVars, cancelVars, sdoVars, feedVars, busVars
<1>16. CASE JoinReceiver
    BY <1>16 DEF JoinReceiver, jobVars, cancelVars, rxVars, sdoVars, feedVars, busVars
<1>17. CASE CloseTransport
    BY <1>17 DEF CloseTransport, jobVars, cancelVars, sdoVars, feedVars
<1>18. CASE CheckDone
    BY <1>18 DEF CheckDone, jobVars, cancelVars, sdoVars, feedVars, busVars
<1>19. CASE Receive
    BY <1>19 DEF Receive, jobVars, cancelVars, sdoVars, feedVars, busVars
<1>20. CASE Store
  <2> DEFINE frame == Head(inbox)
  <2>1. inbox' \in Seq(Frames) /\ frame \in Frames
    BY <1>20 DEF Store
  <2>2. frame.kind \in {"ack", "abort"} \cup Groups
    BY <2>1 DEF Frames
  <2>3. reply' \in {"none", "ack", "abort"}
    BY <1>20, <2>2 DEF Store, feedVars
  <2>4. fresh' \subseteq Groups /\ heard' \subseteq Groups
    BY <1>20 DEF Store, feedVars
  <2> QED BY <1>20, <2>1, <2>3, <2>4 DEF Store
<1>21. CASE ReceiveError
    BY <1>21 DEF ReceiveError, Notify, jobVars, cancelVars, sdoVars, feedVars, busVars
<1>22. CASE ServeRequest
  <2>1. Head(outbox) \in 1..Registers /\ outbox' \in Seq(1..Registers)
    BY <1>22 DEF ServeRequest
  <2>2. \A kind \in {"ack", "abort"} : [kind |-> kind, of |-> Head(outbox)] \in Frames
    BY <2>1 DEF Frames
  <2>3. inbox' \in Seq(Frames)
    BY <1>22, <2>2 DEF ServeRequest
  <2>4. written' \subseteq 1..Registers
    BY <1>22, <2>1 DEF ServeRequest
  <2> QED BY <1>22, <2>1, <2>3, <2>4 DEF ServeRequest, sdoVars, feedVars
<1>23. ASSUME NEW g \in Groups, SendFeedback(g) PROVE BusTypes'
  <2>1. [kind |-> g, of |-> 0] \in Frames
    BY DEF Frames
  <2>2. inbox' \in Seq(Frames)
    BY <1>23, <2>1 DEF SendFeedback
  <2> QED BY <1>23, <2>2 DEF SendFeedback, sdoVars, feedVars
<1>24. CASE Cancel
    BY <1>24 DEF Cancel, jobVars, rxVars, sdoVars, feedVars, busVars
<1>25. CASE NotifyWaiters
    BY <1>25 DEF NotifyWaiters, Notify, jobVars, rxVars, sdoVars, feedVars, busVars
<1>26. CASE UNCHANGED vars
    BY <1>26 DEF vars, jobVars, cancelVars, rxVars, sdoVars, feedVars, busVars
<1> QED
    BY <1>1, <1>2, <1>3, <1>4, <1>5, <1>6, <1>7, <1>8, <1>9, <1>10, <1>11, <1>12, <1>13,
       <1>14, <1>15, <1>16, <1>17, <1>18, <1>19, <1>20, <1>21, <1>22, <1>23, <1>24, <1>25, <1>26
    DEF Next, SettingUp, Waiting, Closing, Receiver, Environment

-----------------------------------------------------------------------------
(* The theorems                                                             *)

SessionInv ==
    /\ TypeOK
    /\ RegisterInv
    /\ AnswerInv
    /\ WakeInv
    /\ ReceiverInv
    /\ FeedbackInv

LEMMA TypeParts == TypeOK <=> ControlTypes /\ FlagTypes /\ BusTypes
BY DEF TypeOK, ControlTypes, FlagTypes, BusTypes

LEMMA InitSession == Init => SessionInv
<1> SUFFICES ASSUME Init PROVE SessionInv
  OBVIOUS
<1> USE DEF Init
<1>1. register \in 1..Registers + 1
  BY RegistersAssumption
<1>2. ControlTypes
  BY <1>1 DEF ControlTypes, WorkerStates, Waits
<1>3. FlagTypes
  BY DEF FlagTypes
<1>4. BusTypes
  BY DEF BusTypes
<1>5. RegisterInv /\ AnswerInv
  BY DEF RegisterInv, AnswerInv, ConfirmedAreWritten, Transacting, WaitingFor
<1>6. WakeInv /\ ReceiverInv /\ FeedbackInv
  BY DEF WakeInv, ReceiverInv, ReceiverHasTransport, FeedbackInv, WaitingFor
<1> QED BY <1>2, <1>3, <1>4, <1>5, <1>6, TypeParts DEF SessionInv

LEMMA SessionStep ==
    ASSUME SessionInv, [Next]_vars
    PROVE  SessionInv'
<1>1. TypeOK /\ RegisterInv /\ AnswerInv /\ WakeInv /\ ReceiverInv /\ FeedbackInv
  BY DEF SessionInv
<1>2. ControlTypes' /\ FlagTypes' /\ BusTypes'
  BY <1>1, ControlTypesStep, FlagTypesStep, BusTypesStep
<1>3. TypeOK'
  BY <1>2 DEF TypeOK, ControlTypes, FlagTypes, BusTypes
<1>4. RegisterInv' /\ AnswerInv'
  BY <1>1, <1>3, RegisterStep, AnswerStep
<1>5. WakeInv' /\ ReceiverInv' /\ FeedbackInv'
  BY <1>1, WakeStep, ReceiverStep, FeedbackStep
<1> QED BY <1>3, <1>4, <1>5 DEF SessionInv

\* The inductive invariant of session input and output: what an accepted answer
\* means, what a sleeping waiter may miss, when the receiver runs, and which
\* feedback a wait has seen.
THEOREM SessionInvariance == Spec => []SessionInv
<1>1. SessionInv /\ [Next]_vars => SessionInv'
  BY SessionStep
<1> QED BY InitSession, <1>1, PTL DEF Spec

\* Type correctness of the session's input and output.
THEOREM SessionTypeCorrect == Spec => []TypeOK
<1>1. SessionInv => TypeOK
  BY DEF SessionInv
<1> QED BY <1>1, SessionInvariance, PTL

\* A register is left behind only after the device has written it, however late
\* or often answers arrive (write_feedback_period, set_canfd_data_decode).
THEOREM ConfirmedAreWrittenCorrect == Spec => []ConfirmedAreWritten
<1>1. SessionInv => ConfirmedAreWritten
  BY DEF SessionInv, AnswerInv
<1> QED BY <1>1, SessionInvariance, PTL

\* No wait misses the event that ends it (notify_waiters, receive_loop).
THEOREM NoLostWakeupCorrect == Spec => []NoLostWakeup
<1>1. SessionInv => NoLostWakeup
  BY DEF SessionInv, WakeInv, NoLostWakeup
<1> QED BY <1>1, SessionInvariance, PTL

\* The receiver runs only while the transport is open (open_transport, close).
THEOREM ReceiverHasTransportCorrect == Spec => []ReceiverHasTransport
<1>1. SessionInv => ReceiverHasTransport
  BY DEF SessionInv, ReceiverInv
<1> QED BY <1>1, SessionInvariance, PTL

\* A published connection has received both feedback groups since its last
\* register was confirmed (configure_feedback, wait_for_feedback).
THEOREM OpenOnNewFeedbackCorrect == Spec => []OpenOnNewFeedback
<1>1. SessionInv => OpenOnNewFeedback
  BY DEF SessionInv, FeedbackInv, OpenOnNewFeedback
<1> QED BY <1>1, SessionInvariance, PTL
=============================================================================
