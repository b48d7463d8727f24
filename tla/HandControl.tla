---------------------------- MODULE HandControl ----------------------------
(***************************************************************************)
(* The control side of one Hand (src/src/hand.cpp, class Hand::Impl): API  *)
(* calls made by several threads, the queue of jobs, the single control    *)
(* worker, cancellation by generation token, and the life cycle of the     *)
(* session and of the per-process ownership of the device.                 *)
(*                                                                         *)
(* Every API call is a member of Callers while it runs: a caller blocks    *)
(* inside submit(), connect() or disconnect(), so it has at most one job.  *)
(* What a job does with the session is abstracted to a bounded sequence of *)
(* "check cancelled, issue one command" segments with any outcome; module  *)
(* MotionCommands models what the commands do.                             *)
(***************************************************************************)
EXTENDS Integers, Sequences, FiniteSets, Functions

CONSTANTS
    Callers,     \* threads that call the API of this Hand
    NoCaller,    \* "no job is being run"
    MaxGen,      \* bound: no new call starts once generation reaches it
    MaxCalls     \* bound: commands one job issues (attempts loops: 30 or less)

ASSUME CallersAssumption == NoCaller \notin Callers
ASSUME MaxGenAssumption == MaxGen \in Nat
ASSUME MaxCallsAssumption == MaxCalls \in Nat

VARIABLES
    generation,    \* atomic counter; a job whose token differs is cancelled
    closing,       \* set by disconnect, reset by connect
    connected,     \* what is_connected() and submit() look at
    workerExit,    \* worker_exit
    ordinaryBusy,  \* ordinary_busy
    urgentCount,   \* urgent_count
    queue,         \* callers whose jobs wait for the worker, front first
    session,       \* TRUE while transport and receiver of the session are open
    owner,         \* who holds the device's key in the process-wide set `owners`
    worker,        \* program counter of the control worker
    current,       \* caller whose job the worker runs
    ok,            \* outcome of the job being run
    calls,         \* commands issued by the job being run
    lifecycle,     \* holder of lifecycle_mutex across several steps
    pc,            \* where each caller stands
    job,           \* kind and token of each caller's job
    issued         \* history: token of the job that last issued a command

callerVars == <<pc, job>>
flagVars   == <<closing, connected, workerExit>>
queueVars  == <<ordinaryBusy, urgentCount, queue>>
deviceVars == <<session, owner>>
workerVars == <<worker, current, ok, calls>>
vars == <<generation, flagVars, queueVars, deviceVars, workerVars,
          lifecycle, callerVars, issued>>

WorkerStates == {"none", "wait", "start", "open", "configure", "publish",
                 "confirm", "call", "check", "unpublish", "close", "release",
                 "finish", "deliver", "done"}
CallerStates == {"idle", "waiting", "lock", "update", "join"}
Kinds  == {"none", "ordinary", "urgent", "connect", "disconnect"}
Owners == {"nobody", "self", "other"}

NoJob == [kind |-> "none", token |-> 0]

TypeOK ==
    /\ generation \in Nat
    /\ closing \in BOOLEAN
    /\ connected \in BOOLEAN
    /\ workerExit \in BOOLEAN
    /\ ordinaryBusy \in BOOLEAN
    /\ urgentCount \in Nat
    /\ queue \in Seq(Callers)
    /\ session \in BOOLEAN
    /\ owner \in Owners
    /\ worker \in WorkerStates
    /\ current \in Callers \cup {NoCaller}
    /\ ok \in BOOLEAN
    /\ calls \in Nat
    /\ lifecycle \in Callers \cup {NoCaller}
    /\ pc \in [Callers -> CallerStates]
    /\ job \in [Callers -> [kind : Kinds, token : Nat]]
    /\ issued \in Nat

Init ==
    /\ generation = 0
    /\ closing = FALSE
    /\ connected = FALSE
    /\ workerExit = FALSE
    /\ ordinaryBusy = FALSE
    /\ urgentCount = 0
    /\ queue = <<>>
    /\ session = FALSE
    /\ owner = "nobody"
    /\ worker = "none"
    /\ current = NoCaller
    /\ ok = FALSE
    /\ calls = 0
    /\ lifecycle = NoCaller
    /\ pc = [c \in Callers |-> "idle"]
    /\ job = [c \in Callers |-> NoJob]
    /\ issued = 0

Cancelled(token) == closing \/ generation # token

-----------------------------------------------------------------------------
(* submit(): one critical section of queue_mutex, then the caller waits.    *)

Accepting == connected /\ ~closing /\ ~workerExit

\* A call may start: its thread is idle and the bound on tokens is not reached.
MayCall(c) == pc[c] = "idle" /\ generation < MaxGen

Push(c, kind, token) ==
    /\ pc' = [pc EXCEPT ![c] = "waiting"]
    /\ job' = [job EXCEPT ![c] = [kind |-> kind, token |-> token]]

\* Faulty variant: an ordinary job is admitted beside urgent ones.
OrdinaryAdmittedBesideUrgent == ~ordinaryBusy

OrdinaryAdmitted == ~ordinaryBusy /\ urgentCount = 0

\* enable, home, clear_faults, set_position(s), set_speed, ...: refused while
\* another operation is pending. A refused call returns at once and changes
\* nothing, so it is not a step of its own.
SubmitOrdinary(c) ==
    /\ MayCall(c)
    /\ Accepting
    /\ OrdinaryAdmitted
    /\ ordinaryBusy' = TRUE
    /\ queue' = Append(queue, c)
    /\ Push(c, "ordinary", generation)
    /\ UNCHANGED <<generation, flagVars, urgentCount, deviceVars, workerVars,
                   lifecycle, issued>>

\* Faulty variant: push_back instead of push_front.
SubmitUrgentAtBack(c) ==
    /\ MayCall(c)
    /\ Accepting
    /\ generation' = generation + 1
    /\ urgentCount' = urgentCount + 1
    /\ queue' = Append(queue, c)
    /\ Push(c, "urgent", generation + 1)
    /\ UNCHANGED <<flagVars, ordinaryBusy, deviceVars, workerVars, lifecycle, issued>>

\* stop, disable, prepare_disconnect: a new generation cancels every job that
\* is pending or running, and the job goes to the front of the queue.
SubmitUrgent(c) ==
    /\ MayCall(c)
    /\ Accepting
    /\ generation' = generation + 1
    /\ urgentCount' = urgentCount + 1
    /\ queue' = <<c>> \o queue
    /\ Push(c, "urgent", generation + 1)
    /\ UNCHANGED <<flagVars, ordinaryBusy, deviceVars, workerVars, lifecycle, issued>>

-----------------------------------------------------------------------------
(* connect() and disconnect()                                               *)

CanConnect(c) ==
    /\ MayCall(c)
    /\ lifecycle = NoCaller
    /\ worker = "none"            \* !worker.joinable()
    /\ owner = "nobody"           \* owners.insert(...).second

\* Both mutexes are held from the joinable test to the start of the thread. A
\* connect that finds a worker or another owner returns and changes nothing.
Connect(c) ==
    /\ CanConnect(c)
    /\ owner' = "self"
    /\ closing' = FALSE
    /\ workerExit' = FALSE
    /\ ordinaryBusy' = TRUE
    /\ generation' = generation + 1
    /\ queue' = Append(queue, c)
    /\ worker' = "wait"
    /\ Push(c, "connect", generation + 1)
    /\ UNCHANGED <<connected, urgentCount, session, current, ok, calls, lifecycle, issued>>

\* std::thread throws: the queue is cleared and everything is given back.
ConnectWithoutThread(c) ==
    /\ CanConnect(c)
    /\ closing' = FALSE
    /\ workerExit' = FALSE
    /\ connected' = FALSE
    /\ generation' = generation + 1
    /\ queue' = <<>>
    /\ ordinaryBusy' = FALSE
    /\ session' = FALSE
    /\ UNCHANGED <<urgentCount, owner, workerVars, lifecycle, callerVars, issued>>

Disconnect(c) ==
    /\ MayCall(c)
    /\ pc' = [pc EXCEPT ![c] = "lock"]
    /\ job' = [job EXCEPT ![c] = [kind |-> "disconnect", token |-> 0]]
    /\ UNCHANGED <<generation, flagVars, queueVars, deviceVars, workerVars,
                   lifecycle, issued>>

\* Faulty variant: a failed connect disconnects whatever is there by now.
AlwaysExpected(c) == TRUE

\* expected_generation: 0 for a call of the API, the token of the failed
\* connect for the clean-up connect() does itself.
StillExpected(c) == job[c].token = 0 \/ generation = job[c].token

\* Taking lifecycle_mutex and the test that follows it.
LockLifecycle(c) ==
    /\ pc[c] = "lock"
    /\ lifecycle = NoCaller
    /\ IF StillExpected(c)
       THEN /\ lifecycle' = c
            /\ pc' = [pc EXCEPT ![c] = "update"]
            /\ UNCHANGED job
       ELSE /\ pc' = [pc EXCEPT ![c] = "idle"]
            /\ job' = [job EXCEPT ![c] = NoJob]
            /\ UNCHANGED lifecycle
    /\ UNCHANGED <<generation, flagVars, queueVars, deviceVars, workerVars, issued>>

BeginClosing(c) ==
    /\ pc[c] = "update"
    /\ closing' = TRUE
    /\ connected' = FALSE
    /\ generation' = generation + 1
    /\ workerExit' = TRUE
    /\ pc' = [pc EXCEPT ![c] = "join"]
    /\ UNCHANGED <<queueVars, deviceVars, workerVars, lifecycle, job, issued>>

\* Faulty variant: disconnect returns without joining the worker.
JoinWithoutWaiting(c) ==
    /\ pc[c] = "join"
    /\ worker' = "none"
    /\ lifecycle' = NoCaller
    /\ pc' = [pc EXCEPT ![c] = "idle"]
    /\ job' = [job EXCEPT ![c] = NoJob]
    /\ UNCHANGED <<generation, flagVars, queueVars, deviceVars, current, ok, calls, issued>>

Join(c) ==
    /\ pc[c] = "join"
    /\ worker \in {"none", "done"}
    /\ worker' = "none"
    /\ lifecycle' = NoCaller
    /\ pc' = [pc EXCEPT ![c] = "idle"]
    /\ job' = [job EXCEPT ![c] = NoJob]
    /\ UNCHANGED <<generation, flagVars, queueVars, deviceVars, current, ok, calls, issued>>

-----------------------------------------------------------------------------
(* run(): the control worker                                                *)

Token == job[current].token

Pop ==
    /\ worker = "wait"
    /\ queue # <<>>
    /\ current' = Head(queue)
    /\ queue' = Tail(queue)
    /\ ok' = FALSE
    /\ calls' = 0
    /\ worker' = "start"
    /\ UNCHANGED <<generation, flagVars, ordinaryBusy, urgentCount, deviceVars,
                   lifecycle, callerVars, issued>>

\* Faulty variant: worker_exit ends the loop although jobs are queued.
LeaveLoopAtOnce ==
    /\ worker = "wait"
    /\ workerExit
    /\ worker' = "unpublish"
    /\ UNCHANGED <<generation, flagVars, queueVars, deviceVars, current, ok, calls,
                   lifecycle, callerVars, issued>>

\* Pending jobs are drained (and answered) before the worker leaves.
LeaveLoop ==
    /\ worker = "wait"
    /\ workerExit
    /\ queue = <<>>
    /\ worker' = "unpublish"
    /\ UNCHANGED <<generation, flagVars, queueVars, deviceVars, current, ok, calls,
                   lifecycle, callerVars, issued>>

\* Steps of the worker that change nothing but its own variables.
workerOnly == <<generation, flagVars, queueVars, deviceVars, current, lifecycle, callerVars>>

\* Faulty variant: a popped job is run without looking at its token.
StartJobUnchecked ==
    /\ worker = "start"
    /\ worker' = IF job[current].kind = "connect" THEN "open" ELSE "call"
    /\ UNCHANGED <<workerOnly, ok, calls, issued>>

StartJob ==
    /\ worker = "start"
    /\ worker' = IF Cancelled(Token) THEN "finish"
                 ELSE IF job[current].kind = "connect" THEN "open" ELSE "call"
    /\ UNCHANGED <<workerOnly, ok, calls, issued>>

\* One command of the session; what it achieves is not this module's subject.
\* Most jobs look at cancelled(token) before the next one; parameter() issues the
\* setter and apply_motion_params with no test in between (hand.cpp:328-333).
IssueCommand ==
    /\ worker = "call"
    /\ calls' = calls + 1
    /\ issued' = Token
    /\ worker' = "check" \/ (calls' < MaxCalls /\ worker' = "call")
    /\ UNCHANGED <<workerOnly, ok>>

\* A test of cancelled(token) between two attempts; a job may also end here.
CheckCancelled ==
    /\ worker = "check"
    /\ \/ /\ ~Cancelled(Token)
          /\ calls < MaxCalls
          /\ worker' = "call"
          /\ UNCHANGED ok
       \/ /\ worker' = "finish"
          /\ ok' \in BOOLEAN
    /\ UNCHANGED <<workerOnly, calls, issued>>

\* open_device(): open_transport, initial and set_move_no_home. A failure may
\* leave the transport open until cleanup; when the receiver thread cannot be
\* started, the exception passes cleanup by and run() catches it.
OpenDevice ==
    /\ worker = "open"
    /\ \/ /\ ~Cancelled(Token)
          /\ issued' = Token
          /\ session' \in BOOLEAN
          /\ worker' \in IF session' THEN {"configure", "unpublish"}
                        ELSE {"unpublish", "finish"}
       \/ /\ Cancelled(Token)
          /\ worker' = "unpublish"
          /\ UNCHANGED <<session, issued>>
    /\ UNCHANGED <<generation, flagVars, queueVars, owner, current, ok, calls,
                   lifecycle, callerVars>>

\* configure_feedback() and the test that follows it.
ConfigureFeedback ==
    /\ worker = "configure"
    /\ \/ ~Cancelled(Token) /\ worker' = "publish"
       \/ worker' = "unpublish"
    /\ UNCHANGED <<workerOnly, ok, calls, issued>>

Publish ==
    /\ worker = "publish"
    /\ connected' = TRUE
    /\ worker' = "confirm"
    /\ UNCHANGED <<generation, closing, workerExit, queueVars, deviceVars, current, ok,
                   calls, lifecycle, callerVars, issued>>

\* Faulty variant: a connect cancelled after publication forgets cleanup().
ConfirmOpenWithoutCleanup ==
    /\ worker = "confirm"
    /\ worker' = "finish"
    /\ ok' = ~Cancelled(Token)
    /\ connected' = ~Cancelled(Token)
    /\ UNCHANGED <<generation, closing, workerExit, queueVars, deviceVars, current,
                   calls, lifecycle, callerVars, issued>>

ConfirmOpen ==
    /\ worker = "confirm"
    /\ IF Cancelled(Token)
       THEN worker' = "unpublish" /\ UNCHANGED ok
       ELSE worker' = "finish" /\ ok' = TRUE
    /\ UNCHANGED <<workerOnly, calls, issued>>

\* Faulty variant: the owner key is given back before the session is closed.
UnpublishReleasing ==
    /\ worker = "unpublish"
    /\ connected' = FALSE
    /\ owner' = IF owner = "self" THEN "nobody" ELSE owner
    /\ worker' = "close"
    /\ UNCHANGED <<generation, closing, workerExit, queueVars, session, current, ok,
                   calls, lifecycle, callerVars, issued>>

\* cleanup(), entered by a failed connect job and by the end of the thread.
Unpublish ==
    /\ worker = "unpublish"
    /\ connected' = FALSE
    /\ worker' = "close"
    /\ UNCHANGED <<generation, closing, workerExit, queueVars, deviceVars, current, ok,
                   calls, lifecycle, callerVars, issued>>

CloseSession ==
    /\ worker = "close"
    /\ session' = FALSE
    /\ worker' = "release"
    /\ UNCHANGED <<generation, flagVars, queueVars, owner, current, ok, calls,
                   lifecycle, callerVars, issued>>

ReleaseOwner ==
    /\ worker = "release"
    /\ owner' = IF owner = "self" THEN "nobody" ELSE owner   \* if (owns_device)
    /\ worker' = IF current = NoCaller THEN "done" ELSE "finish"
    /\ UNCHANGED <<generation, flagVars, queueVars, session, current, ok, calls,
                   lifecycle, callerVars, issued>>

\* Faulty variant: every job clears the busy flag.
FinishJobClearingBusy ==
    /\ worker = "finish"
    /\ ordinaryBusy' = FALSE
    /\ urgentCount' = IF job[current].kind = "urgent" THEN urgentCount - 1 ELSE urgentCount
    /\ worker' = "deliver"
    /\ UNCHANGED <<generation, flagVars, queue, deviceVars, current, ok, calls,
                   lifecycle, callerVars, issued>>

\* The counters are settled under queue_mutex before the caller is answered.
FinishJob ==
    /\ worker = "finish"
    /\ IF job[current].kind = "urgent"
       THEN urgentCount' = urgentCount - 1 /\ UNCHANGED ordinaryBusy
       ELSE ordinaryBusy' = FALSE /\ UNCHANGED urgentCount
    /\ worker' = "deliver"
    /\ UNCHANGED <<generation, flagVars, queue, deviceVars, current, ok, calls,
                   lifecycle, callerVars, issued>>

\* result.set_value(ok): the call returns, except that a failed connect() goes
\* on with disconnect(connect_token).
Deliver ==
    /\ worker = "deliver"
    /\ IF job[current].kind = "connect" /\ ~ok
       THEN pc' = [pc EXCEPT ![current] = "lock"] /\ UNCHANGED job
       ELSE /\ pc' = [pc EXCEPT ![current] = "idle"]
            /\ job' = [job EXCEPT ![current] = NoJob]
    /\ worker' = "wait"
    /\ current' = NoCaller
    /\ ok' = FALSE
    /\ calls' = 0
    /\ UNCHANGED <<generation, flagVars, queueVars, deviceVars, lifecycle, issued>>

-----------------------------------------------------------------------------
(* Another Hand of the same process that was configured for the same device. *)

OtherAcquire ==
    /\ owner = "nobody"
    /\ owner' = "other"
    /\ UNCHANGED <<generation, flagVars, queueVars, session, workerVars, lifecycle,
                   callerVars, issued>>

OtherRelease ==
    /\ owner = "other"
    /\ owner' = "nobody"
    /\ UNCHANGED <<generation, flagVars, queueVars, session, workerVars, lifecycle,
                   callerVars, issued>>

-----------------------------------------------------------------------------
Worker ==
    \/ Pop \/ LeaveLoop \/ StartJob
    \/ IssueCommand \/ CheckCancelled
    \/ OpenDevice \/ ConfigureFeedback \/ Publish \/ ConfirmOpen
    \/ Unpublish \/ CloseSession \/ ReleaseOwner
    \/ FinishJob \/ Deliver

Returning(c) == LockLifecycle(c) \/ BeginClosing(c) \/ Join(c)

Caller(c) ==
    \/ SubmitOrdinary(c) \/ SubmitUrgent(c)
    \/ Connect(c) \/ ConnectWithoutThread(c) \/ Disconnect(c)
    \/ Returning(c)

Next ==
    \/ Worker
    \/ \E c \in Callers : Caller(c)
    \/ OtherAcquire \/ OtherRelease

Spec == Init /\ [][Next]_vars

\* A started thread keeps running and a call in progress keeps executing; no
\* thread has to make a new call.
Fairness == WF_vars(Worker) /\ \A c \in Callers : WF_vars(Returning(c))

FairSpec == Spec /\ Fairness

-----------------------------------------------------------------------------
(* Correctness                                                              *)

Queued == Range(queue)

\* Callers whose job is accepted and not yet settled by FinishJob.
Pending == Queued \cup (IF current = NoCaller \/ worker = "deliver" THEN {} ELSE {current})

PendingUrgent == {c \in Pending : job[c].kind = "urgent"}
PendingOrdinary == Pending \ PendingUrgent

\* The busy flag and the urgent counter that admit ordinary requests say exactly
\* which jobs are pending, through preemption, cancellation, failed connects and
\* the draining of the queue (hand.cpp:90-94, 108-117): no path leaves the hand
\* "Busy" for ever, none admits a second ordinary job.
BusyAccounting ==
    /\ urgentCount = Cardinality(PendingUrgent)
    /\ \A c, d \in PendingOrdinary : c = d
    /\ ordinaryBusy <=> PendingOrdinary # {}

\* At most one pending job is not cancelled: an urgent call invalidates all
\* others and nothing is admitted beside it (architecture.md:34-35).
Live(c) == c \in Pending /\ ~Cancelled(job[c].token)
AtMostOneLive == \A c, d \in Callers : Live(c) /\ Live(d) => c = d

\* A stop, disable or prepare_disconnect that no later urgent call replaced waits
\* for the running job only, never behind a queued one (push_front, hand.cpp:112).
PriorityFirst ==
    \A c \in Queued : Live(c) /\ job[c].kind = "urgent" => queue[1] = c

\* Commands reach the session in the order of the tokens: once a newer job has
\* issued one, none of an older, preempted job follows it.
TokenOrder == [][issued' >= issued]_vars

\* The session is open only while its device's key is held, so two hands of one
\* process never talk to one device (architecture.md:46), and is_connected() says
\* yes only while it is open, whatever mixture of connect, disconnect and cleanup
\* is under way.
OwnedWhileOpen ==
    /\ session => owner = "self"
    /\ connected /\ ~closing => session

\* Once the worker is joined nothing is left over: no queued job that would never
\* be answered, no open session, no ownership, no stuck counter.
JoinedHandHoldsNothing ==
    worker = "none" =>
        /\ queue = <<>> /\ current = NoCaller
        /\ ~connected /\ ~session /\ owner # "self"
        /\ ~ordinaryBusy /\ urgentCount = 0

\* The disconnect(connect_token) of a failed connect never tears down anything
\* newer: when it is about to close, the generation is still that connect's and
\* no connection is published (hand.cpp:136, 239).
StaleConnectSparesNewer ==
    \A c \in Callers : pc[c] = "update" /\ job[c].token # 0 =>
        generation = job[c].token /\ ~connected

\* No call in progress: what a single-threaded user of the API sees.
Quiescent == \A c \in Callers : pc[c] = "idle"

\* When every call has returned, a hand that is not connected has closed the
\* session and given the device back, also after a connect cancelled halfway.
DisconnectedHandHoldsNoDevice == Quiescent /\ ~connected => ~session /\ owner # "self"

\* "failed connect releases worker/owner" (src/tests/transport.cpp:52): when every
\* call has returned, a hand that is not connected has no worker either, so that
\* the next connect() is not refused as "already connected".
FailedConnectReleasesWorker == Quiescent /\ ~connected => worker = "none"

\* Every call returns: no lost job, no promise left unanswered, no disconnect that
\* waits for ever for the worker.
EveryCallReturns == \A c \in Callers : pc[c] # "idle" ~> pc[c] = "idle"
=============================================================================
