# Formal model of roboparty_dexhand

TLA+ modules, TLC configurations and TLAPS proofs for the control software of the
Roboparty dexterous hand. Paths below are relative to the repository (`src/hand.cpp` is
the file the manifest calls `src/src/hand.cpp`). The modules are translated from the code;
the documents are used only to learn what the code is supposed to promise.

## The system

| Part | State it keeps | Operations | Hard behaviour |
| --- | --- | --- | --- |
| **Hand control**, `src/hand.cpp` (`Hand::Impl`) | job queue, `ordinary_busy`, `urgent_count`, `generation`, `connected`, `closing`, `worker_exit`, worker thread, process-wide `owners` | `submit`, `run`, `connect`, `disconnect`, `cleanup`, `open_device` | API calls of many threads against one worker; cancellation by generation; urgent calls that overtake; connects cancelled half-way |
| **Hand actions**, `src/hand.cpp` | per-call attempts, deadlines, baselines | `action`, `home`, `parameter`, `confirm`, `configure_feedback`, `write_feedback_period` | confirmation by later feedback, retries, cancellation between attempts |
| **Session commands**, `src/rphand/session.cpp` | per-axis mode, control code and parameters, dirty flags, `restore_pending_`, `allow_no_home_` | `set_enable`, `set_clear_alarm`, `set_control_mode`, `stop_motors`, `home_motors`, setters, `apply_motion_params`, `move_motors` | any frame may be refused in the middle of an operation; the device ignores repeated codes |
| **Session I/O**, `src/rphand/session.cpp` | snapshot, feedback, pending SDO, `closed_`, `ready_`, `rx_failed_` | `open_transport`, `receive_loop`, `set_canfd_data_decode`, `transact_sdo`, `pause`, `wait_*`, `close` | receiver thread against worker; late and foreign SDO answers; lost wake-ups; stale feedback |
| **Protocol**, `src/rphand/protocol.cpp` | none (pure), except the position reconstruction | payloads, SDO validation, feedback decoding, kinematics | 16-bit wrap-around, boundaries |
| **SocketCAN backend**, `backends/socketcan.cpp` | socket | `open`, `send`, `receive`, `close` | thin wrapper: a send may fail |
| **gs_usb backend**, `backends/gs_usb_*` | ten transmit slots, receive buffer, `failed` | `send`, `receive`, `reset_and_drain`, `open`, `close` | slots returned by echoes, echo before the write returns, bounded draining, record boundaries |
| **ROS node**, `ros2/rphand_ros/src/rphand_node.cpp` | hand, target, `accept_targets_`, `reset_busy_`, `pending_reset_`, `stop_requested_`, `exiting_` | subscription, reset service, `manage`, `run`, `reset`, destructor | reset, shutdown and targets race |
| **Joystick mapper** and scripts, `ros2/rphand_ros/scripts` | pending resets, running waves | button handlers, timers | resets of several clients collide; a wave ends while the node ignores commands |
| **Bindings, examples, build** | none | | not modelled |

How they interact: user code, the ROS node or the Python bindings call `Hand`. A call is
checked, turned into a job and handed to the control worker; the caller sleeps until the
worker answers. The worker is the only thread that runs session commands. A session owns a
transport and a receiver thread, which writes the feedback snapshot and answers pending SDO
transactions under `receive_mutex_`. The backends send frames and deliver received ones.
Several `Hand` objects of one process meet only in the set `owners`.

What makes the parts correct:

* *Hand control*: one operation at a time, urgent calls first, preempted operations do
  nothing more, every call returns, the device is owned while it is used and free
  afterwards.
* *Hand actions*: success is reported only after newer feedback confirmed it.
* *Session commands*: what the program believes the device has is what the device has;
  success means executed; nothing is executed that nobody asked for.
* *Session I/O*: an answer goes to the transaction it belongs to; a cancelled wait ends;
  feedback reported as valid is fresh in both groups.
* *Protocol*: the state a user reads is that of the last complete frame of each group.
* *gs_usb*: a slot is never used twice; waiting for one ends; draining ends and tells the
  truth; records are put together where they were cut.
* *ROS node*: no session sends a target received before its reset; shutdown ends.
* *Joystick mapper*: a reset asked for is answered; a finished wave leaves the hand open.

The hazards behind these claims are listed line by line in `PROJECT.json`.

## Modules

### HandControl - the control side of one hand

Follows `Hand::Impl` variable by variable: `generation`, `closing`, `connected`,
`workerExit`, `ordinaryBusy`, `urgentCount`, `queue` are the members of the class;
`session` says whether transport and receiver are open, `owner` who holds the device key.
`worker` is the program counter of `run()`, `pc[c]` that of a caller; `job[c]` holds kind
and token of the one job a blocked caller can have, so the queue is a sequence of callers.
`issued` is a history variable: the token of the job that last issued a command.

An action is what happens under one lock or around one visible atomic: `submit` is one
critical section of `queue_mutex` (`SubmitOrdinary`, `SubmitUrgent`); `connect` holds both
mutexes from the joinable test to the start of the thread (`Connect`,
`ConnectWithoutThread`); `disconnect` is split at taking `lifecycle_mutex` together with
the generation test, the flag update, and the join (`LockLifecycle`, `BeginClosing`,
`Join`). The worker pops, tests the token, runs, settles counters and answers in separate
steps (`Pop`, `StartJob`, ..., `FinishJob`, `Deliver`), and `open_device`/`cleanup` are cut at
each write another thread can see: transport, `connected`, the last cancellation test,
unpublish, close, release of the key. An exception from `open_transport`, which passes
`cleanup` by, is one of the outcomes of `OpenDevice`.

What a job does is abstracted to `IssueCommand` and `CheckCancelled`: up to `MaxCalls`
commands, success or failure at any point. `action()` and `home()` test the cancellation
between two commands, `parameter()` sends two without a test; so a test may or may not come
in between. A refused
call changes nothing and has no action. `OtherAcquire`/`OtherRelease` are another `Hand` of
the same process with the same key.

### MotionCommands - the command side of an open session

The cache (`mode`, `control`, `velocity`, `current`) with `velocityDirty`, `currentDirty`
and `restorePending`, and an operation as the list of frames it sends: `First[o]` is its
first step, `Following(s)` the next one. `command_mutex_` is held throughout an operation, so
operations do not overlap; between frames only the receiver runs (`ReceiveStatus`). Each
step takes an outcome: `"lost"` is a refused send (`send` returned 6), which ends the
operation and leaves the cache as it is - `control()` writes the cache before `emit()`.
`Skip` passes a conditional frame by; `CheckHomed` is `move_motors` returning 11.

A refused frame never reaches the device: SocketCAN does not queue it, an exhausted slot
pool rejects it before writing, and a failed USB write breaks the transport for good.

The device is external and modelled from how the code treats it: a control frame carries
mode and code of every axis; an axis executes a code only when it changes
(`session.cpp:252`); stop and the start of homing make it forget the parameters, which is
why `stop_motors` and `home_motors` mark them dirty. At `Init` the device is as any earlier
session left it. The parameters are set for all axes together, as `Hand` does. Positions
are not modelled: nothing depends on their values.

`strayed` is a history variable: a stop or home code left in the cache by a refused frame
was executed during some other operation. It is the one way in which the dirty flags can
be wrong, and it is the defect of the second finding; the delivery properties exclude it.

`homing` remembers how the last homing was sent: "started", "failed" when one of its two frames
was refused, and "muddled" when another control frame was refused after that, which leaves mode 0
in the cache while the device may be in mode 5. Only there a position may go out in the wrong
mode. `unnoticed` says that the move in progress decided on feedback in which a stop of the device
did not show yet; `Decide` sets it where `move_motors` reads the cached running status.

### SessionIo - waiting, receiving and connecting

The other half of the session: the receiver thread (`receiver`), the pending SDO transaction
(`pending`, `reply` for `answered_` and `sdo_`), the flags `closed`, `rxDone`, `rxFailed`, and
the control worker on its way through `open_device`: open the transport, `initial`, write
every feedback-period register with up to three attempts, take the baseline, send the
configuration repeatedly, wait for both feedback groups, work, close. `Registers`, `Attempts`
and `Repeats` are 6, 3 and 10 in the code.

All waits share one condition variable. `Evaluate` takes `receive_mutex_` and tests the
predicate (`Satisfied`, by `waitFor`), `Sleep` releases the mutex, a notification or `TimeOut`
ends the sleep, `Resume` is the code after the wait. In between the worker holds the mutex
(`MutexFree` is false); the predicate also reads the generation, which `submit` and
`disconnect` change without that mutex (`Cancel`) before they notify under it
(`NotifyWaiters`). Wake-ups without a cause are left out: the predicate would be tested
again and nothing else changes. The worker is the only waiter. The snapshot's sequence numbers
are compared with one baseline at a time, so `fresh`, the groups newer than the baseline,
stands for them. A transaction that ends by itself and one that times out differ in `rc`, on
which `Settle` decides as `write_feedback_period` does.

The bus is two bounded queues. The device is external: a request may be lost, carried out or
refused, with or without an answer, at any later time, also during a later connection. It is
not restarted and keeps what was written. `heard` is a history variable: the groups received
since the last register was confirmed.

`HandControl` treats all this as one step with any outcome; `Disconnect` and `Cancel` here are
what its callers do.

### HandActions - enable, disable, stop, prepare_disconnect

`action()` and `confirm()` for one call at a time, with positions sent in between: decide from
the last status frame (`Decide`), take the baseline of the status sequence, send, wait for a
status newer than the baseline that matches (`Confirm`), or try again; `prepare_disconnect`
stops once and then disables whatever became of the stop. The device obeys a command or not,
axis by axis, restarts, and sends status frames that are some time on their way. A frame
carries two history marks: `past`, a command was sent since it was made, and `foreign`, it is
`past` and of before the call. The 100 ms for which each feedback group is valid end at any time
(`Expire`); of a restart only that it is silent for longer than that is assumed, so `restarted`
marks the time until the old status has expired.

### Homing - home

The loop of `home()`: start the whole hand, again while some axis was not seen homing, wait
until all were seen and all are homed and at rest, then send position mode 30 times. `observed`
is `observed_home` of the snapshot, `tracking` is `track_home_`. Here it matters which runs an
axis makes, so starts may be ignored or repeated by each axis, a run of an earlier call may
still be under way, and position mode ends a run half-way. One assumption about time is in the module: a status frame
arrives before the next one is sent. Frames come in any phase, also between the decision to start
and the start. The code takes 5 ms there, less than the period of 20 ms, but a send may wait
100 ms for a slot and the worker may be held up. `window` is a history variable for that: "quiet",
a frame "arrived" after the decision, or yet another one was sent and the start of this call is
"late". The two safety properties exclude calls with a late start. That condition is needed: without
it TLC finds `home()` returning true, and position mode being restored, while axes are on the
run of a late repeated start, because the frame sent before that start completes the set and is
decided on after it. `docs/sdk-manual.md:491` promises completion without this exception. The
axes that ran since the oldest frame on its way are kept in `ran`.

### Feedback - from a frame to the snapshot

`valid_feedback`, `decode_motor_feedback` and the feedback branch of `set_canfd_data_decode`,
byte by byte, with `snapshot()`. A frame is the answer of `Byte(f, i)`: what the device, which is
external, put at each byte, any length, slot count and type, for this node or not. The property
compares the snapshot with `said`, what the last complete frame of each group reported, so
that layout, sign, wrap-around, the eight-slot stride and the record shared by both groups are
all between the two. Time is ticks of `Expiry` per 100 ms. `OpenTransport` and `Initial` are the
two calls that begin a connection: both forget what was received, the first one also resets
`rx_failed_`, so that a receive error between them lasts into the new session as it does in the code.
A position beyond the stroke has to show the end it lies beyond: 10000 for words above one stroke
and 0 for words above two, which are those below zero. One value is cut by neither clamp of
`protocol.cpp:173-174`: a raw position of exactly 20000 is shown as 20000, although
`docs/sdk-manual.md:48` gives 0..10000 as the range. `ShowsMotion` names that value, so the run
shows what the code does with it and does not claim that it is right.

### GsUsb - transmit slots, echoes, reset, start and close

The WinUSB backend as its two threads use it. `worker` is the control worker in `open`, `send`
and `close`, `receiver` the thread in `receive()`; `pending`, `failed` and `started` are the
members. A send claims the first free slot under the mutex (`Claim`), writes and returns in
separate steps, because the adapter may answer first. The adapter is external: it transmits
or loses the frames it holds, in any order (only their number per slot is kept), repeats an
echo when it is faulty (which counts as a failure: the repeated echo breaks the transport or passes
for that of a newer frame, and nothing is claimed of the slots from there on), and is found running or with old data in the pipe. RESET may fail
after it reached the adapter, START may be answered too late. Configuration
requests change none of these variables; that one may fail is `OpenFails`.

### UsbDrain, ReceiveBuffer and UsbInput - what comes from the adapter

`UsbDrain` is the loop of `drain_stopped_rx` with its clock in milliseconds: any packet sizes,
any delay of a read. `ReceiveBuffer` is `gs::ReceiveBuffer` by sizes: transfers of full records,
of which the last may be compact, a bare header or cut off, in packets of `PacketSize`;
`Verdict` is what `next()` decides from the bytes it holds, `RecordSize` how far it moves.
`UsbInput` composes them as `open()` does: nothing is received before the drain said
quiet. `GsUsb` has the drain as one step, and only the echoes among the records.

### RosNode and ResetContract - the ROS node of one hand

Follows `DexHandNode` member by member: `resetBusy`, `acceptTargets`, `pendingReset`,
`stopRequested`, `exiting` and `target`, with `contextOk` for `rclcpp::ok` and `hand` for what
`hand_` is. Every critical section of `mutex_` is an action: the cmd callback
(`ReceiveTarget`), the reset service (`Reset`), the destructor (`Destroy`), the steps of
`manage()` (`manager`) and those of `run()` and `reset()` (`session`). `Calls` lists the seven
SDK calls of a reset; each may succeed, fail or throw, and none is made once the node is
leaving. `Destroy` may come while the context is alive, since `spin()` may throw; it then stands
also for the shutdown that follows. What happens inside the calls is HandControl. A target is represented by the number of
resets that were accepted before it was received, so that its age can be told; `epoch` and
`served`, the reset a session was started for, are history variables. Rejected messages and
Busy answers change nothing and have no action; publishing the state is left out.

`ResetContract` is what a client of the node may rely on: a node that is idle, resetting,
ready or closed and keeps a target or not. RosNode implements it with the mapping `phase`
and `target # 0`: at most one reset is in progress, it forgets the target, only a successful
one makes the node ready, and a closed node stays closed.

### JoyMapper - the joystick and the node

Extends RosNode by the mapper (`rphand_joy_mapper.py`): the D-pad's edge detection, the motor
button, `_reset_pending`, a wave, and the messages between both programs. A request is answered
at once, accepted or Busy; a command waits in a queue of depth 1, so a newer one replaces it; the
node takes or ignores it as RosNode says. Other clients may reset the hand. Either program
may end. The run checks all properties of RosNode in this composition, with commands that
arrive late and not at will. The mapper has no timeout: a request that a node took to its
end, or that no node ever receives, is waited for as long as the mapper lives. `RequestEnds`
excuses exactly these, and says that a running node answers and the mapper notices.

### MC and proof modules

The `MC` modules give TLC its symmetry sets, named sets of operations and inputs. Definitions
marked "faulty variant" in a module are plausible bugs of the code; a property that does not
notice its variant would be worthless. The modules named `_proofs` hold the theorems.

## Runs

| Run | Configuration | Checks | Result |
| --- | --- | --- | --- |
| `hand` | `HandControl.cfg` | accounting, one live job, priority, token order, ownership, nothing left behind, stale connects; every call returns | holds |
| `hand_failed_connect` | `HandControl_failed_connect.cfg` | a failed connect releases its worker | **violated** |
| `session` | `SessionIo.cfg` | answers belong to written registers, no lost wake-up, receiver within transport, new feedback before publishing; a cancelled connect ends without any deadline | holds |
| `motion` | `MotionCommands.cfg` | delivery, restoring after homing and after a stop, success means executed, with refused frames; codes executed by `clear_faults` until a frame is refused | holds |
| `motion_clear` | `MotionCommands_clear.cfg` | `clear_faults` enables, disables or homes nothing, on a link that may refuse frames | **violated** |
| `actions` | `HandActions.cfg` | an action that reports success was right about the whole hand | holds |
| `actions_stop` | `HandActions_stop.cfg` | the same for `stop()` without its condition | **violated** |
| `homing` | `Homing.cfg` | `home()` reports true only for runs it saw and never ends one, without late starts; it ends itself | holds |
| `feedback` | `Feedback.cfg` | the snapshot is that of the last complete frames | holds |
| `gs_usb` | `GsUsb.cfg` | slots, causes of failure, closing; sends go on, failures reach the receiver | holds |
| `usb_input` | `UsbInput.cfg` | the drain, record boundaries, fragments | holds |
| `ros` | `JoyMapper.cfg` | mapper and node: targets and resets, sessions, waves, `ResetContract`; resets, requests and shutdown end | holds |

`ClearOnReliableLink` in `motion` and `ClearStartsNothing` in `motion_clear` are two different
statements about `clear_faults`. The first is about every code, with a history of the link
(`link`): as long as no frame was refused, the addressed axes execute code 3 and the others none.
It says nothing about modes: the frame carries the cached mode 0 to axes that are homing as well, and
may end their run. The second is what the documentation promises, codes 1, 2 and 4 only, and one
refused frame breaks it.

The type invariants are not among the runs' invariants: they are proved for every instance,
and TLC was left to what says more.

Bounds. Three callers in `hand` are one running job, one queued or urgent one and a third call in
between; the races found need two or three. `MaxGen` = 7 stops new calls once seven tokens
were given out, enough for a failed connect, a successful one, two urgent calls and two
disconnects; `MaxCalls` = 2 allows a second command, with or without a test before it. The bound guards the start of calls
only, so everything in progress runs to its end. Two axes tell the addressed one from the others
and two parameter values tell changed from unchanged; in `motion` only `disable` is left out,
which sends the frames of `enable` with another code. The number of operations is not bounded.
In `session` two registers with two attempts each let the answer of one attempt arrive during the
next attempt, the next register and the next connection; one request is under way, and one frame
is waiting to be read. Connections are not counted. `actions` has two axes, two attempts (`prepare_disconnect` has one by itself) and
one frame on its way, which may be of an earlier call, of an earlier attempt or new. `homing` has
three starts, one more than ignoring one and repeating one need, and two restoring frames, the
first and one after it. In `gs_usb` three slots are one in flight, one with its echo on the way
and one free, and all of them taken; nothing else is bounded. `usb_input` drains with every limit
small enough to be the one that is reached (four reads, nine bytes, a deadline of 6 and a quiet
time of 3 with reads of up to 2) and receives records of their real sizes, up to three in a
transfer, in packets of 64 bytes, so that packets end before, within and after headers.
`feedback` has two profiles of all eight slots, one in which every slot differs and one of values
at the edges; lengths and slot counts on both sides of each limit. `ros` has up to three resets:
a session being replaced, the reset that replaces it and one that comes too early; each
program lives once.

Deadlock checking is off for HandControl, where the bounded system stops when the token bound is
reached and all calls have returned, as a program that makes no more calls does; for JoyMapper,
whose programs end; and for UsbInput, since `open()` fails when the adapter is not silent and a
failed transport receives nothing more.

Fairness. `hand` assumes weak fairness of the worker thread and of the steps that
return from a call in progress: a started thread keeps running. No call has to be made, and
other hands need not release anything. `std::mutex` is not fair, but a caller that waits for
`lifecycle_mutex` can be overtaken only by calls that start later, and these are bounded, so
weak fairness is enough. A job is taken to end, which `HomeEnds` shows for the longest one.
`session` assumes weak fairness of the worker, of the receiver (its `receive` returns
within 20 ms, `socketcan.cpp:78`) and of the thread that is about to notify, but not of
`TimeOut`, of the bus or of the user: what it shows does not rest on a deadline expiring.
`homing` assumes that the worker runs and that its 60 s pass, nothing of the device.
`gs_usb` assumes that both threads run, that a frame in a running adapter is transmitted or
lost, and that an echo in the pipe is read at last (strong fairness: `receive` reads what is
there, other records come first); the timeout of a waiting send is left out, so
`SendGoesOn` rests on echoes, notifications and failures alone. `ros` assumes weak fairness of
the manager and session threads, whose waits are woken by `cv_` or end within 20 ms and whose
SDK calls return (`EveryCallReturns`), of the destructor once the context is shut down, since `spin()` then
returns, and of both executors. Nobody has to send a message or shut a program down.

### What the violations show

1. `FailedConnectReleasesWorker`. Between `connected = true` and the last cancellation
   test of `open_device` (`src/hand.cpp:190-191`) another thread may submit an urgent call,
   which advances `generation`. The connect job fails and cleans up, `connect()` calls
   `disconnect(connect_token)`, which finds a newer generation and returns (`:136`). The
   worker is never joined: the hand is not connected, yet the next `connect()` is refused as
   "already connected/connecting" until the user calls `disconnect()`.
   `tests/transport.cpp:52` expects "failed connect releases worker/owner". The device and
   its key are given back (`DisconnectedHandHoldsNoDevice` holds).
2. `ClearStartsNothing`. `control()` changes the cache before the frame is sent and
   nothing undoes it when the frame is refused. After a refused homing start mode 5 and code
   4 stay cached for all axes; `clear_faults(1)` neutralises only axis 1 and emits the cache
   of all six, so the others start homing. `docs/api.md:124` says `clear_faults` does not
   disable, enable or home on its own. The counterexample is this one: a homing whose
   second frame is refused, then clearing the faults of one axis. The same leftover can repeat a stop,
   and if a control frame is refused after a homing that failed half-way, a position may
   be sent while the device is still in homing mode.
3. `StopMeansStill`. `action()` answers true at once when valid feedback already shows the
   state it is asked for (`src/hand.cpp:269`). Positions are sent without confirmation, so a
   `stop()` within one status period after `set_positions()` decides from a frame of before the
   motion: it returns true, sends nothing, and the hand moves. `docs/sdk-manual.md:461` says that
   `stop()` waits until six axes have reached the stop condition. `docs/api.md:59` does document
   that a condition satisfied by valid feedback is answered without sending, so this
   is a disagreement between two documents that the code settles for the second one.
   `disable()` right after an `enable()` that was cancelled before any status showed it is
   answered in the same way.

## Proofs

TLC checks the instances above; the theorems hold for every set of callers or axes and
every bound, from the named assumptions in the modules (`NoCaller` is no caller, bounds are
naturals, `Forgotten` is no parameter value, outcomes are `"ok"` or `"lost"`, a report of the
device consists of words and bytes, a frame has at most 64 bytes, a record fits the buffer).

* **HandControl_proofs**: `ControlInv` is inductive. `BusyAccounting` alone is not: that
  `FinishJob` leaves the right counters needs that the queue is a sequence without
  repetitions of exactly the waiting callers other than `current` (`QueueInv`,
  `CallerInv`), that the worker's position fits its job (`WorkerInv`), and that tokens never
  exceed `generation` and an ordinary job admitted while nothing is pending cannot be
  joined by another. `TypeOK`, `BusyAccounting`, `AtMostOneLive` and the action property
  `TokenOrder` follow. `TokenOrder` rests on the invariant that a job which may still issue
  commands has a token not smaller than `issued`.
* The second part of **HandControl_proofs** is about the device and adds three invariants on
  top of `ControlInv`: `DeviceInv` (what each position of the worker says about session, key and
  publication), `FailedInv` (tokens of failed connects are older than that of a running connect,
  and the newest of them published nothing) and `PriorityInv` (the urgent job with the current
  token is in front).
  `OwnedWhileOpen`, `JoinedHandHoldsNothing`,
  `StaleConnectSparesNewer` and `PriorityFirst` follow. `DisconnectedHandHoldsNoDevice` needs
  a fourth, `ReleaseInv`: its statement is about moments without a call, and a connect gives the
  device back in steps of three threads. The invariant says that a hand that stopped being
  connected without a disconnect holds no session, and keeps the key only as long as the
  caller of the failed connect is on its way to clean up.
* **MotionCommands_proofs**: `MotionInv` adds to `CleanMeansDelivered` that each step belongs
  to an operation that contains it (`StepShape`: a stop or home code reaches the device only
  from stop, home or as a leftover) and that the earlier flags are clean when a later
  parameter or the position is due (`ApplyOrder`). `PositionUsesDelivered` follows.
  A second invariant on top of it, `OutcomeInv`, gives
  `SuccessMeansExecuted` and `ClearOnReliableLink`: a started homing leaves mode 0 in the
  cache, and `restorePending` set until every axis has received it (`HomeOrder`); when a code
  has to be new to the device it holds another one (`DeviceOrder`); and as long as no frame
  was refused a cached code is 0 or the one the device received last (`CachedCodes`).
  `HomeOrder` gives `RestoredBeforePosition` for a homing that was sent; a third invariant,
  `MoveInv`, gives it for one that stopped half-way, where the cached mode 0 of an axis is one the
  device has received (`ModeOrder`). Its other part, `RevokeOrder`, gives `RevokedBeforePosition`: an
  axis whose last code is 8 is not stopped, so the revoking frame is a new code for every stopped
  axis and releases it, and no later frame of a motion stops one.
* **HandActions_proofs**: `SuccessIsTrue` and the types, for any number of axes and attempts, and
  whatever else uses the hand before the call. The hard case is a frame that is older than
  the call and arrives in the middle of it. `FramesInv` therefore says how true each frame on
  its way and the snapshot are of the device (`TrueOf`): exactly, if no command came since; and
  if only commands of this call came, on the side that matters, since the attempts of a call
  move an axis in one direction only. `CallInv` says what the call asks for and which attempts
  are left.
* **Feedback_proofs** has two independent parts. `SnapshotIsLastFrames` is proved for every value
  of each word and byte, every type, length and number of slots, where TLC has two profiles of the
  device. Lemmas about the decoder carry it: the code's checks accept exactly the complete
  frames (`AcceptedIsComplete`), the offsets hit the bytes of the addressed axis, and a word
  put together, signed, multiplied and clamped means what the report says. The invariant
  (`FeedbackInv`) says separately for motion and status what the snapshot shows, and that the ages
  the session keeps are those of the complete frames.
  The part on `Homing` proves `HomeMeansHomed` and `RestoreSparesRuns` for any number of axes, as
  long as no start was late. The worker decides on old frames, so the invariant compares three places of a status: once every axis
  was seen, a status without runs, in the snapshot or on its way, is younger than the last start
  (`AfterStart`). That survives a repeated start because a start is repeated only while an
  axis is missing, and a frame that completes the set in between shows a run (`BeforeStart`).
* **SessionIo_proofs**: `SessionInv` is `TypeOK` with five parts. `ConfirmedAreWritten` needs
  `AnswerInv`: acknowledgements on their way tell the truth, an answer is taken only while a
  transaction is pending, and an accepted one is about the current register; `RegisterInv`
  bounds that register. `NoLostWakeup` needs `WakeInv`, the same statement already while the
  worker still holds the mutex. `ReceiverHasTransport` needs that no receiver runs where the
  transport is closed or opened (`ReceiverInv`), and `OpenOnNewFeedback` that after the
  baseline nothing counts as fresh that is not in `heard` (`FeedbackInv`).
* **RosNode_proofs**: `NodeInv` is `TypeOK` with three parts. `ManagerInv`: a reset stays busy
  from its acceptance to its report, and the manager goes on only after the session was
  joined. `HandInv`: each position of the session tells what its hand is. `TargetInv`:
  targets are accepted and kept only for the newest reset, whose session has homed the hand.
  `NoTargetCrossesReset` is not inductive without all three: a target may be sent after a
  newer reset was accepted, but not after its session was started. `HandBelongsToSession`
  and the refinement of `ResetContract` follow from the same invariant.
  The part on JoyMapper shows first that every step of the composition is a step of the node or
  leaves the node alone (`JoyImplementsNode`), so all of the above holds there too, with
  commands that arrive late. `JoyInv` then gives `OneRequest` and `FinishedWaveOpensHand`: the
  command that ends a wave is in the node's queue or was taken, unless a reset came after it.
* **UsbInput_proofs**: `DrainIsSound` for every limit, delay and packet size. Its two halves share one
  addition, `QuietClock`: while the drain runs, `quietSince` is when the last thing came. It is
  what makes "quiet" true, since the code measures from `quietSince` and the property from
  the last data. `RecordBoundary` and `OnlyFragmentsRejected` follow for any
  records and any size of packets from `InputInv`: the bytes in the buffer and those still unread
  are exactly the records of a transfer that was read to its end and those of one that was not
  (`Cut`), in each only the last record may be cut short, and a failure is about the
  oldest record (`FailureInv`). The bytes of a sequence of records are a recursive function; what
  the proof needs of it (one record more, one less, never negative) is shown from its defining
  equation with an argument on the shortest counterexample.
* **GsUsb_proofs**: `SlotAccounting`, `FailureHasCause` and `ClosedMeansStopped` for any number of
  slots. The invariant says for each place of the two threads what they hold (`Places`: no receiver
  outside an open transport, a slot while it is written), what is clean when (`Cleaned`:
  nothing is in the adapter after RESET, nothing in the pipe after a drain that ended quiet), and
  that the adapter does not run without `started` or `refused` (`KnownRunning`).
  `SlotAccounting` and `FailureHasCause` are inductive only together: an echo is
  never unexpected because each slot is under way exactly once, and it is as long as nothing
  has failed. That a free slot is found rests on `LeastExists`.

Every invariant and every action property of the runs that hold is a theorem. Only model-checked is
all liveness (`EveryCallReturns`, `CancelledConnectEnds`, `HomeEnds`, `SendGoesOn`,
`FailureReachesReceiver`, `ResetEnds`, `ShutdownEnds`, `RequestEnds`), since liveness under fairness
is out of the prover's reach; and the three violations are TLC's counterexamples.

## Not modelled

* SocketCAN: pure I/O, whose visible effects, a refused send and a receive that returns after
  20 ms, are in MotionCommands and SessionIo.
* Payloads: the bytes of command and SDO frames, bit timing and the fields of gs_usb records
  other than their sizes and echo ids; angles and kinematics, which are floating point.
* `parameter()` and the setters it serves (`set_safe_current_enable`, `recover_stop`, reading
  an SDO for the user): requests and answers themselves are SessionIo.
* The pacing and publishing of the ROS node, scripts that only publish, bindings, examples,
  build and packaging.
