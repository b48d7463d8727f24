------------------------------ MODULE Feedback ------------------------------
(***************************************************************************)
(* From a frame on the bus to the state a user reads: valid_feedback and   *)
(* decode_motor_feedback (src/src/rphand/protocol.cpp), the part of        *)
(* set_canfd_data_decode that keeps the snapshot, and snapshot()           *)
(* (src/src/rphand/session.cpp).                                           *)
(*                                                                         *)
(* Both feedback groups are decoded into the same record of an axis, and a *)
(* motion frame carries a status byte too; the snapshot takes from that    *)
(* record what belongs to the group. A frame is what the device put at     *)
(* each of its bytes; it may be cut short, of another kind or for another  *)
(* node. Angles, and observed_home (module Homing), are left out.          *)
(***************************************************************************)
EXTENDS Integers

CONSTANTS
    Profiles,    \* what the device may report: profile[slot] for the slots 0..7
    Lengths,     \* lengths of CAN FD frames
    Slots,       \* numbers of slots in a frame
    Types,       \* types of frame
    Expiry       \* ticks of the clock in 100 ms

Words == 0 .. 65535
Bytes == 0 .. 255

ASSUME ProfilesAssumption ==
    Profiles \subseteq [0 .. 7 -> [position : Words, velocity : Words, current : Words,
                                   status : Bytes, alarm : Bytes]]
ASSUME FramesAssumption ==
    Lengths \subseteq 0 .. 64 /\ Slots \subseteq Bytes /\ Types \subseteq Bytes
ASSUME ExpiryAssumption == Expiry \in Nat \ {0}

VARIABLES
    axes,        \* feedback_
    motion,      \* positions, velocities and currents of snapshot_
    status,      \* its enabled, homed, ... flags and fault codes
    seen,        \* groups whose sequence is not 0
    age,         \* ticks since `last` of each group, up to Expiry
    closed,      \* closed_
    failed,      \* rx_failed_
    said         \* history: last complete report of each group since initial(), and its age

vars == <<axes, motion, status, seen, age, closed, failed, said>>

AxisNumbers == 0 .. 5
Groups == {"motion", "status"}

Silence == [report |-> <<>>, age |-> Expiry]   \* no frame yet
Frames == [toUs : BOOLEAN, type : Types, slots : Slots, length : Lengths, profile : Profiles]

NoAxis == [raw |-> 0, velocity |-> 0, current |-> 0, status |-> 0, alarm |-> 0, position |-> 0]
NoMotion == [position |-> 0, velocity |-> 0, current |-> 0]
NoStatus == [enabled |-> FALSE, homed |-> FALSE, torque |-> FALSE, fault |-> 0,
             stopped |-> FALSE, emergency |-> FALSE]

Init ==
    /\ axes = [a \in AxisNumbers |-> NoAxis]
    /\ motion = [a \in AxisNumbers |-> NoMotion]
    /\ status = [a \in AxisNumbers |-> NoStatus]
    /\ seen = {}
    /\ age = [g \in Groups |-> Expiry]
    /\ closed = TRUE
    /\ failed = FALSE
    /\ said = [g \in Groups |-> Silence]

-----------------------------------------------------------------------------
(* What the device puts into a frame: type, slots, and then either eight    *)
(* slots of three words followed by one status byte per slot, or a status   *)
(* and an alarm byte per slot.                                              *)

Low(w) == w % 256
High(w) == w \div 256

Report(f, k) == f.profile[k % 8]

Word(r, n) == IF n = 0 THEN r.position ELSE IF n = 1 THEN r.velocity ELSE r.current

MotionByte(f, i) ==
    LET w == Word(Report(f, i \div 6), (i % 6) \div 2)
    IN  IF i >= 48 THEN Report(f, i - 48).status
        ELSE IF i % 2 = 0 THEN Low(w) ELSE High(w)

StatusByte(f, i) ==
    IF i % 2 = 0 THEN Report(f, i \div 2).status ELSE Report(f, i \div 2).alarm

\* The payload after type and slots, byte i of the frame.
Byte(f, i) == IF f.type % 128 = 80 THEN MotionByte(f, i - 2) ELSE StatusByte(f, i - 2)

\* A frame of this node that holds all that the six axes have to say.
Complete(f) ==
    /\ f.toUs
    /\ \/ f.type \in {80, 208} /\ f.slots \in 6 .. 8 /\ f.length >= 2 + 48 + f.slots
       \/ f.type \in {90, 218} /\ f.slots \in 6 .. 31 /\ f.length >= 2 + 2 * f.slots

-----------------------------------------------------------------------------
(* Decoding.                                                                *)

ValidFeedback(type, slots, length) ==
    /\ slots >= 6 /\ length <= 64
    /\ \/ type % 128 = 80 /\ slots <= 8 /\ length >= 50 + slots
       \/ type % 128 = 90 /\ slots <= 31 /\ length >= 2 + 2 * slots

\* The rows of `configs` that valid_feedback lets through.
Config(type) ==
    IF type % 128 = 80 THEN [max |-> 8, stride |-> 6, status |-> FALSE]
                       ELSE [max |-> 30, stride |-> 2, status |-> TRUE]

Needed(c, count) == 2 + IF c.status THEN count * c.stride ELSE c.max * c.stride + count

Lesser(x, y) == IF x < y THEN x ELSE y
Count(f) == Lesser(Lesser(f.slots, 6), Config(f.type).max)

Accepted(f) ==
    /\ f.length >= 3
    /\ ValidFeedback(f.type, f.slots, f.length)
    /\ f.length >= Needed(Config(f.type), Count(f))

Read16(f, i) == Byte(f, i) + 256 * Byte(f, i + 1)

Signed16(x) == IF x < 32768 THEN x ELSE x - 65536

\* A velocity counts in tens; the product is cut to an int16.
Tenfold(x) == Signed16((Signed16(x) * 10) % 65536)

\* A position below 0 wraps around; one beyond the stroke is its end.
Position(raw) ==
    IF raw > 20000 THEN 0 ELSE IF raw > 10000 /\ raw < 20000 THEN 10000 ELSE raw

Decoded(f, a) ==
    LET off == 2 + a * Config(f.type).stride
    IN  IF Config(f.type).status
        THEN [axes[a] EXCEPT !.status = Byte(f, off), !.alarm = Byte(f, off + 1) % 16]
        ELSE [axes[a] EXCEPT !.raw = Read16(f, off),
                             !.velocity = Tenfold(Read16(f, off + 2)),
                             !.current = Signed16(Read16(f, off + 4)),
                             !.status = Byte(f, 2 + 48 + a),
                             !.position = Position(Read16(f, off))]

Bit(b, n) == (b \div n) % 2 = 1
Running(b) == b \div 32

\* Faulty variant: the flag that marks a type is not taken off.
GroupOfWholeType(type) == IF type = 80 THEN "motion" ELSE "status"

GroupOf(type) == IF type % 128 = 80 THEN "motion" ELSE "status"

\* set_canfd_data_decode for a frame that is no SDO reply.
Receive(f) ==
    LET decoded == [a \in AxisNumbers |-> IF a < Count(f) THEN Decoded(f, a) ELSE axes[a]]
        group == GroupOf(f.type)
    IN  /\ ~failed
        /\ said' = IF ~closed /\ Complete(f)
                   THEN [said EXCEPT ![IF f.type \in {80, 208} THEN "motion" ELSE "status"] =
                            [report |-> f.profile, age |-> 0]]
                   ELSE said
        /\ IF closed \/ ~f.toUs \/ f.length < 2 \/ ~Accepted(f)
           THEN UNCHANGED <<axes, motion, status, seen, age>>
           ELSE /\ axes' = decoded
                /\ IF group = "motion"
                   THEN /\ motion' = [a \in AxisNumbers |->
                              [position |-> decoded[a].position, velocity |-> decoded[a].velocity,
                               current |-> decoded[a].current]]
                        /\ UNCHANGED status
                   ELSE /\ status' = [a \in AxisNumbers |->
                              LET b == decoded[a].status IN
                              [enabled |-> Bit(b, 1), homed |-> Bit(b, 16), torque |-> Bit(b, 8),
                               fault |-> decoded[a].alarm,
                               stopped |-> Bit(b, 4) /\ Running(b) \notin {1, 7},
                               emergency |-> Running(b) = 6]]
                        /\ UNCHANGED motion
                /\ seen' = seen \cup {group}
                /\ age' = [age EXCEPT ![group] = 0]
        /\ UNCHANGED <<closed, failed>>

-----------------------------------------------------------------------------

\* What open_transport and initial have in common: nothing was received.
Forget ==
    /\ axes' = [a \in AxisNumbers |-> NoAxis]
    /\ motion' = [a \in AxisNumbers |-> NoMotion]
    /\ status' = [a \in AxisNumbers |-> NoStatus]
    /\ seen' = {}
    /\ age' = [g \in Groups |-> Expiry]
    /\ said' = [g \in Groups |-> Silence]

\* open_transport on a session that is closed; the receiver starts, and may fail
\* before initial.
OpenTransport ==
    /\ closed
    /\ Forget
    /\ failed' = FALSE
    /\ UNCHANGED closed

Initial ==
    /\ closed
    /\ closed' = FALSE
    /\ Forget
    /\ UNCHANGED failed

ReceiveFails ==
    /\ ~failed
    /\ failed' = TRUE
    /\ UNCHANGED <<axes, motion, status, seen, age, closed, said>>

Close ==
    /\ ~closed
    /\ closed' = TRUE
    /\ UNCHANGED <<axes, motion, status, seen, age, failed, said>>

Tick ==
    /\ \E g \in Groups : age[g] < Expiry \/ said[g].age < Expiry
    /\ age' = [g \in Groups |-> Lesser(age[g] + 1, Expiry)]
    /\ said' = [g \in Groups |-> [said[g] EXCEPT !.age = Lesser(@ + 1, Expiry)]]
    /\ UNCHANGED <<axes, motion, status, seen, closed, failed>>

Next == (\E f \in Frames : Receive(f)) \/ OpenTransport \/ Initial \/ ReceiveFails \/ Close \/ Tick

Spec == Init /\ [][Next]_vars

-----------------------------------------------------------------------------

\* feedback_valid of snapshot(), for a hand that says it is connected.
Valid ==
    /\ ~closed /\ ~failed
    /\ seen = Groups
    /\ \A g \in Groups : age[g] < Expiry

\* What a frame's report means: the position is the stroke unit sent, or the end
\* of the stroke it lies beyond, where words of more than two strokes are those
\* below 0. The word between, two strokes, is shown as it is and so outside of the
\* range 0..10000 of docs/sdk-manual.md:48. A velocity counts in tens and is exact
\* as far as an int16 goes.
ShowsMotion(m, r) ==
    /\ r.position <= 10000 => m.position = r.position
    /\ r.position > 10000 /\ r.position < 20000 => m.position = 10000
    /\ r.position > 20000 => m.position = 0
    /\ r.position = 20000 => m.position = 20000
    /\ r.velocity <= 3276 => m.velocity = 10 * r.velocity
    /\ r.velocity >= 65536 - 3276 => m.velocity = 10 * (r.velocity - 65536)
    /\ m.current % 65536 = r.current /\ m.current >= -32768 /\ m.current <= 32767

\* The low bits of a status byte are flags, the high three its running status,
\* of which 1 and 7 are movements and 6 the emergency stop.
ShowsStatus(s, r) ==
    LET running == r.status \div 32
        flags == {n \in {1, 4, 8, 16} : (r.status \div n) % 2 = 1}
    IN  /\ s.enabled <=> 1 \in flags
        /\ s.torque <=> 8 \in flags
        /\ s.homed <=> 16 \in flags
        /\ s.stopped <=> 4 \in flags /\ running \notin {1, 7}
        /\ s.emergency <=> running = 6
        /\ s.fault \in 0 .. 15 /\ (r.alarm - s.fault) % 16 = 0

\* The snapshot is always that of the last complete frame of each group, in any
\* mixture with frames that are cut short, of other kinds or for other nodes and
\* although both groups are decoded into one record; and feedback counts as valid
\* only when a complete frame of each group came during the last 100 ms and the
\* session receives (protocol.cpp:75-178, session.cpp:47-55, :195-221).
SnapshotIsLastFrames ==
    /\ \A g \in Groups : g \in seen <=> said[g].report # <<>>
    /\ "motion" \in seen => \A a \in AxisNumbers : ShowsMotion(motion[a], said["motion"].report[a])
    /\ "status" \in seen => \A a \in AxisNumbers : ShowsStatus(status[a], said["status"].report[a])
    /\ Valid => ~failed /\ \A g \in Groups : said[g].age < Expiry
=============================================================================
