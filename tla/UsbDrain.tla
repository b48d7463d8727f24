------------------------------ MODULE UsbDrain ------------------------------
(***************************************************************************)
(* drain_stopped_rx (src/rphand/backends/gs_usb_drain.hpp): reading what a *)
(* stopped adapter still holds, until it has been silent for QuietTime or  *)
(* one of three limits is reached. GsUsb has the whole loop as one step.   *)
(*                                                                         *)
(* Time is counted in ms from the call. A read takes any time up to        *)
(* ReadTime, and so does the thread between two steps. The adapter is      *)
(* external: a read returns any number of bytes up to a packet, none       *)
(* included, or times out, or fails.                                       *)
(***************************************************************************)
EXTENDS Integers

CONSTANTS
    MaxReads,     \* 1024
    MaxBytes,     \* 64 KiB
    Deadline,     \* 500 ms
    QuietTime,    \* 40 ms
    ReadTime,     \* bound on one read: 20 ms and the delays of the scheduler
    PacketSizes   \* bytes one read may return

ASSUME DrainAssumption ==
    /\ {MaxReads, MaxBytes, Deadline, QuietTime, ReadTime} \subseteq Nat \ {0}
    /\ PacketSizes \subseteq Nat

VARIABLES
    status,       \* "running", or what the caller is told
    reads,        \* result.reads
    bytes,        \* result.bytes
    now,          \* the clock
    quietSince,   \* quiet_since
    lastData,     \* history: when the last read that was not a timeout ended
    silent        \* history: reads since then

vars == <<status, reads, bytes, now, quietSince, lastData, silent>>

Statuses == {"running", "Quiet", "ReadFailure", "Limit"}

TypeOK ==
    /\ status \in Statuses
    /\ reads \in Nat
    /\ bytes \in 0 .. MaxBytes
    /\ now \in Nat
    /\ quietSince \in Nat
    /\ lastData \in Nat
    /\ silent \in Nat

Init ==
    /\ status = "running"
    /\ reads = 0
    /\ bytes = 0
    /\ now = 0
    /\ quietSince = 0
    /\ lastData = 0
    /\ silent = 0

GoesOn == reads < MaxReads /\ bytes < MaxBytes /\ now < Deadline

\* The loop ends at its head, with the status it was initialised with.
Stop ==
    /\ status = "running" /\ ~GoesOn
    /\ status' = "Limit"
    /\ UNCHANGED <<reads, bytes, now, quietSince, lastData, silent>>

\* More than is left up to MaxBytes counts as MaxBytes.
Sum(n) == IF n >= MaxBytes - bytes THEN MaxBytes ELSE bytes + n

\* Faulty variant: an empty packet does not count as activity.
QuietSinceData(n, time) == IF n = 0 THEN quietSince ELSE time

\* Empty packets are activity, too.
QuietSince(n, time) == time

ReadData(n, time) ==
    /\ status = "running" /\ GoesOn
    /\ reads' = reads + 1
    /\ now' = time
    /\ bytes' = Sum(n)
    /\ quietSince' = IF n >= MaxBytes - bytes THEN quietSince ELSE QuietSince(n, time)
    /\ status' = IF n >= MaxBytes - bytes \/ time >= Deadline THEN "Limit" ELSE status
    /\ lastData' = time
    /\ silent' = 0

ReadTimesOut(time) ==
    /\ status = "running" /\ GoesOn
    /\ reads' = reads + 1
    /\ now' = time
    /\ status' = IF time >= Deadline THEN "Limit"
                 ELSE IF time - quietSince >= QuietTime THEN "Quiet" ELSE status
    /\ silent' = silent + 1
    /\ UNCHANGED <<bytes, quietSince, lastData>>

ReadFails(time) ==
    /\ status = "running" /\ GoesOn
    /\ reads' = reads + 1
    /\ now' = time
    /\ status' = "ReadFailure"
    /\ UNCHANGED <<bytes, quietSince, lastData, silent>>

Read ==
    \E time \in now .. now + ReadTime :
        \/ \E n \in PacketSizes : ReadData(n, time)
        \/ ReadTimesOut(time)
        \/ ReadFails(time)

Next == Stop \/ Read

Spec == Init /\ [][Next]_vars

-----------------------------------------------------------------------------

\* "Quiet" is never said too early: for QuietTime up to the answer nothing at
\* all came, not even an empty packet, the last read was waited for, and the
\* answer came within the deadline.
QuietIsProved ==
    status = "Quiet" => /\ now - lastData >= QuietTime
                        /\ silent > 0
                        /\ now < Deadline

\* A drain ends however busy the adapter is and even if the clock stands still:
\* reads are limited, and the deadline is passed by one read at most.
WorkIsBounded == reads <= MaxReads /\ now < Deadline + ReadTime

\* An answer is right and comes in time.
DrainIsSound == QuietIsProved /\ WorkIsBounded
=============================================================================
