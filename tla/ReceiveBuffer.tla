--------------------------- MODULE ReceiveBuffer ---------------------------
(***************************************************************************)
(* gs::ReceiveBuffer (src/rphand/backends/gs_usb_protocol.hpp): records of *)
(* the adapter put together again from USB packets, as receive() drives    *)
(* it. Bytes are counted, not stored: what matters is where records begin. *)
(*                                                                         *)
(* The adapter is external. It sends transfers of records, cut into        *)
(* packets of PacketSize. The last record of a transfer may be shorter     *)
(* than its full size: compact (the payload in use, or a bare header for   *)
(* an echo), or cut off by a fault. Such a transfer ends with a short      *)
(* packet, an empty one if need be; one of full records that fills its     *)
(* packets may end without.                                                *)
(***************************************************************************)
EXTENDS Integers, Sequences

CONSTANTS
    Records,      \* records: full size, size in use, whether an echo, size sent
    PacketSize,   \* input_packet_size
    MaxPacket,    \* max_chunk: 1024
    MaxRecords    \* bound: records of one transfer

Header == 12
LongestRecord == 76

VARIABLES
    sent,          \* records sent and not yet returned by next(), oldest first
    unread,        \* bytes of the current transfer the host has not read
    endsEmpty,     \* an empty packet is still to end the transfer
    held,          \* end_ - begin_
    transferEnd,   \* transfer_end_
    outcome        \* of the last next() or append()

vars == <<sent, unread, endsEmpty, held, transferEnd, outcome>>

Outcomes == {"Incomplete", "Record", "Misplaced", "Failure", "Overflow"}

TypeOK ==
    /\ sent \in Seq(Records)
    /\ unread \in Nat
    /\ endsEmpty \in BOOLEAN
    /\ held \in 0 .. MaxPacket + LongestRecord
    /\ transferEnd \in BOOLEAN
    /\ outcome \in Outcomes

Init ==
    /\ sent = <<>>
    /\ unread = 0
    /\ endsEmpty = FALSE
    /\ held = 0
    /\ transferEnd = FALSE
    /\ outcome = "Incomplete"

-----------------------------------------------------------------------------
(* The adapter.                                                             *)

Bytes(records) ==
    LET sum[n \in 0 .. Len(records)] == IF n = 0 THEN 0 ELSE sum[n - 1] + records[n].size
    IN  sum[Len(records)]

Transfers ==
    { t \in UNION { [1 .. n -> Records] : n \in 1 .. MaxRecords } :
        \A i \in 1 .. Len(t) - 1 : t[i].size = t[i].full }

Transfer(t) ==
    /\ unread = 0 /\ ~endsEmpty
    /\ LET last == t[Len(t)] IN
       \E empty \in BOOLEAN :
          /\ empty => Bytes(t) % PacketSize = 0
          /\ Bytes(t) % PacketSize = 0 /\ last.size < last.full => empty
          /\ endsEmpty' = empty
    /\ sent' = sent \o t
    /\ unread' = Bytes(t)
    /\ UNCHANGED <<held, transferEnd, outcome>>

-----------------------------------------------------------------------------
(* next(): the size of the record at begin_, judged by its header, the      *)
(* bytes behind it and the end of the transfer.                             *)

\* Faulty variant: any rest of a transfer counts as a record.
AnyRest(r) == TRUE

CompleteRest(r) == held = r.used \/ (held = Header /\ r.echo)

Verdict ==
    IF held = 0 THEN "Incomplete"
    ELSE LET r == sent[1] IN
         IF held >= r.full \/ (transferEnd /\ held >= Header /\ CompleteRest(r)) THEN "Record"
         ELSE IF transferEnd THEN "Failure" ELSE "Incomplete"

\* Faulty variant: a record ends with its payload.
UsedSize(r) == IF held < r.used THEN held ELSE r.used

RecordSize(r) == IF held < r.full THEN held ELSE r.full

\* After a failure the transport is broken and nothing more is read.
Usable == outcome \in {"Incomplete", "Record"}

\* begin_ moves behind the record; "Misplaced" if not where it really ends.
Return ==
    /\ Usable /\ Verdict = "Record"
    /\ LET size == RecordSize(sent[1]) IN
       /\ held' = held - size
       /\ outcome' = IF size = sent[1].size THEN "Record" ELSE "Misplaced"
    /\ sent' = Tail(sent)
    /\ UNCHANGED <<unread, endsEmpty, transferEnd>>

Reject ==
    /\ Usable /\ Verdict = "Failure"
    /\ outcome' = "Failure"
    /\ UNCHANGED <<sent, unread, endsEmpty, held, transferEnd>>

-----------------------------------------------------------------------------
(* receive(): one packet is read and appended when next() has no record.    *)

EndsTransfer(size) == size < PacketSize

NeedsPacket == Verdict = "Incomplete"

Read ==
    /\ Usable /\ NeedsPacket
    /\ unread > 0 \/ endsEmpty
    /\ LET size == IF unread < PacketSize THEN unread ELSE PacketSize IN
       IF size > MaxPacket \/ held + size > MaxPacket + LongestRecord
       THEN outcome' = "Overflow" /\ UNCHANGED <<unread, endsEmpty, held, transferEnd>>
       ELSE /\ outcome' = "Incomplete"
            /\ unread' = unread - size
            /\ endsEmpty' = (endsEmpty /\ unread > 0)
            /\ held' = held + size
            /\ transferEnd' = EndsTransfer(size)
    /\ UNCHANGED sent

Next ==
    \/ \E t \in Transfers : Transfer(t)
    \/ Return \/ Reject \/ Read

Spec == Init /\ [][Next]_vars

-----------------------------------------------------------------------------

\* Every byte sent is in the buffer or still to be read, once, and belongs to
\* a record that was not handed out: the buffer begins where a record begins,
\* wherever the packets end (append, next).
RecordBoundary == outcome # "Misplaced" /\ held + unread = Bytes(sent)

Whole(r) == r.size \in {r.full, r.used} \/ (r.size = Header /\ r.echo)

\* Only a record that was cut off is rejected, and it always is: no whole
\* record is, however small, and no fragment is handed out (next).
OnlyFragmentsRejected ==
    /\ outcome = "Failure" => ~Whole(sent[1])
    /\ Usable /\ Verdict = "Record" => Whole(sent[1])
=============================================================================
