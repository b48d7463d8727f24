----------------------------- MODULE MCUsbInput -----------------------------
(* An instance of UsbInput for TLC: drained in short, records of real size. *)
EXTENDS UsbInput

Record(full, used, echo, size) ==
    [full |-> full, used |-> used, echo |-> echo, size |-> size]

\* CAN FD and classic frames, full and compact, echoes with and without their
\* payload, and fragments with and without a complete header. Three of them
\* in packets of 64 bytes make packets end before, in and after headers.
MCRecords ==
    { Record(76, 36, FALSE, 76), Record(76, 44, FALSE, 44), Record(76, 76, TRUE, 76),
      Record(20, 20, FALSE, 20), Record(20, 14, FALSE, 14),
      Record(76, 76, TRUE, 12),  Record(76, 44, FALSE, 16), Record(20, 20, FALSE, 7) }
=============================================================================
