------------------------------ MODULE UsbInput ------------------------------
(***************************************************************************)
(* What comes from the adapter, from opening on: GsUsb's open() drains it  *)
(* while it is stopped (UsbDrain), and only after silence it is started    *)
(* and its records are received (ReceiveBuffer).                           *)
(***************************************************************************)
EXTENDS UsbDrain, Sequences

CONSTANTS
    Records,      \* see ReceiveBuffer
    PacketSize,
    MaxPacket,
    MaxRecords

VARIABLES sent, unread, endsEmpty, held, transferEnd, outcome

inputVars == <<sent, unread, endsEmpty, held, transferEnd, outcome>>

Input == INSTANCE ReceiveBuffer

ASSUME RecordsAssumption ==
    \A r \in Records : /\ r.full \in Input!Header + 1 .. Input!LongestRecord
                      /\ r.used \in Input!Header .. r.full
                      /\ r.echo \in BOOLEAN
                      /\ r.size \in 1 .. r.full
ASSUME PacketAssumption ==
    MaxPacket \in Nat /\ PacketSize \in 1 .. MaxPacket /\ MaxRecords \in Nat

InputInit == Init /\ Input!Init

DrainStep == Next /\ UNCHANGED inputVars

\* open() went on to START.
Started == status = "Quiet"

ReceiveStep == Started /\ Input!Next /\ UNCHANGED vars

InputNext == DrainStep \/ ReceiveStep

InputSpec == InputInit /\ [][InputNext]_<<vars, inputVars>>

-----------------------------------------------------------------------------

\* Records end where they were cut, wherever packets end (ReceiveBuffer).
RecordBoundary == Input!RecordBoundary

\* No whole record is rejected and no fragment is handed out (ReceiveBuffer).
OnlyFragmentsRejected == Input!OnlyFragmentsRejected
=============================================================================
