CONSTANTS
    MaxReads = 4
    MaxBytes = 9
    Deadline = 6
    QuietTime = 3
    ReadTime = 2
    PacketSizes = {0, 5}
    Records <- MCRecords
    PacketSize = 64
    MaxPacket = 1024
    MaxRecords = 3
SPECIFICATION InputSpec
INVARIANTS
    DrainIsSound
    RecordBoundary
    OnlyFragmentsRejected
\* open() fails when the adapter is not silent, and a failed transport receives
\* nothing more.
CHECK_DEADLOCK FALSE
