CONSTANTS
    Registers = 2
    Attempts = 2
    Repeats = 1
    Requests = 1
    Arrivals = 1
SPECIFICATION FairSpec
INVARIANTS
    ConfirmedAreWritten
    NoLostWakeup
    ReceiverHasTransport
    OpenOnNewFeedback
PROPERTIES
    CancelledConnectEnds
