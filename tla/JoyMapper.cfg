CONSTANTS
    MaxResets = 3
SPECIFICATION JoyFairSpec
INVARIANTS
    NoTargetCrossesReset
    HandBelongsToSession
    FinishedWaveOpensHand
PROPERTIES
    ImplementsContract
    ResetEnds
    ShutdownEnds
    RequestEnds
\* Programs that have ended stand still.
CHECK_DEADLOCK FALSE
