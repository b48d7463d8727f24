CONSTANT SlotCount = 3
SPECIFICATION FairSpec
INVARIANTS
    SlotAccounting
    FailureHasCause
    ClosedMeansStopped
PROPERTIES
    SendGoesOn
    FailureReachesReceiver
