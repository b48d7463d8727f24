CONSTANTS
    a1 = a1
    a2 = a2
    v1 = v1
    v2 = v2
    Axes = {a1, a2}
    Params = {v1, v2}
    Forgotten = Forgotten
    Ops <- DistinctOperations
    Outcomes <- Lossy
SPECIFICATION Spec
SYMMETRY AxisSymmetry
INVARIANTS
    CleanMeansDelivered
    PositionUsesDelivered
    RestoredBeforePosition
    RevokedBeforePosition
    SuccessMeansExecuted
    ClearOnReliableLink
