CONSTANTS
    c1 = c1
    c2 = c2
    c3 = c3
    Callers = {c1, c2, c3}
    NoCaller = NoCaller
    MaxGen = 7
    MaxCalls = 2
SPECIFICATION FairSpec
INVARIANTS
    BusyAccounting
    AtMostOneLive
    PriorityFirst
    OwnedWhileOpen
    JoinedHandHoldsNothing
    StaleConnectSparesNewer
    DisconnectedHandHoldsNoDevice
PROPERTIES
    TokenOrder
    EveryCallReturns
CHECK_DEADLOCK FALSE
