CONSTANTS
    c1 = c1
    c2 = c2
    Callers = {c1, c2}
    NoCaller = NoCaller
    MaxGen = 4
    MaxCalls = 1
SPECIFICATION Spec
INVARIANTS
    FailedConnectReleasesWorker
CHECK_DEADLOCK FALSE
