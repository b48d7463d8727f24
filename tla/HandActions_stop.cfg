CONSTANTS
    a1 = a1
    a2 = a2
    Axes = {a1, a2}
    Attempts = 2
    MaxFrames = 1
SPECIFICATION Spec
INVARIANTS
    StopMeansStill
