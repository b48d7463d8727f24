CONSTANTS
    a1 = a1
    a2 = a2
    Axes = {a1, a2}
    Attempts = 3
    Restores = 2
SPECIFICATION FairHomingSpec
PROPERTIES
    HomeMeansHomed
    RestoreSparesRuns
    HomeEnds
