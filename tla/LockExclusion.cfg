CONSTANTS
    Proc = {p1, p2, p3}
    NoDir = NoDir
    DieAt <- NotInGap
    Pauses = FALSE
    Overruns = FALSE
    MaxDeaths = 2
    MaxFaults = 1
SPECIFICATION FairSpec
INVARIANTS
    TypeOK
    MutualExclusion
    HolderIsMarked
PROPERTIES
    LeftoverIsCleared
    AlwaysAcquiredAgain
