SPECIFICATION FairSpec
CONSTANTS
    r1 = r1
    r2 = r2
    r3 = r3
    d1 = d1
    d2 = d2
    None = None
    Odd = Odd
    Short = Short
    Mixed = Mixed
    Other = Other
    Remote = {r1, r2, r3}
    Dirs = 2
    DirOf <- DirsOf
    Rank <- RankOf
    Dest = {d1, d2}
    DestOf <- DestsOf
    MaxVersion = 2
    Growing = {r1}
    SizeOf <- SameSize
    MaxWorkers = 2
    MaxFaults = 1
    MaxStops = 1
    MaxVisits = 1
INVARIANTS
    TypeOK
    FinalIsComplete
    NoPartLeft
PROPERTIES
    TargetsNeverReplaced
    CleanExitMeansPresent
    EventuallyThere
