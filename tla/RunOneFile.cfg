CONSTANTS
    f1 = f1
    f2 = f2
    f3 = f3
    s1 = s1
    File = {f1}
    Rank <- RankOf
    NoSet = NoSet
    SetOf <- NoSets
    KindOf <- KindsOf
    RequiredKinds = {}
    ResendMinKinds = {}
    Dir = {1}
    DirOf <- OneDir
    Body = {1, 2, 3}
    SizeOf <- LastEmpty
    Reverts = FALSE
    MaxRetries = 2
    MaxWorkers = 1
    FileCap <- NoCap
    Kinds = {"deep", "manual"}
    AttemptCap = 3
    MaxMTime = 4
    MaxFaults = 1
    MaxStops = 1
    NoFile = NoFile
    NoHash = NoHash
    Partial = Partial
    Mixed = Mixed
SPECIFICATION Spec
INVARIANTS
    IInv
    BeginNeverRefused
    LeftoverIsUnfinished
    VerifiedIsDelivered
PROPERTIES
    RowsFollowStatusMachine
    FinalHasRegisteredSize
