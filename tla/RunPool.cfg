CONSTANTS
    f1 = f1
    f2 = f2
    f3 = f3
    s1 = s1
    File = {f1, f2, f3}
    Rank <- RankOf
    NoSet = NoSet
    SetOf <- LatePair
    KindOf <- KindsOf
    RequiredKinds = {"n", "g"}
    ResendMinKinds = {"n"}
    Dir = {1, 2}
    DirOf <- FirstApart
    Body = {1}
    SizeOf <- SameSizes
    Reverts = FALSE
    MaxRetries = 1
    MaxWorkers = 2
    FileCap <- CapTwo
    Kinds = {"deep", "auto"}
    AttemptCap = 2
    MaxMTime = 2
    MaxFaults = 1
    MaxStops = 0
    NoFile = NoFile
    NoHash = NoHash
    Partial = Partial
    Mixed = Mixed
SPECIFICATION Spec
INVARIANTS
    InProgressIsOwned
    RetryBudgetKept
    PoolNeverStuck
PROPERTIES
    SetsTravelWhole
    NothingPassedOver
