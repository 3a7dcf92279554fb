CONSTANTS
    f1 = f1
    f2 = f2
    f3 = f3
    s1 = s1
    File = {f1, f2}
    Rank <- RankOf
    NoSet = NoSet
    SetOf <- NoSets
    KindOf <- KindsOf
    RequiredKinds = {}
    ResendMinKinds = {}
    Dir = {1}
    DirOf <- OneDir
    Body = {1, 2}
    SizeOf <- SameSizes
    Reverts = FALSE
    MaxRetries = 2
    MaxWorkers = 1
    FileCap <- CapOne
    Kinds = {"deep"}
    AttemptCap = 2
    MaxMTime = 2
    MaxFaults = 1
    MaxStops = 1
    NoFile = NoFile
    NoHash = NoHash
    Partial = Partial
    Mixed = Mixed
SPECIFICATION FairSpec
PROPERTY EverythingSettles
