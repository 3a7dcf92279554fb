CONSTANTS
    f1 = f1
    f2 = f2
    f3 = f3
    s1 = s1
    File = {f1, f2}
    Rank <- RankOf
    NoSet = NoSet
    SetOf <- AllOneSet
    KindOf <- KindsOf
    RequiredKinds = {"o", "n"}
    ResendMinKinds = {"o"}
    Dir = {1}
    DirOf <- OneDir
    Body = {1}
    SizeOf <- SameSizes
    Reverts = FALSE
    MaxRetries = 2
    MaxWorkers = 1
    FileCap <- CapOne
    Kinds = {"deep"}
    AttemptCap = 2
    MaxMTime = 1
    MaxFaults = 0
    MaxStops = 0
    NoFile = NoFile
    NoHash = NoHash
    Partial = Partial
    Mixed = Mixed
SPECIFICATION FairSpec
PROPERTY EverythingSettles
