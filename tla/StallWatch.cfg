SPECIFICATION FairSpec
CONSTANTS
    w1 = w1
    w2 = w2
    m = m
    Worker = {w1, w2}
    Main = m
    Timeout = 2
    Files = 2
    Leftovers = 1
    Chunks = 1
INVARIANTS
    TypeOK
    CleanExitIsComplete
    ReleasedAfterSettled
PROPERTIES
    FireMeansSilence
    NoBeginOnDeadLink
    RunAlwaysEnds
