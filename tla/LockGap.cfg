CONSTANTS
    Proc = {p1, p2, p3}
    NoDir = NoDir
    DieAt <- Everywhere
    Pauses = FALSE
    Overruns = FALSE
    MaxDeaths = 2
    MaxFaults = 0
SPECIFICATION Spec
SYMMETRY ProcSymmetry
INVARIANT MutualExclusion
