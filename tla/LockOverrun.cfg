CONSTANTS
    Proc = {p1, p2, p3}
    NoDir = NoDir
    DieAt <- Everywhere
    Pauses = TRUE
    Overruns = TRUE
    MaxDeaths = 2
    MaxFaults = 1
SPECIFICATION Spec
SYMMETRY ProcSymmetry
PROPERTY OnlyStaleIsTaken
