----------------------------- MODULE MCDirLock -----------------------------
EXTENDS DirLock, TLC

ProcSymmetry == Permutations(Proc)
Everywhere   == PC \ {"idle", "dead"}
NotInGap     == Everywhere \ Gap
=============================================================================
