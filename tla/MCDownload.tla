----------------------------- MODULE MCDownload -----------------------------
EXTENDS Download, TLC

CONSTANTS r1, r2, r3, d1, d2

MCRank   == (r1 :> 1 @@ r2 :> 2 @@ r3 :> 3)
RankOf   == [r \in Remote |-> MCRank[r]]
MCDir    == (r1 :> 1 @@ r2 :> 1 @@ r3 :> 2)
DirsOf   == [r \in Remote |-> MCDir[r]]
\* r1 and r2 differ in the case of their names only.
MCDest   == (r1 :> d1 @@ r2 :> d1 @@ r3 :> d2)
DestsOf  == [r \in Remote |-> MCDest[r]]
SameSize == [v \in 1 .. MaxVersion |-> 1]
=============================================================================
