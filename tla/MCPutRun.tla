------------------------------ MODULE MCPutRun ------------------------------
EXTENDS PutRunInv, TLC

CONSTANTS f1, f2, f3, s1

MCRank     == (f1 :> 1 @@ f2 :> 2 @@ f3 :> 3)
RankOf     == [f \in File |-> MCRank[f]]
OneDir     == [f \in File |-> 1]
FirstApart == [f \in File |-> IF f = f1 THEN 1 ELSE 2]
NoSets     == [f \in File |-> NoSet]
AllOneSet  == [f \in File |-> s1]
LatePair   == [f \in File |-> IF f = f1 THEN NoSet ELSE s1]
MCKind     == (f1 :> "o" @@ f2 :> "n" @@ f3 :> "g")
KindsOf    == [f \in File |-> MCKind[f]]
SameSizes  == [b \in Body |-> 1]
LastEmpty  == [b \in Body |-> IF b = 3 THEN 0 ELSE 1]
NoCap      == [k \in Kind |-> 0]
CapOne     == [k \in Kind |-> 1]
CapTwo     == [k \in Kind |-> 2]
=============================================================================
