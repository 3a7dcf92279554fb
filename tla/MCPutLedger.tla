---------------------------- MODULE MCPutLedger ----------------------------
EXTENDS PutLedger, TLC

RowSymmetry == Permutations(Key)
=============================================================================
