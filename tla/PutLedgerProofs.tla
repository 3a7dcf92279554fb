-------------------------- MODULE PutLedgerProofs --------------------------
(***************************************************************************)
(* For any set of keys and any bound on attempts: the rows keep their      *)
(* type, the SQL implements the status machine of the domain package, and  *)
(* attempts count the transfers begun.                                     *)
(***************************************************************************)
EXTENDS PutLedger, TLAPS

USE AttemptCapAssumption

\* One statement takes each row along a pair CanTransitionTo allows, or
\* leaves it, or creates it.
StepsOf(k) == Machine!MayBecome(row[k].status, row'[k].status)

\* A row after a statement is a row.
LEMMA TypeInductive == TypeOK /\ [Next]_row => TypeOK'
<1> SUFFICES ASSUME TypeOK, [Next]_row PROVE TypeOK'
  OBVIOUS
<1> USE DEF TypeOK, Rows, Status, NoRow
<1>1. CASE \E keys \in SUBSET Key : InsertPendingBatch(keys)
  BY <1>1 DEF InsertPendingBatch
<1>2. CASE \E k \in Key, m \in 1 .. AttemptCap : BeginPut(k, m)
  <2> PICK k \in Key, m \in 1 .. AttemptCap : BeginPut(k, m)
    BY <1>2
  <2>1. row[k].attempts + 1 \in 0 .. AttemptCap
    BY DEF BeginPut, Beginnable
  <2> QED BY <2>1 DEF BeginPut
<1>3. CASE \E k \in Key : FinishPut(k) \/ FailPut(k) \/ SeedVerified(k)
  BY <1>3 DEF FinishPut, FailPut, SeedVerified
<1>4. CASE UNCHANGED row
  BY <1>4
<1> QED BY <1>1, <1>2, <1>3, <1>4 DEF Next

\* Type correctness: every row has a status CanTransitionTo knows and an
\* attempts column within its bound, whatever statements ran.
THEOREM TypeCorrect == Spec => []TypeOK
<1>1. Init => TypeOK
  BY DEF Init, TypeOK, Rows, NoRow
<1> QED BY <1>1, TypeInductive, PTL DEF Spec
-----------------------------------------------------------------------------
\* Every statement, batch insert included, respects the machine on every row.
LEMMA EveryRowSteps ==
    ASSUME TypeOK, [Next]_row
    PROVE  \A k \in Key : StepsOf(k)
<1> TAKE k \in Key
<1> USE DEF TypeOK, Rows, Status, NoRow, StepsOf, Machine!MayBecome,
            Machine!CanTransitionTo, Machine!NoRow
<1>1. ASSUME NEW keys \in SUBSET Key, InsertPendingBatch(keys) PROVE StepsOf(k)
  BY <1>1 DEF InsertPendingBatch
<1>2. ASSUME NEW i \in Key, NEW m \in 1 .. AttemptCap, BeginPut(i, m)
      PROVE  StepsOf(k)
  BY <1>2 DEF BeginPut, Beginnable
<1>3. ASSUME NEW i \in Key, FinishPut(i) \/ FailPut(i) \/ SeedVerified(i)
      PROVE  StepsOf(k)
  BY <1>3 DEF FinishPut, FailPut, SeedVerified
<1> QED BY <1>1, <1>2, <1>3 DEF Next

\* Refinement: the ledger implements the status machine.  No statement
\* reopens a VERIFIED revision, revives FAILED except through IN_PROGRESS, or
\* deletes a row.
THEOREM LedgerImplementsMachine == Spec => RowsFollowStatusMachine
<1> DEFINE status == [k \in Key |-> row[k].status]
<1>1. Init => Machine!Init
  BY DEF Init, NoRow, Machine!Init, Machine!NoRow
<1>2. TypeOK /\ TypeOK' /\ [Next]_row => [Machine!Next]_status
  <2> SUFFICES ASSUME TypeOK, TypeOK', [Next]_row PROVE Machine!Next
    OBVIOUS
  <2>1. status' \in [Key -> Machine!Status \cup {Machine!NoRow}]
    BY DEF TypeOK, Rows, Status, Machine!Status, Machine!NoRow
  <2>2. \A k \in Key : Machine!MayBecome(status[k], status'[k])
    BY EveryRowSteps DEF StepsOf
  <2> QED BY <2>1, <2>2 DEF Machine!Next
<1> QED
  BY <1>1, <1>2, TypeCorrect, PTL DEF Spec, RowsFollowStatusMachine, Machine!Spec
-----------------------------------------------------------------------------
\* Attempts grow by one when a transfer begins and at no other statement, so
\* that the bound BeginPut asks for is a bound on transfers.
THEOREM AttemptsCount == Spec => AttemptsCountBegins
<1> DEFINE Counts(k) == row'[k].attempts = row[k].attempts
                          + IF row'[k].status = "IN_PROGRESS"
                               /\ row[k].status # "IN_PROGRESS"
                            THEN 1 ELSE 0
<1>1. TypeOK /\ [Next]_row => [\A k \in Key : Counts(k)]_row
  <2> SUFFICES ASSUME TypeOK, Next, NEW k \in Key PROVE Counts(k)
    OBVIOUS
  <2> USE DEF TypeOK, Rows, Status, NoRow
  <2>1. ASSUME NEW keys \in SUBSET Key, InsertPendingBatch(keys) PROVE Counts(k)
    BY <2>1 DEF InsertPendingBatch
  <2>2. ASSUME NEW i \in Key, NEW m \in 1 .. AttemptCap, BeginPut(i, m)
        PROVE  Counts(k)
    BY <2>2 DEF BeginPut, Beginnable
  <2>3. ASSUME NEW i \in Key, FinishPut(i) \/ FailPut(i) \/ SeedVerified(i)
        PROVE  Counts(k)
    BY <2>3 DEF FinishPut, FailPut, SeedVerified
  <2> QED BY <2>1, <2>2, <2>3 DEF Next
<1> QED BY <1>1, TypeCorrect, PTL DEF Spec, AttemptsCountBegins
=============================================================================
