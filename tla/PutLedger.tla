----------------------------- MODULE PutLedger -----------------------------
(***************************************************************************)
(* The put_ledger table (internal/ledger/put.go, schema.sql): one action   *)
(* per statement.  An UPDATE whose WHERE clause matches no row changes     *)
(* nothing and is reported to the caller as an error; the guards below are *)
(* those WHERE clauses, so a caller that must know whether the statement   *)
(* matched asks the same guard.                                            *)
(***************************************************************************)
EXTENDS Naturals

CONSTANTS
    Key,          \* (category, file_name, revision)
    AttemptCap    \* bound on attempts, so that there are finitely many rows

ASSUME AttemptCapAssumption == AttemptCap \in Nat

VARIABLE row      \* row[k]: the status and attempts columns

Status == {"PENDING", "IN_PROGRESS", "VERIFIED", "FAILED"}
NoRow  == [status |-> "NONE", attempts |-> 0]
Rows   == [status : Status \cup {"NONE"}, attempts : 0 .. AttemptCap]

TypeOK == row \in [Key -> Rows]

Init == row = [k \in Key |-> NoRow]
-----------------------------------------------------------------------------
\* Slip: ON CONFLICT DO UPDATE, which reopens what is already there.
InsertPendingOver(keys) ==
    row' = [k \in Key |-> IF k \in keys THEN [row[k] EXCEPT !.status = "PENDING"]
                          ELSE row[k]]

\* INSERT ... ON CONFLICT DO NOTHING of a whole batch in one transaction.
InsertPendingBatch(keys) ==
    row' = [k \in Key |-> IF k \in keys /\ row[k] = NoRow
                          THEN [status |-> "PENDING", attempts |-> 0]
                          ELSE row[k]]

\* Slip: the WHERE clause forgets the retry bound.
BeginnableEver(k, maxRetries) == row[k].status \in {"PENDING", "FAILED"}

\* The WHERE clause of BeginPut: ErrNotCandidate is its negation.
Beginnable(k, maxRetries) ==
    /\ row[k].status \in {"PENDING", "FAILED"}
    /\ row[k].attempts < maxRetries

BeginPut(k, maxRetries) ==
    /\ Beginnable(k, maxRetries)
    /\ row' = [row EXCEPT ![k] = [status   |-> "IN_PROGRESS",
                                  attempts |-> row[k].attempts + 1]]

FinishPut(k) ==
    /\ row[k].status = "IN_PROGRESS"
    /\ row' = [row EXCEPT ![k].status = "VERIFIED"]

\* Slip: a failed transfer gives its attempt back.
FailPutRefund(k) ==
    /\ row[k].status = "IN_PROGRESS" /\ row[k].attempts > 0
    /\ row' = [row EXCEPT ![k] = [status   |-> "FAILED",
                                  attempts |-> row[k].attempts - 1]]

FailPut(k) ==
    /\ row[k].status \in {"PENDING", "IN_PROGRESS"}
    /\ row' = [row EXCEPT ![k].status = "FAILED"]

ListInProgress == {k \in Key : row[k].status = "IN_PROGRESS"}

\* The baseline written for a file the operator declares already delivered.
SeedVerified(k) ==
    /\ row[k] = NoRow
    /\ row' = [row EXCEPT ![k] = [status |-> "VERIFIED", attempts |-> 0]]
-----------------------------------------------------------------------------
Next ==
    \/ \E keys \in SUBSET Key : InsertPendingBatch(keys)
    \/ \E k \in Key, m \in 1 .. AttemptCap : BeginPut(k, m)
    \/ \E k \in Key : FinishPut(k) \/ FailPut(k) \/ SeedVerified(k)

Spec == Init /\ [][Next]_row
-----------------------------------------------------------------------------
Machine == INSTANCE PutStatus WITH status <- [k \in Key |-> row[k].status]

\* The SQL never moves a row in a way domain.CanTransitionTo forbids: no
\* statement reopens a VERIFIED revision and none deletes a row.
RowsFollowStatusMachine == Machine!Spec

\* Attempts count the transfers begun and nothing else: they grow by exactly
\* one when a row becomes IN_PROGRESS, are untouched by every other write
\* (FailPut, InsertPendingBatch on an existing row), and never go back.
AttemptsCountBegins ==
    [][\A k \in Key :
          row'[k].attempts = row[k].attempts
              + IF row'[k].status = "IN_PROGRESS"
                   /\ row[k].status # "IN_PROGRESS"
                THEN 1 ELSE 0]_row
=============================================================================
