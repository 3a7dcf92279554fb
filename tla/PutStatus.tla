----------------------------- MODULE PutStatus -----------------------------
(***************************************************************************)
(* What the put ledger promises about one revision of one file             *)
(* (internal/domain/status.go): a status machine whose moves are exactly   *)
(* the pairs CanTransitionTo allows.  PutLedger and PutRun are shown to    *)
(* implement it.                                                           *)
(***************************************************************************)
CONSTANT Key            \* (category, file_name, revision): the primary key

VARIABLE status         \* status[k]: the status column, "NONE" without a row

Status == {"PENDING", "IN_PROGRESS", "VERIFIED", "FAILED"}
NoRow  == "NONE"

CanTransitionTo(s, next) ==
    \/ s = "PENDING"     /\ next \in {"IN_PROGRESS", "FAILED"}
    \/ s = "IN_PROGRESS" /\ next \in {"VERIFIED", "FAILED"}
    \/ s = "FAILED"      /\ next = "IN_PROGRESS"

\* A row is born PENDING (a candidate) or VERIFIED (a seeded baseline), and
\* no row is ever deleted.
MayBecome(s, next) ==
    \/ next = s
    \/ s = NoRow /\ next \in {"PENDING", "VERIFIED"}
    \/ CanTransitionTo(s, next)

Init == status = [k \in Key |-> NoRow]

Next == /\ status' \in [Key -> Status \cup {NoRow}]
        /\ \A k \in Key : MayBecome(status[k], status'[k])

Spec == Init /\ [][Next]_status
=============================================================================
