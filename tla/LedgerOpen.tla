----------------------------- MODULE LedgerOpen -----------------------------
(***************************************************************************)
(* Opening the ledger: every statement of ledger.Open, from the schema     *)
(* script through the two migrations to the first day of operation, with   *)
(* a process that may die or fail between any two of them, on a database   *)
(* of any generation.  Statements outside a transaction are durable one by *)
(* one.  The PUT table and the indexes, created where they are missing by  *)
(* the statements of the script before one fails, are not tracked.         *)
(***************************************************************************)
EXTENDS Integers, FiniteSets

CONSTANTS
    Name            \* the rows common_ledger may come to have

ASSUME NameAssumption == IsFiniteSet(Name)

VARIABLES
    today,      \* the clock, in days
    disk,       \* the database file
    view,       \* what the process sees: disk, or its open transaction
    step,       \* where Open stands
    todo        \* rows a migration has still to backfill

openVars == <<today, disk, view, step, todo>>

Ours    == "FILENAME_V1"    \* domain.IdentityRule
Damaged == -1               \* an operation_origin that does not parse

DB == [cols    : {0, 1, 3, 4, 5, 6, 7}, \* generation of common_ledger, 0: no table,
                                         \* 1: one that has no category yet
       meta    : BOOLEAN,               \* is there a schema_meta?
       version : {0, 3, 4, 5, 6, 7},    \* schema_version, 0 without
       rule    : {"none", Ours, "other"},
       origin  : Int,                   \* operation_origin, 0 without
       seen    : [Name -> Nat],         \* day of first_seen, 0 without a row
       keyed   : SUBSET Name]           \* rows whose set_key and kind are filled

InTx == {"backfill", "bump5", "commit5", "bump6", "commit6"}

OpenTypeOK ==
    /\ today \in Nat \ {0}
    /\ disk \in DB /\ view \in DB
    /\ step \in InTx \cup {"closed", "common", "index", "meta", "insert", "rule",
                           "migrate", "version", "origin", "open"}
    /\ todo \subseteq Name

Rows(d)  == {n \in Name : d.seen[n] > 0}
\* MIN(first_seen)
FirstSeen(d) == CHOOSE t \in {d.seen[n] : n \in Rows(d)} :
                  \A n \in Rows(d) : t <= d.seen[n]

\* A database Open may find: none, one of the generation without category and
\* schema_meta, or one an earlier binary set up completely and has run on since,
\* of this identity rule or another's.
Found(d) ==
    \/ /\ d.cols = 0 /\ d.meta = FALSE /\ d.version = 0 /\ d.rule = "none"
       /\ d.origin = 0 /\ Rows(d) = {} /\ d.keyed = {}
    \/ /\ d.cols = 1 /\ d.meta = FALSE /\ d.version = 0 /\ d.rule = "none"
       /\ d.origin = 0 /\ d.keyed = {} /\ \A n \in Name : d.seen[n] <= today
    \/ /\ d.cols \notin {0, 1} /\ d.meta /\ d.version = d.cols /\ d.rule # "none"
       /\ d.keyed = (IF d.cols >= 5 THEN Rows(d) ELSE {})
       /\ d.origin \in {0, Damaged} \cup (IF Rows(d) = {} THEN {} ELSE {FirstSeen(d)})
       /\ \A n \in Name : d.seen[n] <= today

OpenInit ==
    /\ today \in Nat \ {0}
    /\ disk \in DB /\ Found(disk)
    /\ view = disk /\ step = "closed" /\ todo = {}
-----------------------------------------------------------------------------
\* Slip: the statements of a migration are committed one by one.
StageAtOnce(d) == view' = d /\ disk' = d

\* A statement inside a transaction, and one outside.
Stage(d) == view' = d /\ UNCHANGED disk
Write(d) == view' = d /\ disk' = d

StartOpen ==
    /\ step = "closed" /\ step' = "common"
    /\ UNCHANGED <<today, disk, view, todo>>

\* The script: every statement leaves alone what is there already.
CreateCommon ==
    /\ step = "common" /\ step' = "index"
    /\ Write([view EXCEPT !.cols = IF @ = 0 THEN 6 ELSE @])
    /\ UNCHANGED <<today, todo>>

\* Slip: an index that cannot be made does not end the script.
CreateIndexAnyhow ==
    /\ step = "index" /\ step' = "meta"
    /\ UNCHANGED <<today, disk, view, todo>>

\* The index on category fails on a table that has no such column.
CreateIndex ==
    /\ step = "index" /\ step' = IF view.cols = 1 THEN "closed" ELSE "meta"
    /\ UNCHANGED <<today, disk, view, todo>>

CreateMeta ==
    /\ step = "meta" /\ step' = "insert"
    /\ Write([view EXCEPT !.meta = TRUE])
    /\ UNCHANGED <<today, todo>>

InsertMeta ==
    /\ step = "insert" /\ step' = "rule"
    /\ Write([view EXCEPT !.version = IF @ = 0 THEN 6 ELSE @,
                          !.rule = IF @ = "none" THEN Ours ELSE @])
    /\ UNCHANGED <<today, todo>>

\* Slip: the migrations come before the identity rule.
CheckRuleNever ==
    /\ step = "rule" /\ step' = "migrate"
    /\ UNCHANGED <<today, disk, view, todo>>

CheckRule ==
    /\ step = "rule" /\ step' = IF view.rule = Ours THEN "migrate" ELSE "closed"
    /\ UNCHANGED <<today, disk, view, todo>>

\* migrateIfNeeded: version 4 to 5, then 5 to 6, each in one transaction; any
\* other version is left to the check that follows.
AddColumns ==
    /\ step = "migrate"
    /\ \/ /\ view.version = 4 /\ step' = "backfill"
          /\ Stage([view EXCEPT !.cols = 5]) /\ todo' = Rows(view)
       \/ /\ view.version = 5 /\ step' = "bump6"
          /\ Stage([view EXCEPT !.cols = 6]) /\ UNCHANGED todo
       \/ /\ view.version \notin {4, 5} /\ step' = "version"
          /\ UNCHANGED <<disk, view, todo>>
    /\ UNCHANGED today

Backfill ==
    /\ step = "backfill"
    /\ \/ /\ todo = {} /\ step' = "bump5" /\ UNCHANGED <<disk, view, todo>>
       \/ \E n \in todo :
            /\ Stage([view EXCEPT !.keyed = @ \cup {n}])
            /\ todo' = todo \ {n} /\ UNCHANGED step
    /\ UNCHANGED today

Bump ==
    /\ \/ /\ step = "bump5" /\ step' = "commit5"
          /\ Stage([view EXCEPT !.version = 5])
       \/ /\ step = "bump6" /\ step' = "commit6"
          /\ Stage([view EXCEPT !.version = 6])
    /\ UNCHANGED <<today, todo>>

Commit ==
    /\ \/ step = "commit5" /\ step' = "migrate"
       \/ step = "commit6" /\ step' = "version"
    /\ disk' = view /\ UNCHANGED <<today, view, todo>>

\* Slip: only a ledger newer than this binary is refused.
CheckVersionNewer ==
    /\ step = "version" /\ step' = IF view.version > 6 THEN "closed" ELSE "origin"
    /\ UNCHANGED <<today, disk, view, todo>>

\* verifySchemaVersion, which alone refuses a generation 3.
CheckVersion ==
    /\ step = "version" /\ step' = IF view.version = 6 THEN "origin" ELSE "closed"
    /\ UNCHANGED <<today, disk, view, todo>>

\* Slip: an empty ledger records today.
EnsureOriginAlways ==
    /\ step = "origin" /\ step' = "open"
    /\ IF view.origin # 0 THEN UNCHANGED <<disk, view>>
       ELSE Write([view EXCEPT !.origin =
                     IF Rows(view) = {} THEN today ELSE FirstSeen(view)])
    /\ UNCHANGED <<today, todo>>

\* The first day of operation is recorded once, and only from a row.
EnsureOrigin ==
    /\ step = "origin"
    /\ \/ /\ view.origin = Damaged /\ step' = "closed" /\ UNCHANGED <<disk, view>>
       \/ /\ view.origin # Damaged /\ step' = "open"
          /\ IF view.origin # 0 \/ Rows(view) = {} THEN UNCHANGED <<disk, view>>
             ELSE Write([view EXCEPT !.origin = FirstSeen(view)])
    /\ UNCHANGED <<today, todo>>

\* Slip: without a recorded day, the oldest day the ledger remembers.
OperationOriginOldest(now) == IF view.origin # 0 THEN view.origin ELSE 1

\* OperationOrigin, asked of an open ledger.
OperationOrigin(now) ==
    IF view.origin # 0 THEN view.origin
    ELSE IF Rows(view) = {} THEN now ELSE FirstSeen(view)

\* The open ledger is used: new rows carry today's first_seen and their keys.
Register(S) ==
    /\ step = "open" /\ S \subseteq Name
    /\ Write([view EXCEPT !.seen = [n \in Name |->
                IF n \in S /\ view.seen[n] = 0 THEN today ELSE view.seen[n]],
                          !.keyed = @ \cup (S \ Rows(view))])
    /\ UNCHANGED <<today, step, todo>>

\* The process fails, dies or closes the ledger; what was staged is gone.
CloseOrDie ==
    /\ step # "closed" /\ step' = "closed" /\ view' = disk /\ todo' = {}
    /\ UNCHANGED <<today, disk>>

NextDay == today' = today + 1 /\ UNCHANGED <<disk, view, step, todo>>

Opening ==
    \/ StartOpen \/ CreateCommon \/ CreateIndex \/ CreateMeta \/ InsertMeta
    \/ CheckRule \/ AddColumns \/ Backfill \/ Bump \/ Commit \/ CheckVersion
    \/ EnsureOrigin
OpenNext ==
    \/ Opening \/ CloseOrDie \/ NextDay
    \/ \E S \in SUBSET Name : Register(S)

OpenSpec == OpenInit /\ [][OpenNext]_openVars
-----------------------------------------------------------------------------
(* Properties.                                                             *)

\* In whatever state a death or an error leaves the file, the version it
\* records is that of its columns, so that a table without category never comes
\* to have one, and from version 5 on every row has the set key a migration or
\* the upsert gave it (the script, migrateV4toV5, migrateV5toV6).
VersionMatchesShape ==
    disk.version # 0 =>
      /\ disk.cols = disk.version
      /\ disk.version \in 5 .. 6 => disk.keyed = Rows(disk)

\* A database that this binary must not use: of another identity rule, of a
\* version it cannot bring up to date, or without the category column.
Refused(d) == d.rule = "other" \/ d.version \in {3, 7} \/ d.cols = 1

\* Such a database is refused as it was found: no column, row or entry of
\* schema_meta is added to it, although the one statement that refuses it comes
\* after others that write (the script, verifyIdentityRule, migrateIfNeeded,
\* verifySchemaVersion, ensureOperationOrigin, in that order).
RefusedUntouched == [][Refused(disk) => disk' = disk]_openVars

\* The recorded first day of operation is the day of the first row, and what
\* is recorded stays: a dry run or a failed first run on an empty ledger
\* records nothing (ensureOperationOrigin).
OriginIsFirstDay ==
    disk.origin > 0 => Rows(disk) # {} /\ disk.origin = FirstSeen(disk)
=============================================================================
