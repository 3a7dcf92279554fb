-------------------------- MODULE LedgerOpenProofs --------------------------
(***************************************************************************)
(* Opening the ledger, for any rows and any number of deaths and days: the *)
(* types, the version that tells the shape, the refusals that touch        *)
(* nothing, and the first day of operation.                                *)
(*                                                                         *)
(* The invariant says for each step of Open what the file and the open     *)
(* transaction are known to be; what a migration has staged matters only   *)
(* while it is open, since view = disk everywhere else.                    *)
(***************************************************************************)
EXTENDS LedgerOpen, WellFoundedInduction, TLAPS

To5 == {"backfill", "bump5", "commit5"}
To6 == {"bump6", "commit6"}

\* What the file may look like at any time.
DiskInv ==
    /\ disk.version = 0 =>
         /\ disk.cols \in {0, 1, 6} /\ disk.rule = "none" /\ disk.origin = 0
         /\ disk.keyed = {} /\ (disk.cols # 1 => Rows(disk) = {})
    /\ disk.version # 0 => /\ disk.cols = disk.version /\ disk.rule # "none"
                           /\ disk.meta = TRUE
    /\ disk.version \in 5 .. 6 => disk.keyed = Rows(disk)
    /\ disk.keyed \subseteq Rows(disk)
    /\ disk.origin \in Nat \cup {Damaged}

\* What the process has staged.
ViewInv ==
    /\ step \notin InTx => view = disk
    /\ view.seen = disk.seen /\ view.origin = disk.origin /\ view.rule = disk.rule
    /\ view.meta = disk.meta
    /\ view.keyed \subseteq Rows(disk)
    /\ step \in To5 =>
         /\ disk.version = 4 /\ view.cols = 5
         /\ view.version = (IF step = "commit5" THEN 5 ELSE 4)
         /\ IF step = "backfill" THEN view.keyed \cup todo = Rows(disk)
                                 ELSE view.keyed = Rows(disk)
    /\ step \in To6 =>
         /\ disk.version = 5 /\ view.cols = 6
         /\ view.version = (IF step = "commit6" THEN 6 ELSE 5)
         /\ view.keyed = Rows(disk)

\* How far Open has come.
StepInv ==
    /\ step \in {"index", "meta", "insert"} => disk.cols # 0
    /\ step \in {"meta", "insert"} => disk.cols # 1
    /\ step = "insert" => disk.meta = TRUE
    /\ step \in {"rule", "migrate", "version", "origin", "open"} => disk.version # 0
    /\ step \in InTx \cup {"migrate", "version", "origin", "open"} => disk.rule = Ours
    /\ step \in {"origin", "open"} => disk.version = 6
    /\ step = "open" => disk.origin \in Nat

OpenInv == OpenTypeOK /\ DiskInv /\ ViewInv /\ StepInv

\* A set of days has a first one.
LEMMA FirstOfDays ==
  ASSUME NEW T \in SUBSET Nat, T # {}
  PROVE  \E t \in T : \A u \in T : t <= u
<1>. DEFINE R == {ss \in Nat \X Nat : ss[1] < ss[2]}
<1>1. IsWellFoundedOn(R, Nat)
  BY NatLessThanWellFounded DEF OpToRel
<1>. HIDE DEF R
<1>2. PICK t \in T : \A u \in T : ~ (<<u, t>> \in R)
  BY <1>1, WFMin
<1>3. \A u \in T : ~ (u < t)
  BY <1>2 DEF R
<1>. QED
  BY <1>3

\* MIN(first_seen) is the day of a row, and of none later than another.
LEMMA FirstSeenIs ==
  ASSUME NEW d, d.seen \in [Name -> Nat], Rows(d) # {}
  PROVE  /\ \E m \in Rows(d) : FirstSeen(d) = d.seen[m]
         /\ \A n \in Rows(d) : FirstSeen(d) <= d.seen[n]
<1>. DEFINE T == {d.seen[n] : n \in Rows(d)}
<1>1. T \in SUBSET Nat /\ T # {}
  BY DEF Rows
<1>2. PICK t \in T : \A u \in T : t <= u
  BY <1>1, FirstOfDays
<1>3. \A n \in Rows(d) : t <= d.seen[n]
  BY <1>2
<1>4. FirstSeen(d) \in T /\ \A n \in Rows(d) : FirstSeen(d) <= d.seen[n]
  BY <1>3 DEF FirstSeen
<1>. QED
  BY <1>4

\* There is one such day.
LEMMA FirstSeenUnique ==
  ASSUME NEW d, d.seen \in [Name -> Nat], NEW m \in Rows(d),
         \A n \in Rows(d) : d.seen[m] <= d.seen[n]
  PROVE  FirstSeen(d) = d.seen[m]
<1>1. PICK k \in Rows(d) : FirstSeen(d) = d.seen[k] /\ d.seen[k] <= d.seen[m]
  BY FirstSeenIs
<1>2. d.seen[m] <= d.seen[k] /\ d.seen[m] \in Nat /\ d.seen[k] \in Nat
  BY DEF Rows
<1>. QED
  BY <1>1, <1>2
\* Opening the ledger starts in the invariant.
LEMMA OpenInvInit == OpenInit => OpenInv
<1>. SUFFICES ASSUME OpenInit PROVE OpenInv
  OBVIOUS
<1>1. disk \in DB /\ Found(disk)
  BY DEF OpenInit
<1>2. Rows(disk) # {} => FirstSeen(disk) \in Nat
  BY <1>1, FirstSeenIs DEF DB, Rows
<1>3. disk.origin \in Nat \cup {Damaged}
  BY <1>1, <1>2 DEF Found
<1>. QED
  BY <1>3 DEF OpenInit, OpenInv, OpenTypeOK, DiskInv, ViewInv, StepInv, Found, DB, Rows,
     InTx, To5, To6

\* Every step of Open, its deaths and its use keep the invariant.
LEMMA OpenInvNext == OpenInv /\ [OpenNext]_openVars => OpenInv'
<1>. SUFFICES ASSUME OpenInv, [OpenNext]_openVars PROVE OpenInv'
  OBVIOUS
<1>. USE DEF OpenInv, OpenTypeOK, DiskInv, ViewInv, StepInv, InTx, To5, To6, DB, Rows
<1>1. CASE StartOpen
  BY <1>1 DEF StartOpen
<1>2. CASE CreateCommon
  BY <1>2 DEF Write, CreateCommon
<1>3. CASE CreateIndex
  BY <1>3 DEF CreateIndex
<1>4. CASE CreateMeta
  BY <1>4 DEF Write, CreateMeta
<1>5. CASE InsertMeta
  <2>1. CASE view.version = 0
    <3>1. /\ view = disk /\ disk.cols = 6 /\ Rows(disk) = {} /\ disk.keyed = {}
          /\ disk.origin = 0
      BY <1>5, <2>1 DEF InsertMeta
    <3>2. view' = [view EXCEPT !.version = 6, !.rule = Ours] /\ disk' = view'
      BY <1>5, <2>1, <3>1 DEF Write, InsertMeta
    <3>3. disk.meta = TRUE /\ disk.seen \in [Name -> Nat] /\ Ours # "none"
      BY <1>5 DEF InsertMeta, Ours
    <3>4. disk' \in DB /\ disk'.seen = disk.seen
      BY <3>1, <3>2
    <3>5. /\ disk'.version = 6 /\ disk'.cols = 6 /\ disk'.rule = Ours
          /\ disk'.meta = TRUE /\ disk'.keyed = {} /\ disk'.origin = 0
      BY <3>1, <3>2, <3>3
    <3>6. Rows(disk') = {}
      BY <3>1, <3>4
    <3>. QED
      BY <1>5, <3>2, <3>3, <3>4, <3>5, <3>6 DEF InsertMeta
  <2>2. CASE view.version # 0
    <3>1. view' = view /\ disk' = disk
      BY <1>5, <2>2 DEF Write, InsertMeta
    <3>. QED
      BY <1>5, <2>2, <3>1 DEF InsertMeta
  <2>. QED
    BY <2>1, <2>2
<1>6. CASE CheckRule
  BY <1>6 DEF CheckRule
<1>7. CASE AddColumns
  <2>1. view = disk /\ disk.rule = Ours /\ disk.version # 0 /\ step = "migrate"
    BY <1>7 DEF AddColumns
  <2>2. CASE step' = "backfill"
    BY <1>7, <2>1, <2>2 DEF Stage, AddColumns
  <2>3. CASE step' = "bump6"
    BY <1>7, <2>1, <2>3 DEF Stage, AddColumns
  <2>4. CASE step' = "version"
    BY <1>7, <2>1, <2>4 DEF AddColumns
  <2>. QED
    BY <1>7, <2>2, <2>3, <2>4 DEF AddColumns
<1>8. CASE Backfill
  BY <1>8 DEF Stage, Backfill
<1>9. CASE Bump
  BY <1>9 DEF Stage, Bump
<1>10. CASE Commit
  <2>1. /\ disk' = view /\ view' = view /\ UNCHANGED <<today, todo>>
        /\ view.cols = view.version /\ view.version \in 5 .. 6
        /\ view.keyed = Rows(disk) /\ Rows(view) = Rows(disk)
        /\ disk.rule = Ours /\ Ours # "none"
    BY <1>10 DEF Commit, Ours
  <2>2. /\ step \in {"commit5", "commit6"} /\ step' \in {"migrate", "version"}
        /\ view.meta = TRUE
    BY <1>10 DEF Commit
  <2>. QED
    BY <2>1, <2>2
<1>11. CASE CheckVersion
  BY <1>11 DEF CheckVersion
<1>12. CASE EnsureOrigin
  <2>1. CASE view' = view /\ disk' = disk
    BY <1>12, <2>1 DEF EnsureOrigin
  <2>2. CASE Rows(view) # {} /\ Write([view EXCEPT !.origin = FirstSeen(view)])
    <3>1. FirstSeen(view) \in Nat
      BY <2>2, FirstSeenIs
    <3>. QED
      BY <1>12, <2>2, <3>1 DEF EnsureOrigin, Write
  <2>. QED
    BY <1>12, <2>1, <2>2 DEF EnsureOrigin
<1>13. CASE CloseOrDie
  BY <1>13 DEF CloseOrDie
<1>14. CASE NextDay
  BY <1>14 DEF NextDay
<1>15. ASSUME NEW S \in SUBSET Name, Register(S) PROVE OpenInv'
  <2>. DEFINE seen == [n \in Name |-> IF n \in S /\ view.seen[n] = 0 THEN today
                                     ELSE view.seen[n]]
  <2>1. /\ view = disk /\ disk.version = 6 /\ step = "open" /\ disk.keyed = Rows(disk)
        /\ disk.rule = Ours
    BY <1>15 DEF Register
  <2>2. seen \in [Name -> Nat] /\ {n \in Name : seen[n] > 0} = Rows(view) \cup S
    BY <1>15
  <2>3. /\ disk' = [disk EXCEPT !.seen = seen, !.keyed = Rows(disk) \cup S]
        /\ view' = disk' /\ UNCHANGED <<today, step, todo>>
    BY <1>15, <2>1 DEF Register, Write
  <2>. HIDE DEF seen
  <2>4. disk' \in DB /\ Rows(disk') = disk'.keyed
    BY <2>1, <2>2, <2>3
  <2>. QED
    BY <2>1, <2>2, <2>3, <2>4
<1>16. CASE UNCHANGED openVars
  BY <1>16 DEF openVars
<1>. QED
  BY <1>1, <1>2, <1>3, <1>4, <1>5, <1>6, <1>7, <1>8, <1>9, <1>10, <1>11, <1>12, <1>13, <1>14, <1>15, <1>16 DEF OpenNext, Opening

\* The types of Open hold.
THEOREM OpenTypeCorrect == OpenSpec => []OpenTypeOK
<1>1. OpenInv => OpenTypeOK
  BY DEF OpenInv
<1>. QED
  BY OpenInvInit, OpenInvNext, <1>1, PTL DEF OpenSpec

\* The version recorded is that of the columns, and every row has its key,
\* whatever migration dies where.
THEOREM VersionAlwaysMatchesShape == OpenSpec => []VersionMatchesShape
<1>1. OpenInv => VersionMatchesShape
  BY DEF OpenInv, OpenTypeOK, DiskInv, VersionMatchesShape, DB
<1>. QED
  BY OpenInvInit, OpenInvNext, <1>1, PTL DEF OpenSpec

\* One step of Open writes nothing to a database it must refuse.
LEMMA RefusedStep == OpenInv /\ [OpenNext]_openVars /\ Refused(disk) => disk' = disk
<1>. SUFFICES ASSUME OpenInv, OpenNext, Refused(disk)
              PROVE  disk' = disk
  BY DEF openVars
<1>1. CASE disk.cols = 1
  <2>1. /\ disk.version = 0
        /\ step \in {"closed", "common", "index"} /\ view = disk /\ view \in DB
    BY <1>1 DEF OpenInv, DiskInv, ViewInv, StepInv, InTx, To5, To6, Ours, OpenTypeOK, DB
  <2>2. CreateCommon => disk' = disk
    <3>1. CreateCommon => disk' = [view EXCEPT !.cols = view.cols]
      BY <1>1, <2>1 DEF CreateCommon, Write
    <3>2. [view EXCEPT !.cols = view.cols] = view
      BY <2>1 DEF DB
    <3>. QED
      BY <2>1, <3>1, <3>2
  <2>3. /\ ~ CreateMeta /\ ~ InsertMeta /\ ~ AddColumns /\ ~ Backfill /\ ~ Bump
        /\ ~ Commit /\ ~ EnsureOrigin /\ ~ CheckRule /\ ~ CheckVersion
    BY <2>1 DEF CreateMeta, InsertMeta, AddColumns, Backfill, Bump, Commit, EnsureOrigin,
       CheckRule, CheckVersion
  <2>4. StartOpen \/ CreateIndex \/ CloseOrDie \/ NextDay => disk' = disk
    BY DEF StartOpen, CreateIndex, CloseOrDie, NextDay
  <2>5. ASSUME NEW S \in SUBSET Name, Register(S) PROVE FALSE
    BY <2>1, <2>5 DEF Register
  <2>. QED
    BY <2>2, <2>3, <2>4, <2>5 DEF OpenNext, Opening
<1>2. CASE disk.rule = "other" \/ disk.version \in {3, 7}
  <2>1. /\ step \notin InTx \cup {"origin", "open"}
        /\ step = "migrate" => disk.version \notin {4, 5}
    BY <1>2 DEF OpenInv, ViewInv, StepInv, InTx, To5, To6, Ours, OpenTypeOK
  <2>2. /\ view = disk /\ disk.version # 0 /\ disk.rule # "none" /\ disk.cols # 0
        /\ disk.meta = TRUE /\ view \in DB
    BY <1>2, <2>1 DEF OpenInv, ViewInv, DiskInv, OpenTypeOK, Ours, DB
  <2>3. CreateCommon \/ CreateMeta \/ InsertMeta => disk' = disk
    <3>1. CreateCommon => disk' = [view EXCEPT !.cols = view.cols]
      BY <2>2 DEF CreateCommon, Write
    <3>2. CreateMeta => disk' = [view EXCEPT !.meta = view.meta]
      BY <2>2 DEF CreateMeta, Write
    <3>3. InsertMeta => disk' = [view EXCEPT !.version = view.version, !.rule = view.rule]
      BY <2>2 DEF InsertMeta, Write
    <3>4. /\ [view EXCEPT !.cols = view.cols] = view
          /\ [view EXCEPT !.meta = view.meta] = view
      BY <2>2 DEF DB
    <3>5. [view EXCEPT !.version = view.version, !.rule = view.rule] = view
      BY <2>2 DEF DB
    <3>. QED
      BY <2>2, <3>1, <3>2, <3>3, <3>4, <3>5
  <2>4. AddColumns => disk' = disk
    BY <2>1, <2>2 DEF AddColumns
  <2>5. ~ Backfill /\ ~ Bump /\ ~ Commit /\ ~ EnsureOrigin
    BY <2>1 DEF Backfill, Bump, Commit, EnsureOrigin, InTx
  <2>6. StartOpen \/ CreateIndex \/ CheckRule \/ CheckVersion \/ CloseOrDie \/ NextDay
          => disk' = disk
    BY DEF StartOpen, CreateIndex, CheckRule, CheckVersion, CloseOrDie, NextDay
  <2>7. ASSUME NEW S \in SUBSET Name, Register(S) PROVE FALSE
    BY <2>1, <2>7 DEF Register
  <2>. QED
    BY <2>3, <2>4, <2>5, <2>6, <2>7 DEF OpenNext, Opening
<1>. QED
  BY <1>1, <1>2 DEF Refused

\* A database of another identity rule, of a version out of reach or without
\* the category column keeps its columns, rows and entries as they were found.
THEOREM RefusedStaysUntouched == OpenSpec => RefusedUntouched
<1>1. OpenInv /\ [OpenNext]_openVars => [Refused(disk) => disk' = disk]_openVars
  BY RefusedStep
<1>. QED
  BY OpenInvInit, OpenInvNext, <1>1, PTL DEF OpenSpec, RefusedUntouched

\* What the first day of operation rests on: no row is of a later day.
OriginInv ==
    /\ \A n \in Name : disk.seen[n] <= today
    /\ OriginIsFirstDay

LEMMA OriginInvInit == OpenInit => OriginInv
<1>. SUFFICES ASSUME OpenInit PROVE OriginInv
  OBVIOUS
<1>1. \A n \in Name : disk.seen[n] <= today
  BY DEF OpenInit, Found, DB, Rows
<1>2. OriginIsFirstDay
  BY DEF OpenInit, Found, OriginIsFirstDay, Damaged
<1>. QED
  BY <1>1, <1>2 DEF OriginInv

LEMMA OriginInvNext == OpenInv /\ OriginInv /\ [OpenNext]_openVars => OriginInv'
<1>. SUFFICES ASSUME OpenInv, OriginInv, [OpenNext]_openVars PROVE OriginInv'
  OBVIOUS
<1>. USE DEF OpenInv, OpenTypeOK, ViewInv, InTx, OriginInv, OriginIsFirstDay
<1>1. ASSUME UNCHANGED today, disk'.seen = disk.seen, disk'.origin = disk.origin
      PROVE  OriginInv'
  BY <1>1 DEF Rows, FirstSeen
<1>2. ASSUME Opening, ~EnsureOrigin PROVE OriginInv'
  <2>1. UNCHANGED today /\ disk'.seen = disk.seen /\ disk'.origin = disk.origin
    BY <1>2 DEF Opening, Write, Stage, StartOpen, CreateCommon, CreateIndex, CreateMeta,
         InsertMeta, CheckRule, AddColumns, Backfill, Bump, Commit, CheckVersion, DB
  <2>. QED
    BY <2>1, <1>1
<1>3. CASE EnsureOrigin
  <2>1. CASE disk' = disk
    BY <1>1, <1>3, <2>1 DEF EnsureOrigin
  <2>2. CASE Rows(view) # {} /\ Write([view EXCEPT !.origin = FirstSeen(view)])
    <3>1. view = disk /\ disk' = [disk EXCEPT !.origin = FirstSeen(disk)] /\ UNCHANGED today
      BY <1>3, <2>2 DEF EnsureOrigin, Write
    <3>2. disk'.seen = disk.seen /\ disk'.origin = FirstSeen(disk)
      BY <3>1 DEF DB
    <3>3. Rows(disk') = Rows(disk) /\ FirstSeen(disk') = FirstSeen(disk)
      BY <3>2 DEF Rows, FirstSeen
    <3>. QED
      BY <2>2, <3>1, <3>2, <3>3
  <2>. QED
    BY <1>3, <2>1, <2>2 DEF EnsureOrigin
<1>4. ASSUME NEW S \in SUBSET Name, Register(S) PROVE OriginInv'
  <2>. DEFINE seen == [n \in Name |-> IF n \in S /\ view.seen[n] = 0 THEN today
                                     ELSE view.seen[n]]
  <2>1. disk \in DB /\ view = disk /\ step = "open" /\ UNCHANGED today
    BY <1>4 DEF Register
  <2>2. disk'.seen = seen /\ disk'.origin = disk.origin
    BY <1>4, <2>1 DEF Register, Write, DB
  <2>3. seen \in [Name -> Nat] /\ \A n \in Name : seen[n] <= today
    BY <2>1 DEF DB
  <2>4. ASSUME disk.origin > 0
        PROVE  Rows(disk') # {} /\ disk'.origin = FirstSeen(disk')
    <3>1. PICK m \in Rows(disk) : /\ FirstSeen(disk) = disk.seen[m]
                                  /\ \A n \in Rows(disk) : disk.seen[m] <= disk.seen[n]
      BY <2>1, <2>4, FirstSeenIs DEF DB
    <3>2. m \in Name /\ disk.seen[m] > 0 /\ seen[m] = disk.seen[m] /\ m \in Rows(disk')
      BY <2>1, <2>2, <3>1 DEF Rows, DB
    <3>3. \A n \in Rows(disk') : disk'.seen[m] <= disk'.seen[n]
      BY <2>1, <2>2, <3>1, <3>2 DEF Rows, DB
    <3>4. FirstSeen(disk') = disk'.seen[m]
      BY <2>2, <2>3, <3>2, <3>3, FirstSeenUnique
    <3>. QED
      BY <2>2, <2>4, <3>1, <3>2, <3>4
  <2>. QED
    BY <2>1, <2>2, <2>3, <2>4
<1>5. CASE CloseOrDie
  BY <1>5, <1>1 DEF CloseOrDie
<1>6. CASE NextDay
  BY <1>6 DEF NextDay, DB, Rows, FirstSeen
<1>7. CASE UNCHANGED openVars
  BY <1>7, <1>1 DEF openVars
<1>. QED
  BY <1>2, <1>3, <1>4, <1>5, <1>6, <1>7 DEF OpenNext

\* The recorded first day is the day of the first row, for good.
THEOREM OriginStaysFirstDay == OpenSpec => []OriginIsFirstDay
<1>1. OriginInv => OriginIsFirstDay
  BY DEF OriginInv
<1>. QED
  BY OpenInvInit, OpenInvNext, OriginInvInit, OriginInvNext, <1>1, PTL DEF OpenSpec
=============================================================================
