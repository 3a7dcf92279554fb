--------------------------- MODULE OperationProofs ---------------------------
(***************************************************************************)
(* The runs over the days, for any files, windows, limits and bounds.      *)
(* First the calendar: what the windows leave out, which is nothing.  Then *)
(* Operation opens its ledger as LedgerOpen says, so what is proved there  *)
(* holds of it.  Then the invariant OpInv and what follows from it: the    *)
(* types and limits of a run, the bounds of what is sent, and the seeded   *)
(* files that are never sent again.                                        *)
(***************************************************************************)
EXTENDS Operation, LedgerOpenProofs, FiniteSetTheorems

\* Every day the ledger remembers, from the first day of operation to today,
\* is in the deep window or in the one of the automatic resend.
THEOREM WindowsLeaveNoGap ==
  ASSUME NEW now \in Nat, NEW origin \in Int, NEW d \in Int,
         origin <= d, d <= now, RetentionLimit(now) <= d
  PROVE  d \in DeepWindow(now) \cup AutoWindow(now, origin)
  BY CalendarAssumption DEF DeepWindow, Window, AutoWindow, RetentionLimit, RetentionMargin

\* The automatic resend looks at no day the deep window has, none before the
\* operation, and none that would be refused to a manual one.
THEOREM AutoWindowBounds ==
  ASSUME NEW now \in Nat, NEW origin \in Int, NEW d \in AutoWindow(now, origin)
  PROVE  /\ d \notin DeepWindow(now)
         /\ origin <= d /\ ManualAllowed(d, d, now)
  BY CalendarAssumption DEF DeepWindow, Window, AutoWindow, RetentionLimit, RetentionMargin,
                            ManualAllowed

\* Every day of operation has its turn in the automatic resend, on the day
\* after it left the deep window, once the retention leaves room for the margin.
THEOREM EveryDayHasItsResend ==
  ASSUME RetentionDays >= ScanDays + RetentionMargin,
         NEW origin \in Int, NEW d \in Int, origin <= d
  PROVE  d \in AutoWindow(d + ScanDays, origin)
  BY CalendarAssumption DEF AutoWindow, RetentionLimit, RetentionMargin

\* The reason given for an empty window is there exactly when it is empty.
THEOREM EmptyWhyIsTrue ==
  ASSUME NEW now \in Nat, NEW origin \in Int
  PROVE  (EmptyWhy(now, origin) = "none") <=> (AutoWindow(now, origin) # {})
<1>1. RetentionLimit(now) > now - ScanDays => AutoWindow(now, origin) = {}
  BY CalendarAssumption DEF AutoWindow, RetentionLimit, RetentionMargin
<1>. QED
  BY <1>1 DEF EmptyWhy

\* A step of the runs is a step of the ledger, or none.
LEMMA StepRefines == [Next]_vars => [OpenNext]_openVars
<1>. SUFFICES ASSUME [Next]_vars PROVE [OpenNext]_openVars
  OBVIOUS
<1>1. CASE Observe
  <2>1. PICK d \in run.days :
          \/ UNCHANGED openVars
          \/ Register({n \in onDisk : DayOf[n] = d})
    BY <1>1 DEF Observe
  <2>2. ASSUME Register({n \in onDisk : DayOf[n] = d}) PROVE OpenNext
    BY <2>2 DEF OpenNext, Register
  <2>. QED
    BY <2>1, <2>2
<1>2. CASE StartRun \/ OpenStep \/ Midnight \/ EndRun \/ Die
  BY <1>2 DEF StartRun, OpenStep, Midnight, EndRun, Die, OpenNext, Opening
<1>3. CASE Arrive \/ BeginScan \/ PlanRun \/ Send \/ SendFails \/ Compare \/ Resend
           \/ PartEnds
  BY <1>3 DEF Arrive, BeginScan, PlanRun, Send, SendFails, Compare, Resend, PartEnds
<1>4. CASE UNCHANGED vars
  BY <1>4 DEF vars
<1>. QED
  BY <1>1, <1>2, <1>3, <1>4 DEF Next

\* Operation opens its ledger the way LedgerOpen says.
THEOREM OpensAsLedgerOpen == Spec => OpenSpec
<1>1. Init => OpenInit
  BY DEF Init
<1>. QED
  BY <1>1, StepRefines, PTL DEF Spec, OpenSpec

\* The migrations and the first day of operation, under the runs.
THEOREM RunsKeepShape == Spec => []VersionMatchesShape
  BY OpensAsLedgerOpen, VersionAlwaysMatchesShape

\* A run leaves a database it must refuse as it was.
THEOREM RunsRefuseUntouched == Spec => RefusedUntouched
  BY OpensAsLedgerOpen, RefusedStaysUntouched

\* Dry runs, seeds and dead runs record no first day of operation of their own.
THEOREM RunsKeepOrigin == Spec => []OriginIsFirstDay
  BY OpensAsLedgerOpen, OriginStaysFirstDay
-----------------------------------------------------------------------------
(* The invariant of the runs.                                              *)

Runs == [kind : {"none", "dry", "seed", "hourly"}, deep : BOOLEAN,
         stage : {"off", "open", "observe", "send", "end"}, now : Nat, auto : BOOLEAN,
         days : SUBSET Int, cands : SUBSET Name, queue : SUBSET Name, kept : Nat,
         failed : BOOLEAN, verified : BOOLEAN, clean : BOOLEAN, there : SUBSET Name]

Types ==
    /\ onDisk \subseteq Name /\ atRemote \subseteq onDisk /\ inTime \subseteq onDisk
    /\ put \in [Name -> {"none", "PENDING", "FAILED", "VERIFIED"}]
    /\ stops \in 0 .. MaxStops /\ run \in Runs
    /\ began \in Nat /\ known \subseteq Name /\ sent \subseteq Name

\* A run holds the ledger from its start to its end.
Holding ==
    /\ run = NoRun <=> step = "closed"
    /\ run # NoRun => run.kind # "none" /\ run.stage # "off"
    /\ run.stage = "off" => run = NoRun
    /\ run.stage = "open" =>
         run.cands = {} /\ run.queue = {} /\ run.kept = 0 /\ ~run.auto
    /\ run.stage \in {"observe", "send", "end"} => step = "open" /\ run.now <= today
    /\ run.auto => run.kind # "seed"

\* What is put has been observed; only what is kept is queued.
Counted ==
    /\ \A n \in Name : put[n] # "none" => n \in Rows(disk)
    /\ run.kind # "dry" => run.cands \subseteq Rows(disk)
    /\ run.queue \subseteq run.cands /\ run.cands \subseteq onDisk
    /\ run.stage \in {"open", "observe", "end"} => run.queue = {}
    /\ run.stage = "observe" /\ ~run.auto => run.kept = 0
    /\ MaxFilesPerRun > 0 /\ run.kind # "seed" => run.kept <= MaxFilesPerRun
    /\ run.kept > 0 => Cardinality(run.queue) <= run.kept

\* began is the day of the first row.
BeganInv ==
    /\ Rows(disk) = {} => began = 0
    /\ Rows(disk) # {} => began = FirstSeen(disk)

\* What an hourly run may come to: its own window or, once it resends, the
\* days of the operation within the ledger's memory.
InReach(day) ==
    \/ day \in DeepWindow(run.now)
    \/ run.auto /\ began # 0 /\ day >= began /\ day >= RetentionLimit(run.now)

Reach ==
    run.kind = "hourly" /\ run.stage \in {"observe", "send"} =>
      /\ \A d \in run.days : InReach(d)
      /\ \A n \in run.cands : InReach(DayOf[n])

\* A delivered file is not queued: what hourly runs sent is VERIFIED.
Delivered ==
    /\ \A n \in sent : put[n] = "VERIFIED"
    /\ \A n \in run.queue : run.kind = "hourly" => put[n] # "VERIFIED"
    /\ run.kind = "hourly" /\ run.stage = "observe" =>
         \A n \in run.cands : put[n] # "VERIFIED"

\* The day a run measures its windows from.
Clock == IF run.stage \in {"observe", "send", "end"} THEN run.now ELSE today

\* A known file is delivered, or older than any window.
Beyond(n, now) == DayOf[n] <= now - ScanDays /\ (began = 0 \/ DayOf[n] < began)
KnownInv == \A n \in known : put[n] = "VERIFIED" \/ Beyond(n, Clock)

\* A seed works its way through what was there.
Seeding ==
    run.kind = "seed" /\ run.stage \in {"observe", "send", "end"} =>
      /\ run.there \subseteq atRemote /\ run.there \cap sent = {}
      /\ \A n \in run.there : DayOf[n] <= run.now
      /\ \A n \in run.there : DayOf[n] \in DeepWindow(run.now) =>
           \/ put[n] = "VERIFIED"
           \/ /\ put[n] = "none"
              /\ \/ run.stage = "observe" /\ (DayOf[n] \in run.days \/ n \in run.cands)
                 \/ run.stage = "send" /\ n \in run.queue

OpInv ==
    /\ OpenInv /\ OriginInv /\ Types /\ Holding /\ Counted /\ BeganInv
    /\ Reach /\ Delivered /\ KnownInv /\ Seeding

\* What a step other than Observe leaves of the rows.
LEMMA SeenKept ==
  OpenInv /\ (Opening \/ CloseOrDie \/ NextDay \/ UNCHANGED openVars)
    => /\ Rows(disk') = Rows(disk) /\ FirstSeen(disk') = FirstSeen(disk)
       /\ today \in Nat /\ today' \in Nat /\ today <= today'
<1>. SUFFICES ASSUME OpenInv, Opening \/ CloseOrDie \/ NextDay \/ UNCHANGED openVars
              PROVE  /\ Rows(disk') = Rows(disk) /\ FirstSeen(disk') = FirstSeen(disk)
                     /\ today \in Nat /\ today' \in Nat /\ today <= today'
  OBVIOUS
<1>1. disk \in DB /\ view \in DB /\ view.seen = disk.seen /\ today \in Nat
  BY DEF OpenInv, OpenTypeOK, ViewInv
<1>2. disk'.seen = disk.seen
  BY <1>1 DEF Opening, Write, Stage, StartOpen, CreateCommon, CreateIndex, CreateMeta,
         InsertMeta, CheckRule, AddColumns, Backfill, Bump, Commit, CheckVersion,
         EnsureOrigin, CloseOrDie, NextDay, openVars, DB
<1>3. today' = today \/ today' = today + 1
  BY DEF Opening, Write, Stage, StartOpen, CreateCommon, CreateIndex, CreateMeta,
         InsertMeta, CheckRule, AddColumns, Backfill, Bump, Commit, CheckVersion,
         EnsureOrigin, CloseOrDie, NextDay, openVars
<1>. QED
  BY <1>1, <1>2, <1>3 DEF Rows, FirstSeen

\* The runs start in the invariant.
LEMMA OpInvInit == Init => OpInv
<1>. SUFFICES ASSUME Init PROVE OpInv
  OBVIOUS
<1>1. OpenInv /\ OriginInv
  BY OpenInvInit, OriginInvInit DEF Init
<1>2. today \in Nat /\ disk \in DB /\ step = "closed"
  BY DEF Init, OpenInit
<1>3. BeganInv /\ began \in Nat
  <2>1. Rows(disk) # {} => FirstSeen(disk) \in Nat
    BY <1>2, FirstSeenIs DEF DB, Rows
  <2>. QED
    BY <2>1 DEF Init, BeganInv
<1>4. run \in Runs /\ run = NoRun
  BY DEF Init, NoRun, Runs
<1>5. Types
  BY <1>2, <1>3, <1>4, OperationAssumption DEF Init, Types
<1>6. Holding /\ Reach /\ Delivered /\ Seeding
  BY <1>2, <1>4, <1>5 DEF Holding, Reach, Delivered, Seeding, NoRun, Init
<1>7. Counted
  BY <1>2, <1>4, OperationAssumption DEF Counted, NoRun, Init, Rows, DB
<1>8. KnownInv
  BY DEF KnownInv, Init
<1>. QED
  BY <1>1, <1>3, <1>5, <1>6, <1>7, <1>8 DEF OpInv

LEMMA NoRunIsOff == NoRun.stage = "off"
  BY DEF NoRun

\* The conjuncts a step must keep, beside those of LedgerOpen.
RunInv == Types /\ Holding /\ Counted /\ BeganInv /\ Reach /\ Delivered /\ KnownInv /\ Seeding

\* The file comes, the clock goes on: no run is touched.
LEMMA ArriveKeeps == OpInv /\ Arrive => RunInv'
<1>. SUFFICES ASSUME OpInv, Arrive PROVE RunInv'
  OBVIOUS
<1>1. UNCHANGED <<openVars, run, put, stops, atRemote, began, known, sent>>
  BY DEF Arrive
<1>2. onDisk \subseteq onDisk' /\ onDisk' \subseteq Name /\ inTime' \subseteq onDisk'
  BY DEF Arrive, OpInv, Types
<1>. QED
  BY <1>1, <1>2 DEF RunInv, OpInv, Types, Holding, Counted, BeganInv, Reach, InReach,
     Delivered, KnownInv, Beyond, Clock, Seeding, openVars, Rows

LEMMA MidnightKeeps == OpInv /\ Midnight => RunInv'
<1>. SUFFICES ASSUME OpInv, Midnight PROVE RunInv'
  OBVIOUS
<1>1. /\ UNCHANGED <<disk, step, onDisk, atRemote, put, stops, run, began, inTime, known, sent>>
      /\ today' = today + 1 /\ today \in Nat
  BY DEF Midnight, NextDay, OpInv, OpenInv, OpenTypeOK, world
<1>2. KnownInv'
  <2>1. Clock \in Int /\ Clock' \in Int /\ Clock <= Clock'
    BY <1>1 DEF Clock, OpInv, Types, Runs
  <2>2. \A n \in Name : DayOf[n] \in Nat
    BY OperationAssumption
  <2>. QED
    BY <1>1, <2>1, <2>2, CalendarAssumption DEF KnownInv, Beyond, OpInv, Types
<1>3. Types' /\ Counted' /\ BeganInv' /\ Reach' /\ Delivered' /\ Seeding'
  BY <1>1 DEF OpInv, Types, Counted, BeganInv, Reach, InReach, Delivered, Seeding
<1>4. Holding'
  BY <1>1 DEF OpInv, Holding, Types, Runs
<1>. QED
  BY <1>2, <1>3, <1>4 DEF RunInv

LEMMA StartRunKeeps == OpInv /\ StartRun => RunInv'
<1>. SUFFICES ASSUME OpInv, StartRun PROVE RunInv'
  OBVIOUS
<1>1. PICK k \in {"dry", "seed", "hourly"}, d \in BOOLEAN :
        run' = [NoRun EXCEPT !.kind = k, !.deep = d, !.stage = "open"]
  BY DEF StartRun
<1>2. /\ UNCHANGED <<today, disk, view, onDisk, atRemote, put, stops, began, inTime, known, sent>>
      /\ step = "closed" /\ step' = "common" /\ run = NoRun
  BY DEF StartRun, StartOpen, world, memory, OpInv, Holding
<1>3. /\ run' \in Runs /\ run'.stage = "open" /\ run'.kind = k /\ run'.queue = {}
      /\ run'.cands = {} /\ run'.kept = 0 /\ run'.auto = FALSE /\ run'.days = {}
      /\ run' # NoRun /\ run.stage = "off"
  BY <1>1, <1>2 DEF NoRun, Runs
<1>4. KnownInv'
  BY <1>2, <1>3 DEF OpInv, KnownInv, Beyond, Clock
<1>5. Types' /\ BeganInv' /\ Holding' /\ Reach' /\ Delivered' /\ Seeding'
  BY <1>2, <1>3 DEF OpInv, Types, BeganInv, Holding, Reach, Delivered, Seeding
<1>6. Counted'
  BY <1>2, <1>3, OperationAssumption DEF OpInv, Counted, Rows
<1>. QED
  BY <1>4, <1>5, <1>6 DEF RunInv

LEMMA OpenStepKeeps == OpInv /\ OpenStep => RunInv'
<1>. SUFFICES ASSUME OpInv, OpenStep PROVE RunInv'
  OBVIOUS
<1>1. /\ Opening /\ run.stage = "open" /\ step # "closed"
      /\ UNCHANGED <<onDisk, atRemote, put, stops, began, inTime, known, sent>>
      /\ run' = IF step' = "closed" THEN NoRun ELSE run
  BY DEF OpenStep, world, memory
<1>2. /\ Rows(disk') = Rows(disk) /\ FirstSeen(disk') = FirstSeen(disk)
      /\ today' = today
  BY <1>1, SeenKept DEF OpInv, Opening, StartOpen, CreateCommon, CreateIndex, CreateMeta,
     InsertMeta, CheckRule, AddColumns, Backfill, Bump, Commit, CheckVersion, EnsureOrigin
<1>3. /\ run' \in Runs /\ run'.stage \in {"off", "open"} /\ run'.queue = {}
      /\ run'.cands = {} /\ run'.kept = 0 /\ run # NoRun
      /\ run'.stage = "off" <=> run' = NoRun
      /\ run' = NoRun <=> step' = "closed" 
      /\ run' # NoRun => run'.kind # "none" /\ ~run'.auto
  BY <1>1 DEF NoRun, Runs, OpInv, Holding, Counted, Types
<1>4. KnownInv'
  BY <1>1, <1>2, <1>3 DEF OpInv, KnownInv, Beyond, Clock
<1>5. Types' /\ BeganInv' /\ Reach' /\ Delivered' /\ Seeding'
  BY <1>1, <1>2, <1>3 DEF OpInv, Types, BeganInv, Reach, Delivered, Seeding
<1>6. Counted'
  BY <1>1, <1>2, <1>3, OperationAssumption DEF OpInv, Counted
<1>7. Holding'
  BY <1>3 DEF Holding, NoRun
<1>. QED
  BY <1>4, <1>5, <1>6, <1>7 DEF RunInv

LEMMA BeginScanKeeps == OpInv /\ BeginScan => RunInv'
<1>. SUFFICES ASSUME OpInv, BeginScan PROVE RunInv'
  OBVIOUS
<1>. DEFINE there == {n \in atRemote : DayOf[n] <= today /\ put[n] = "none"}
<1>1. /\ run.stage = "open" /\ step = "open" /\ run \in Runs /\ today \in Nat
      /\ UNCHANGED <<openVars, onDisk, atRemote, put, stops, began, inTime, known, sent>>
      /\ run' = [run EXCEPT !.stage = "observe", !.now = today,
                            !.days = ScanRange(run, today), !.there = there]
  BY DEF BeginScan, world, memory, OpInv, Types, OpenInv, OpenTypeOK
<1>2. there \subseteq atRemote /\ there \subseteq Name
  BY DEF OpInv, Types
<1>3. ScanRange(run, today) \subseteq DeepWindow(today) /\ DeepWindow(today) \subseteq Int
  BY <1>1, CalendarAssumption DEF ScanRange, HotWindow, DeepWindow, Window
<1>4. /\ run' \in Runs /\ run'.stage = "observe" /\ run'.now = today /\ run'.kind = run.kind
      /\ run'.days = ScanRange(run, today) /\ run'.there = there /\ run'.auto = run.auto
      /\ run'.cands = run.cands /\ run'.queue = run.queue /\ run'.kept = run.kept
  BY <1>1, <1>2, <1>3 DEF Runs
<1>. HIDE DEF there
<1>5. Types' /\ BeganInv'
  BY <1>1, <1>4 DEF OpInv, Types, BeganInv, openVars
<1>6. Holding'
  <2>1. run # NoRun /\ run' # NoRun
    BY <1>1, <1>4, NoRunIsOff
  <2>. QED
    BY <1>1, <1>4, <2>1 DEF OpInv, Holding, openVars
<1>7. Counted'
  BY <1>1, <1>4 DEF OpInv, Counted, openVars, Holding
<1>8. Reach' /\ Delivered'
  BY <1>1, <1>3, <1>4 DEF OpInv, Holding, Reach, InReach, Delivered
<1>9. KnownInv'
  BY <1>1, <1>4 DEF OpInv, KnownInv, Beyond, Clock
<1>10. Seeding'
  <2>1. run.kind = "seed" => run'.days = DeepWindow(run'.now)
    BY <1>4 DEF ScanRange
  <2>2. \A n \in there : put[n] = "none" /\ DayOf[n] <= today
    BY DEF there
  <2>. QED
    BY <1>1, <1>2, <1>4, <2>1, <2>2 DEF OpInv, Delivered, Seeding
<1>. QED
  BY <1>5, <1>6, <1>7, <1>8, <1>9, <1>10 DEF RunInv

\* The directory of a day is registered and judged.
LEMMA ObserveKeeps == OpInv /\ Observe => RunInv'
<1>. SUFFICES ASSUME OpInv, Observe PROVE RunInv'
  OBVIOUS
<1>1. PICK d \in run.days :
        LET found == {n \in onDisk : DayOf[n] = d}
        IN  /\ IF run.kind = "dry" THEN UNCHANGED <<openVars, began>>
               ELSE /\ Register(found)
                    /\ began' = IF began = 0 /\ found # {} THEN today ELSE began
            /\ run' = [run EXCEPT !.days = @ \ {d},
                         !.cands = @ \cup {n \in found : put[n] # "VERIFIED"}]
  BY DEF Observe
<1>. DEFINE found == {n \in onDisk : DayOf[n] = d}
            fresh == {n \in found : put[n] # "VERIFIED"}
<1>2. /\ run.stage = "observe" /\ run \in Runs /\ step = "open" /\ today \in Nat /\ today > 0
      /\ UNCHANGED <<onDisk, atRemote, put, stops, inTime, known, sent>>
      /\ found \subseteq onDisk /\ fresh \subseteq onDisk /\ onDisk \subseteq Name
  BY DEF Observe, world, OpInv, Types, OpenInv, OpenTypeOK, Holding
<1>3. run' = [run EXCEPT !.days = @ \ {d}, !.cands = @ \cup fresh]
  BY <1>1
<1>4. /\ run' \in Runs /\ run'.stage = "observe" /\ run'.now = run.now
      /\ run'.kind = run.kind /\ run'.there = run.there /\ run'.auto = run.auto
      /\ run'.days = run.days \ {d} /\ run'.cands = run.cands \cup fresh
      /\ run'.queue = run.queue /\ run'.kept = run.kept
  BY <1>2, <1>3 DEF Runs
<1>5. \/ run.kind = "dry" /\ UNCHANGED <<openVars, began>>
      \/ /\ run.kind # "dry" /\ Register(found)
         /\ began' = IF began = 0 /\ found # {} THEN today ELSE began
  BY <1>1
<1>6. /\ \A n \in fresh : put[n] # "VERIFIED" /\ DayOf[n] = d /\ n \in found
      /\ \A n \in onDisk : DayOf[n] = d /\ put[n] # "VERIFIED" => n \in fresh
      /\ d \in run.days
  OBVIOUS
<1>7. Register(found) =>
        /\ Rows(disk') = Rows(disk) \cup found
        /\ disk.seen \in [Name -> Nat] /\ disk'.seen \in [Name -> Nat]
        /\ disk'.seen = [n \in Name |-> IF n \in found /\ disk.seen[n] = 0 THEN today
                                        ELSE disk.seen[n]]
  <2>. SUFFICES ASSUME Register(found)
                PROVE  /\ Rows(disk') = Rows(disk) \cup found
                       /\ disk.seen \in [Name -> Nat] /\ disk'.seen \in [Name -> Nat]
                       /\ disk'.seen = [n \in Name |-> IF n \in found /\ disk.seen[n] = 0
                                                       THEN today ELSE disk.seen[n]]
    OBVIOUS
  <2>1. view = disk /\ disk \in DB
    BY <1>2 DEF OpInv, OpenInv, OpenTypeOK, ViewInv, InTx
  <2>2. disk'.seen = [n \in Name |-> IF n \in found /\ disk.seen[n] = 0 THEN today
                                     ELSE disk.seen[n]]
    BY <2>1 DEF Register, Write, DB
  <2>. QED
    BY <1>2, <2>1, <2>2 DEF DB, Rows
<1>. HIDE DEF found, fresh
<1>8. UNCHANGED <<today, step>>
  BY <1>5 DEF openVars, Register
<1>9. began' = began \/ (began = 0 /\ began' = today /\ found # {})
  BY <1>5
<1>10. Types'
  BY <1>2, <1>4, <1>9 DEF OpInv, Types
<1>11. Holding'
  <2>1. run' # NoRun
    BY <1>4, NoRunIsOff
  <2>. QED
    BY <1>2, <1>4, <1>8, <2>1 DEF OpInv, Holding
<1>12. Rows(disk) \subseteq Rows(disk') /\ (run.kind # "dry" => found \subseteq Rows(disk'))
  BY <1>5, <1>7 DEF openVars
<1>13. fresh \subseteq found
  BY <1>6
<1>14. Counted'
  BY <1>2, <1>4, <1>12, <1>13 DEF OpInv, Counted
<1>15. BeganInv'
  <2>1. CASE UNCHANGED <<openVars, began>>
    BY <2>1 DEF OpInv, BeganInv, openVars
  <2>2. CASE run.kind # "dry" /\ Register(found) /\ Rows(disk) = {}
    <3>1. began = 0 /\ began' = IF found # {} THEN today ELSE 0
      BY <1>5, <2>2 DEF OpInv, BeganInv
    <3>2. \A n \in Rows(disk') : disk'.seen[n] = today
      BY <1>2, <1>7, <2>2 DEF Rows
    <3>3. ASSUME NEW m \in Rows(disk') PROVE FirstSeen(disk') = today
      BY <1>2, <1>7, <2>2, <3>2, <3>3, FirstSeenUnique
    <3>. QED
      BY <1>7, <2>2, <3>1, <3>3 DEF BeganInv
  <2>3. CASE run.kind # "dry" /\ Register(found) /\ Rows(disk) # {}
    <3>1. PICK m \in Rows(disk) : /\ FirstSeen(disk) = disk.seen[m]
                                  /\ \A n \in Rows(disk) : disk.seen[m] <= disk.seen[n]
      BY <1>7, <2>3, FirstSeenIs
    <3>2. m \in Name /\ disk.seen[m] > 0 /\ disk'.seen[m] = disk.seen[m] /\ m \in Rows(disk')
      BY <1>7, <2>3, <3>1 DEF Rows
    <3>3. \A n \in Rows(disk') : disk'.seen[m] <= disk'.seen[n]
      BY <1>2, <1>7, <2>3, <3>1, <3>2 DEF Rows, OpInv, OriginInv
    <3>4. FirstSeen(disk') = disk'.seen[m]
      BY <1>7, <2>3, <3>2, <3>3, FirstSeenUnique
    <3>5. began = FirstSeen(disk) /\ began # 0
      BY <1>7, <2>3, <3>1, <3>2 DEF OpInv, BeganInv
    <3>. QED
      BY <1>9, <3>1, <3>2, <3>4, <3>5 DEF BeganInv
  <2>. QED
    BY <1>5, <2>1, <2>2, <2>3
<1>16. Reach'
  <2>1. \A x : InReach(x) => InReach(x)'
    BY <1>4, <1>9 DEF InReach
  <2>. QED
    BY <1>2, <1>4, <1>6, <2>1 DEF OpInv, Reach
<1>17. Delivered'
  BY <1>2, <1>4, <1>6 DEF OpInv, Delivered
<1>18. KnownInv'
  <2>1. \A n \in Name : DayOf[n] \in Nat
    BY OperationAssumption
  <2>2. Clock' = Clock /\ Clock = run.now /\ run.now \in Nat /\ run.now <= today
    BY <1>2, <1>4 DEF Clock, OpInv, Holding, Runs
  <2>. QED
    BY <1>2, <1>9, <2>1, <2>2, CalendarAssumption DEF OpInv, KnownInv, Beyond, Types
<1>19. Seeding'
  <2>1. atRemote \subseteq onDisk
    BY DEF OpInv, Types
  <2>. QED
    BY <1>2, <1>4, <1>6, <2>1 DEF OpInv, Seeding
<1>. QED
  BY <1>10, <1>11, <1>14, <1>15, <1>16, <1>17, <1>18, <1>19 DEF RunInv

LEMMA PlanRunKeeps == OpInv /\ PlanRun => RunInv'
<1>. SUFFICES ASSUME OpInv, PlanRun PROVE RunInv'
  OBVIOUS
<1>1. PICK kept \in Kept(run.cands) :
        /\ run' = [run EXCEPT !.stage = "send",
                     !.queue = IF run.kind = "dry" THEN {} ELSE kept,
                     !.kept  = @ + Cardinality(kept),
                     !.clean = @ /\ kept = run.cands]
        /\ put' = IF run.kind # "hourly" THEN put
                  ELSE [n \in Name |-> IF n \in kept /\ put[n] = "none"
                                       THEN "PENDING" ELSE put[n]]
  BY DEF PlanRun
<1>2. /\ run.stage = "observe" /\ run.days = {} /\ run \in Runs /\ run # NoRun
      /\ UNCHANGED <<openVars, onDisk, atRemote, stops, began, inTime, known, sent>>
  BY NoRunIsOff DEF PlanRun, OpInv, Types, memory
<1>3. kept \subseteq run.cands /\ run.cands \subseteq Name
  BY <1>2 DEF Kept, Runs
<1>4. Cardinality(kept) \in Nat
  BY <1>3, NameAssumption, FS_Subset, FS_CardinalityType
<1>5. /\ run.kind = "seed" => kept = run.cands
      /\ MaxFilesPerRun > 0 /\ run.kind # "seed" =>
           Cardinality(kept) <= IF run.auto THEN MaxFilesPerRun - run.kept ELSE MaxFilesPerRun
  <2>1. MaxFilesPerRun \in Nat /\ run.kept \in Nat
    BY <1>2, OperationAssumption DEF Runs
  <2>2. Limit \in Int
    BY <2>1 DEF Limit, ResendBudget
  <2>3. Cardinality(run.cands) \in Nat
    BY <1>3, NameAssumption, FS_Subset, FS_CardinalityType
  <2>4. \/ kept = run.cands /\ (\/ MaxFilesPerRun = 0 \/ run.kind = "seed"
                                \/ Cardinality(run.cands) <= Limit)
        \/ Cardinality(kept) = Limit /\ run.kind # "seed"
    BY DEF Kept
  <2>. QED
    BY <2>1, <2>2, <2>3, <2>4 DEF Limit, ResendBudget
<1>6. /\ run' \in Runs /\ run'.stage = "send" /\ run'.now = run.now /\ run'.kind = run.kind
      /\ run'.there = run.there /\ run'.auto = run.auto /\ run'.days = {}
      /\ run'.cands = run.cands /\ run'.kept = run.kept + Cardinality(kept)
      /\ run'.queue = (IF run.kind = "dry" THEN {} ELSE kept)
  <2>. DEFINE c == run.clean /\ kept = run.cands
              q == IF run.kind = "dry" THEN {} ELSE kept
              k == run.kept + Cardinality(kept)
  <2>1. run' = [run EXCEPT !.stage = "send", !.queue = q, !.kept = k, !.clean = c]
    BY <1>1
  <2>2. c \in BOOLEAN
    OBVIOUS
  <2>3. q \in SUBSET Name /\ k \in Nat
    BY <1>2, <1>3, <1>4 DEF Runs
  <2>. HIDE DEF c, q, k
  <2>4. /\ run' \in Runs /\ run'.stage = "send" /\ run'.now = run.now /\ run'.kind = run.kind
        /\ run'.there = run.there /\ run'.auto = run.auto /\ run'.days = run.days
        /\ run'.cands = run.cands /\ run'.kept = k /\ run'.queue = q
    BY <1>2, <2>1, <2>2, <2>3 DEF Runs
  <2>. QED
    BY <1>2, <2>4 DEF k, q
<1>7. /\ put' \in [Name -> {"none", "PENDING", "FAILED", "VERIFIED"}]
      /\ \A n \in Name : put[n] # "none" => put'[n] = put[n]
      /\ \A n \in Name : put'[n] # "none" =>
           put[n] # "none" \/ (run.kind = "hourly" /\ n \in kept /\ put'[n] = "PENDING")
      /\ run.kind # "hourly" => put' = put
  BY <1>1 DEF OpInv, Types
<1>8. Types' /\ BeganInv'
  BY <1>2, <1>6, <1>7 DEF OpInv, Types, BeganInv, openVars
<1>9. Holding'
  <2>1. run' # NoRun
    BY <1>6, NoRunIsOff
  <2>. QED
    BY <1>2, <1>6, <2>1 DEF OpInv, Holding, openVars
<1>10. Counted'
  <2>1. UNCHANGED disk /\ run'.queue \subseteq run'.cands
    BY <1>2, <1>3, <1>6 DEF openVars
  <2>2. run.kind # "dry" => run.cands \subseteq Rows(disk)
    BY DEF OpInv, Counted
  <2>3. \A n \in Name : put'[n] # "none" => n \in Rows(disk')
    BY <1>3, <1>7, <2>1, <2>2 DEF OpInv, Counted
  <2>4. run'.kept > 0 => Cardinality(run'.queue) <= run'.kept
    BY <1>2, <1>4, <1>6, FS_EmptySet DEF Runs
  <2>5. MaxFilesPerRun > 0 /\ run.kind # "seed" => run'.kept <= MaxFilesPerRun
    <3>1. run.kept \in Nat /\ MaxFilesPerRun \in Nat
      BY <1>2, OperationAssumption DEF Runs
    <3>2. ~run.auto => run.kept = 0
      BY <1>2 DEF OpInv, Counted
    <3>. QED
      BY <1>4, <1>5, <1>6, <3>1, <3>2
  <2>6. run.cands \subseteq onDisk' /\ ~ run'.stage \in {"open", "observe", "end"}
    BY <1>2, <1>6 DEF OpInv, Counted
  <2>. QED
    BY <1>6, <2>1, <2>2, <2>3, <2>4, <2>5, <2>6 DEF Counted
<1>11. Reach'
  BY <1>2, <1>6 DEF OpInv, Reach, InReach
<1>12. Delivered'
  <2>1. \A n \in sent : n \in Name
    BY DEF OpInv, Types
  <2>. QED
    BY <1>2, <1>3, <1>6, <1>7, <2>1 DEF OpInv, Delivered
<1>13. KnownInv'
  BY <1>2, <1>6, <1>7 DEF OpInv, KnownInv, Beyond, Clock, Types
<1>14. Seeding'
  BY <1>2, <1>5, <1>6, <1>7 DEF OpInv, Seeding
<1>. QED
  BY <1>8, <1>9, <1>10, <1>11, <1>12, <1>13, <1>14 DEF RunInv

\* A file leaves the queue, delivered, failed or compared.
LEMMA QueueStep ==
  ASSUME OpInv, run.stage = "send", NEW n \in run.queue, UNCHANGED <<openVars, began, known>>,
         onDisk' = onDisk,
         NEW v \in {"none", "PENDING", "FAILED", "VERIFIED"}, put' = [put EXCEPT ![n] = v],
         put[n] = "VERIFIED" => v = "VERIFIED", run.kind # "dry",
         run' \in Runs, run'.stage = "send", run'.now = run.now, run'.kind = run.kind,
         run'.there = run.there, run'.auto = run.auto, run'.days = run.days,
         run'.cands = run.cands, run'.kept = run.kept, run'.queue = run.queue \ {n}
  PROVE  Holding' /\ Counted' /\ BeganInv' /\ Reach' /\ KnownInv'
<1>1. run # NoRun /\ run' # NoRun
  BY NoRunIsOff
<1>2. /\ put \in [Name -> {"none", "PENDING", "FAILED", "VERIFIED"}] /\ run \in Runs
      /\ known \subseteq Name
  BY DEF OpInv, Types
<1>3. n \in Rows(disk)
  BY DEF OpInv, Counted
<1>4. Holding' /\ BeganInv' /\ Reach'
  BY <1>1 DEF OpInv, Holding, BeganInv, Reach, InReach, openVars
<1>5. Counted'
  <2>1. \A m \in Name : put'[m] # "none" => m \in Rows(disk')
    BY <1>2, <1>3 DEF OpInv, Counted, openVars
  <2>2. run'.kept > 0 => Cardinality(run'.queue) <= run'.kept
    <3>1. IsFiniteSet(run.queue)
      BY <1>2, NameAssumption, FS_Subset DEF Runs
    <3>2. /\ Cardinality(run.queue) \in Nat /\ run.kept \in Nat
          /\ Cardinality(run'.queue) = Cardinality(run.queue) - 1
      BY <1>2, <3>1, FS_CardinalityType, FS_RemoveElement DEF Runs
    <3>. QED
      BY <3>2 DEF OpInv, Counted
  <2>. QED
    BY <2>1, <2>2 DEF OpInv, Counted, openVars
<1>6. KnownInv'
  BY <1>2 DEF OpInv, KnownInv, Beyond, Clock
<1>. QED
  BY <1>4, <1>5, <1>6

LEMMA SendKeeps == OpInv /\ Send => RunInv'
<1>. SUFFICES ASSUME OpInv, Send PROVE RunInv'
  OBVIOUS
<1>1. PICK n \in run.queue :
        /\ atRemote' = atRemote \cup {n} /\ sent' = sent \cup {n}
        /\ put' = [put EXCEPT ![n] = "VERIFIED"]
        /\ run' = [run EXCEPT !.queue = @ \ {n}, !.verified = TRUE]
  BY DEF Send
<1>2. /\ run.stage = "send" /\ run.kind = "hourly" /\ run \in Runs
      /\ UNCHANGED <<openVars, onDisk, stops, began, inTime, known>>
  BY DEF Send, OpInv, Types
<1>3. /\ run' \in Runs /\ run'.stage = "send" /\ run'.now = run.now /\ run'.kind = run.kind
      /\ run'.there = run.there /\ run'.auto = run.auto /\ run'.days = run.days
      /\ run'.cands = run.cands /\ run'.kept = run.kept /\ run'.queue = run.queue \ {n}
  BY <1>1, <1>2 DEF Runs
<1>4. Holding' /\ Counted' /\ BeganInv' /\ Reach' /\ KnownInv'
  BY <1>1, <1>2, <1>3, QueueStep
<1>5. n \in Name /\ n \in onDisk
  BY <1>1, <1>2 DEF OpInv, Counted, Types, Runs
<1>6. Types'
  BY <1>1, <1>2, <1>3, <1>5 DEF OpInv, Types
<1>7. Delivered' /\ Seeding'
  BY <1>1, <1>2, <1>3, <1>5 DEF OpInv, Types, Delivered, Seeding
<1>. QED
  BY <1>4, <1>6, <1>7 DEF RunInv

LEMMA SendFailsKeeps == OpInv /\ SendFails => RunInv'
<1>. SUFFICES ASSUME OpInv, SendFails PROVE RunInv'
  OBVIOUS
<1>1. PICK n \in run.queue :
        /\ put' = [put EXCEPT ![n] = "FAILED"]
        /\ run' = [run EXCEPT !.queue = @ \ {n}, !.failed = TRUE, !.clean = FALSE]
  BY DEF SendFails
<1>2. /\ run.stage = "send" /\ run.kind = "hourly" /\ run \in Runs
      /\ UNCHANGED <<openVars, onDisk, atRemote, began, inTime, known, sent>>
      /\ stops' = stops + 1 /\ stops < MaxStops
  BY DEF SendFails, memory, OpInv, Types
<1>3. /\ run' \in Runs /\ run'.stage = "send" /\ run'.now = run.now /\ run'.kind = run.kind
      /\ run'.there = run.there /\ run'.auto = run.auto /\ run'.days = run.days
      /\ run'.cands = run.cands /\ run'.kept = run.kept /\ run'.queue = run.queue \ {n}
  BY <1>1, <1>2 DEF Runs
<1>4. put[n] # "VERIFIED" /\ n \in Name
  BY <1>2 DEF OpInv, Delivered, Runs
<1>5. Holding' /\ Counted' /\ BeganInv' /\ Reach' /\ KnownInv'
  BY <1>1, <1>2, <1>3, <1>4, QueueStep
<1>6. Types'
  BY <1>1, <1>2, <1>3, <1>4, OperationAssumption DEF OpInv, Types
<1>7. Delivered' /\ Seeding'
  BY <1>1, <1>2, <1>3, <1>4 DEF OpInv, Types, Delivered, Seeding
<1>. QED
  BY <1>5, <1>6, <1>7 DEF RunInv

LEMMA CompareKeeps == OpInv /\ Compare => RunInv'
<1>. SUFFICES ASSUME OpInv, Compare PROVE RunInv'
  OBVIOUS
<1>1. PICK n \in run.queue :
        /\ put' = IF n \in atRemote /\ put[n] = "none"
                  THEN [put EXCEPT ![n] = "VERIFIED"] ELSE put
        /\ run' = [run EXCEPT !.queue = @ \ {n}]
  BY DEF Compare
<1>2. /\ run.stage = "send" /\ run.kind = "seed" /\ run \in Runs
      /\ UNCHANGED <<openVars, onDisk, atRemote, stops, began, inTime, known, sent>>
      /\ put \in [Name -> {"none", "PENDING", "FAILED", "VERIFIED"}]
  BY DEF Compare, memory, OpInv, Types
<1>3. /\ run' \in Runs /\ run'.stage = "send" /\ run'.now = run.now /\ run'.kind = run.kind
      /\ run'.there = run.there /\ run'.auto = run.auto /\ run'.days = run.days
      /\ run'.cands = run.cands /\ run'.kept = run.kept /\ run'.queue = run.queue \ {n}
  BY <1>1, <1>2 DEF Runs
<1>. DEFINE v == IF n \in atRemote /\ put[n] = "none" THEN "VERIFIED" ELSE put[n]
<1>4. /\ put' = [put EXCEPT ![n] = v] /\ v \in {"none", "PENDING", "FAILED", "VERIFIED"}
      /\ put[n] = "VERIFIED" => v = "VERIFIED"
      /\ n \in Name
  BY <1>1, <1>2 DEF Runs
<1>5. n \in atRemote /\ put[n] = "none" => v = "VERIFIED"
  OBVIOUS
<1>. HIDE DEF v
<1>6. Holding' /\ Counted' /\ BeganInv' /\ Reach' /\ KnownInv'
  BY <1>2, <1>3, <1>4, QueueStep
<1>7. Types' /\ Delivered'
  BY <1>2, <1>3, <1>4 DEF OpInv, Types, Delivered
<1>8. Seeding'
  BY <1>2, <1>3, <1>4, <1>5 DEF OpInv, Seeding, Types
<1>. QED
  BY <1>6, <1>7, <1>8 DEF RunInv

\* The first day of operation, as the open ledger knows it.
LEMMA OriginKnown ==
  ASSUME OpInv, step = "open"
  PROVE  /\ Rows(disk) = {} => OperationOrigin(run.now) = run.now /\ began = 0
         /\ Rows(disk) # {} => OperationOrigin(run.now) = began /\ began # 0
<1>1. /\ view = disk /\ disk.origin \in Nat /\ disk.seen \in [Name -> Nat]
      /\ disk.origin > 0 => Rows(disk) # {} /\ disk.origin = FirstSeen(disk)
  BY DEF OpInv, OpenInv, OpenTypeOK, ViewInv, StepInv, InTx, DB, OriginInv, OriginIsFirstDay
<1>2. Rows(disk) # {} => FirstSeen(disk) # 0
  BY <1>1, FirstSeenIs DEF Rows
<1>. QED
  BY <1>1, <1>2 DEF OperationOrigin, OpInv, BeganInv

\* Between the parts of a run.
LEMMA ResendKeeps == OpInv /\ Resend => RunInv'
<1>. SUFFICES ASSUME OpInv, Resend PROVE RunInv'
  OBVIOUS
<1>. DEFINE days  == AutoWindow(run.now, OperationOrigin(run.now))
            spent == MaxFilesPerRun > 0 /\ ResendBudget <= 0
<1>1. /\ run.stage = "send" /\ run.queue = {} /\ run.kind # "seed" /\ ~run.auto
      /\ UNCHANGED <<openVars, onDisk, atRemote, put, stops, began, inTime, known, sent>>
      /\ run \in Runs /\ step = "open" /\ run.now <= today /\ run.now \in Nat
      /\ run.kind # "none"
  BY NoRunIsOff DEF Resend, world, memory, OpInv, Types, Holding, Runs
<1>2. CASE (run.failed /\ ~run.verified) \/ days = {} \/ spent
  <2>. DEFINE c == run.clean /\ days = {}
  <2>1. run' = [run EXCEPT !.stage = "end", !.clean = c]
    BY <1>2 DEF Resend
  <2>2. c \in BOOLEAN
    OBVIOUS
  <2>. HIDE DEF c
  <2>3. /\ run' \in Runs /\ run'.stage = "end" /\ run'.now = run.now /\ run'.kind = run.kind
        /\ run'.auto = run.auto /\ run'.cands = run.cands /\ run'.kept = run.kept
        /\ run'.queue = run.queue /\ run' # NoRun
    BY <1>1, <2>1, <2>2, NoRunIsOff DEF Runs
  <2>. QED
    BY <1>1, <2>3
       DEF OpInv, RunInv, Types, Holding, Counted, BeganInv, Reach, Delivered, KnownInv,
           Beyond, Clock, Seeding, openVars
<1>3. CASE ~((run.failed /\ ~run.verified) \/ days = {} \/ spent)
  <2>1. run' = [run EXCEPT !.stage = "observe", !.auto = TRUE, !.days = days, !.cands = {}]
    BY <1>3 DEF Resend
  <2>3. days # {} /\ ~ spent
    BY <1>3
  <2>5. Rows(disk) # {}
    BY <1>1, <2>3, OriginKnown, CalendarAssumption
       DEF AutoWindow, RetentionLimit, RetentionMargin
  <2>6. began # 0 /\ began \in Nat /\ days = AutoWindow(run.now, began)
    BY <1>1, <2>5, OriginKnown DEF OpInv, Types
  <2>7. /\ \A d \in days : d >= began /\ d >= RetentionLimit(run.now)
        /\ days \subseteq Int
    <3>1. \A d \in AutoWindow(run.now, began) : d >= began /\ d >= RetentionLimit(run.now)
      BY <1>1, <2>6, CalendarAssumption
         DEF AutoWindow, RetentionLimit, RetentionMargin
    <3>2. AutoWindow(run.now, began) \subseteq Int
      BY <1>1, <2>6, CalendarAssumption DEF AutoWindow, RetentionLimit, RetentionMargin
    <3>. QED
      BY <2>6, <3>1, <3>2
  <2>8. MaxFilesPerRun > 0 => run.kept <= MaxFilesPerRun
    BY <1>1 DEF OpInv, Counted
  <2>. HIDE DEF days
  <2>9. /\ run' \in Runs /\ run'.stage = "observe" /\ run'.now = run.now
        /\ run'.kind = run.kind /\ run'.auto = TRUE /\ run'.cands = {}
        /\ run'.kept = run.kept /\ run'.queue = {} /\ run'.days = days /\ run' # NoRun
    BY <1>1, <2>1, <2>7, NoRunIsOff DEF Runs
  <2>10. Types' /\ Holding' /\ BeganInv' /\ Delivered' /\ KnownInv' /\ Seeding'
    BY <1>1, <2>9 DEF OpInv, Types, Holding, BeganInv, Delivered, KnownInv, Beyond, Clock,
       Seeding, openVars
  <2>11. Counted'
    <3>1. Cardinality({}) = 0 /\ run.kept \in Nat
      BY <1>1, FS_EmptySet DEF Runs
    <3>. QED
      BY <1>1, <2>8, <2>9, <3>1 DEF OpInv, Counted, openVars
  <2>12. Reach'
    BY <1>1, <2>6, <2>7, <2>9 DEF Reach, InReach
  <2>. QED
    BY <2>10, <2>11, <2>12 DEF RunInv
<1>. QED
  BY <1>2, <1>3

LEMMA PartEndsKeeps == OpInv /\ PartEnds => RunInv'
<1>. SUFFICES ASSUME OpInv, PartEnds PROVE RunInv'
  OBVIOUS
<1>1. /\ run.stage = "send" /\ run.queue = {} /\ run \in Runs
      /\ UNCHANGED <<openVars, onDisk, atRemote, put, stops, began, inTime, known, sent>>
      /\ run' = [run EXCEPT !.stage = "end"]
  BY DEF PartEnds, world, memory, OpInv, Types
<1>2. /\ run' \in Runs /\ run'.stage = "end" /\ run'.now = run.now /\ run'.kind = run.kind
      /\ run'.auto = run.auto /\ run'.cands = run.cands /\ run'.kept = run.kept
      /\ run'.queue = {} /\ run'.there = run.there /\ run # NoRun /\ run' # NoRun
  BY <1>1, NoRunIsOff DEF Runs
<1>3. Types' /\ Holding' /\ Counted' /\ BeganInv' /\ Reach' /\ Delivered'
  BY <1>1, <1>2
     DEF OpInv, Types, Holding, Counted, BeganInv, Reach, Delivered, openVars
<1>4. KnownInv' /\ Seeding'
  BY <1>1, <1>2 DEF OpInv, KnownInv, Beyond, Clock, Seeding
<1>. QED
  BY <1>3, <1>4 DEF RunInv

\* A run ends or dies; a completed seed knows what it found.
LEMMA StopKeeps == OpInv /\ (EndRun \/ Die) => RunInv'
<1>. SUFFICES ASSUME OpInv, EndRun \/ Die PROVE RunInv'
  OBVIOUS
<1>1. /\ CloseOrDie /\ run' = NoRun /\ run \in Runs
      /\ UNCHANGED <<today, disk, onDisk, atRemote, put, began, inTime, sent>>
      /\ step' = "closed" /\ stops' \in 0 .. MaxStops
  BY OperationAssumption DEF EndRun, Die, CloseOrDie, world, memory, OpInv, Types
<1>2. /\ run' \in Runs /\ run'.stage = "off" /\ run'.kind = "none" /\ run'.queue = {}
      /\ run'.cands = {} /\ run'.kept = 0 /\ run'.auto = FALSE
  BY <1>1 DEF NoRun, Runs
<1>3. Cardinality({}) = 0
  BY FS_EmptySet
<1>4. Holding' /\ Counted' /\ BeganInv' /\ Reach' /\ Delivered' /\ Seeding'
  BY <1>1, <1>2, <1>3, OperationAssumption
     DEF OpInv, Holding, Counted, BeganInv, Reach, Delivered, Seeding, Rows
<1>5. Clock \in Int /\ Clock <= today /\ Clock' = today /\ today \in Nat
  BY <1>1, <1>2 DEF Clock, OpInv, OpenInv, OpenTypeOK, Holding, Runs
<1>6. ASSUME NEW n \in known'
      PROVE  n \in Name /\ (put[n] = "VERIFIED" \/ Beyond(n, Clock))
  <2>1. CASE n \in known
    BY <2>1 DEF OpInv, KnownInv, Types
  <2>2. CASE n \notin known
    <3>1. /\ run.kind = "seed" /\ run.stage = "end" /\ n \in run.there
          /\ DayOf[n] \in DeepWindow(run.now) \/ began = 0 \/ DayOf[n] < began
      BY <2>2 DEF EndRun, Die, memory
    <3>2. n \in Name /\ DayOf[n] \in Nat /\ DayOf[n] <= run.now /\ Clock = run.now
          /\ run.now \in Nat
      BY <1>1, <3>1, OperationAssumption DEF OpInv, Seeding, Types, Clock, Runs
    <3>3. CASE DayOf[n] \in DeepWindow(run.now)
      BY <3>1, <3>2, <3>3 DEF OpInv, Seeding
    <3>4. CASE DayOf[n] \notin DeepWindow(run.now)
      BY <3>1, <3>2, <3>4, CalendarAssumption DEF DeepWindow, Window, Beyond
    <3>. QED
      BY <3>3, <3>4
  <2>. QED
    BY <2>1, <2>2
<1>7. KnownInv' /\ Types'
  <2>1. \A n \in Name : DayOf[n] \in Nat
    BY OperationAssumption
  <2>. QED
    BY <1>1, <1>2, <1>5, <1>6, <2>1, CalendarAssumption
       DEF KnownInv, Beyond, OpInv, Types
<1>. QED
  BY <1>4, <1>7 DEF RunInv

\* Every step keeps the invariant.
LEMMA OpInvNext == OpInv /\ [Next]_vars => OpInv'
<1>. SUFFICES ASSUME OpInv, [Next]_vars PROVE OpInv'
  OBVIOUS
<1>1. OpenInv' /\ OriginInv'
  BY StepRefines, OpenInvNext, OriginInvNext DEF OpInv
<1>2. RunInv'
  <2>1. CASE UNCHANGED vars
    BY <2>1 DEF vars, openVars, world, memory, OpInv, RunInv, Types, Holding, Counted,
       BeganInv, Reach, InReach, Delivered, KnownInv, Beyond, Clock, Seeding
  <2>. QED
    BY <2>1, ArriveKeeps, MidnightKeeps, StartRunKeeps, OpenStepKeeps, BeginScanKeeps,
       ObserveKeeps, PlanRunKeeps, SendKeeps, SendFailsKeeps, CompareKeeps, ResendKeeps,
       PartEndsKeeps, StopKeeps DEF Next
<1>. QED
  BY <1>1, <1>2 DEF OpInv, RunInv

LEMMA OpInvHolds == Spec => []OpInv
  BY OpInvInit, OpInvNext, PTL DEF Spec

\* The types, and the limits of what a run keeps and queues.
THEOREM TypesAndLimits == Spec => []TypeOK
<1>1. OpInv => TypeOK
  BY DEF OpInv, OpenInv, Types, Counted, TypeOK, Runs, Rows
<1>. QED
  BY OpInvHolds, <1>1, PTL

\* What a completed seed found delivered is never sent again.
THEOREM SeededIsNeverResent == Spec => []SeededNeverResent
<1>1. Init => SeededNeverResent
  BY DEF Init, SeededNeverResent
<1>2. OpInv /\ SeededNeverResent /\ [Next]_vars => SeededNeverResent'
  <2>. SUFFICES ASSUME OpInv, SeededNeverResent, [Next]_vars PROVE SeededNeverResent'
    OBVIOUS
  <2>1. CASE Send
    <3>1. PICK n \in run.queue : sent' = sent \cup {n} /\ known' = known
      BY <2>1 DEF Send
    <3>2. /\ put[n] # "VERIFIED" /\ InReach(DayOf[n]) /\ n \in Name
          /\ Clock = run.now /\ run.now \in Nat
      BY <2>1 DEF Send, OpInv, Delivered, Counted, Reach, Clock, Types, Runs
    <3>3. DayOf[n] \in Nat /\ began \in Nat
      BY <3>2, OperationAssumption DEF OpInv, Types
    <3>4. ~ Beyond(n, run.now)
      BY <3>2, <3>3, CalendarAssumption DEF InReach, Beyond, DeepWindow, Window
    <3>5. n \notin known
      BY <3>2, <3>4 DEF OpInv, KnownInv
    <3>. QED
      BY <3>1, <3>5 DEF SeededNeverResent
  <2>2. CASE EndRun
    <3>1. /\ sent' = sent
          /\ known' = known \/ (run.kind = "seed" /\ known' \subseteq known \cup run.there)
      BY <2>2 DEF EndRun
    <3>2. run.kind = "seed" => run.there \cap sent = {}
      BY <2>2 DEF EndRun, OpInv, Seeding
    <3>. QED
      BY <3>1, <3>2 DEF SeededNeverResent
  <2>3. CASE ~ Send /\ ~ EndRun
    BY <2>3 DEF SeededNeverResent, Next, vars, Arrive, Midnight, StartRun, OpenStep, BeginScan,
       Observe, PlanRun, SendFails, Compare, Resend, PartEnds, Die, memory, world
  <2>. QED
    BY <2>1, <2>2, <2>3
<1>. QED
  BY OpInvHolds, <1>1, <1>2, PTL DEF Spec

\* Hourly runs send what is in reach of their windows, and nothing else.
THEOREM SendsWithinLimits == Spec => SentWithinLimits
<1>1. OpInv /\ [Next]_vars
        => [\A n \in sent' \ sent :
              \/ DayOf[n] \in DeepWindow(run.now)
              \/ /\ began # 0 /\ DayOf[n] >= began
                 /\ DayOf[n] >= RetentionLimit(run.now)]_vars
  <2>. SUFFICES ASSUME OpInv, Next, NEW n \in sent' \ sent
                PROVE  InReach(DayOf[n])
    BY DEF InReach
  <2>1. Send
    BY DEF Next, Arrive, Midnight, StartRun, OpenStep, BeginScan, Observe, PlanRun,
           SendFails, Compare, Resend, PartEnds, EndRun, Die, memory, world
  <2>2. n \in run.queue /\ run.stage = "send" /\ run.kind = "hourly"
    BY <2>1 DEF Send
  <2>. QED
    BY <2>2 DEF OpInv, Counted, Reach
<1>. QED
  BY OpInvHolds, <1>1, PTL DEF Spec, SentWithinLimits
-----------------------------------------------------------------------------
(* Nothing ages out, given the day of margin the retention must leave.     *)

LastDay(n, now) == began # 0 /\ began <= DayOf[n] /\ DayOf[n] = RetentionLimit(now)

\* A clean hourly run that has come to its resend delivers what is of the last
\* day it can reach.
LastCall ==
    /\ run.kind = "hourly" /\ run.clean
    /\ run.stage = "end" \/ (run.auto /\ run.stage \in {"observe", "send"})
    =>
      \A n \in inTime : LastDay(n, run.now) =>
        \/ put[n] = "VERIFIED"
        \/ run.stage = "observe" /\ (DayOf[n] \in run.days \/ n \in run.cands)
        \/ run.stage = "send" /\ n \in run.queue

\* Once such a run has ended, nothing of that day is left.
LastDayDone == ranToday => \A n \in inTime : LastDay(n, today) => put[n] = "VERIFIED"

AgeInv == LastCall /\ LastDayDone /\ NothingAgesOut

\* What is VERIFIED stays so, and the first row is of today.
LEMMA Steady ==
  ASSUME OpInv, [Next]_vars
  PROVE  /\ \A n \in Name : put[n] = "VERIFIED" => put'[n] = "VERIFIED"
         /\ began' = began \/ (began = 0 /\ began' = today)
         /\ today \in Nat /\ today > 0 /\ run \in Runs /\ began \in Nat
         /\ inTime \subseteq onDisk /\ onDisk \subseteq Name
         /\ \A n \in Name : DayOf[n] \in Nat
<1>1. /\ today \in Nat /\ today > 0 /\ run \in Runs /\ began \in Nat
      /\ inTime \subseteq onDisk /\ onDisk \subseteq Name
      /\ put \in [Name -> {"none", "PENDING", "FAILED", "VERIFIED"}]
  BY DEF OpInv, OpenInv, OpenTypeOK, Types
<1>2. \A n \in Name : DayOf[n] \in Nat
  BY OperationAssumption
<1>3. began' = began \/ (began = 0 /\ began' = today)
  BY DEF Next, vars, Arrive, Midnight, StartRun, OpenStep, BeginScan, Observe, PlanRun, Send,
     SendFails, Compare, Resend, PartEnds, EndRun, Die, memory, world
<1>4. \A n \in Name : put[n] = "VERIFIED" => put'[n] = "VERIFIED"
  <2>1. CASE PlanRun
    BY <1>1, <2>1 DEF PlanRun
  <2>2. CASE Send
    BY <1>1, <2>2 DEF Send
  <2>3. CASE SendFails
    BY <1>1, <2>3 DEF SendFails, OpInv, Delivered
  <2>4. CASE Compare
    BY <1>1, <2>4 DEF Compare
  <2>5. CASE UNCHANGED put
    BY <2>5
  <2>. QED
    BY <2>1, <2>2, <2>3, <2>4, <2>5
       DEF Next, vars, Arrive, Midnight, StartRun, OpenStep, BeginScan, Observe, Resend,
           PartEnds, EndRun, Die, memory, world
<1>. QED
  BY <1>1, <1>2, <1>3, <1>4

\* Every step keeps AgeInv.
LEMMA AgeInvNext ==
  ASSUME RetentionDays >= ScanDays + RetentionMargin, OpInv, AgeInv, [Next]_vars
  PROVE  AgeInv'
<1>1. \A x \in Nat : /\ RetentionLimit(x) \in Int /\ RetentionLimit(x) < x
                     /\ RetentionLimit(x + 1) = RetentionLimit(x) + 1
                     /\ \A y \in Nat : y <= x => RetentionLimit(y) <= RetentionLimit(x)
  BY CalendarAssumption DEF RetentionLimit, RetentionMargin
<1>2. run.stage \in {"observe", "send", "end"} => run.now \in Nat /\ run.now <= today
  BY Steady DEF OpInv, Holding, Runs
<1>3. \A n \in Name, x \in Nat : x <= today /\ LastDay(n, x)' => LastDay(n, x)
  BY <1>1, Steady DEF LastDay, RetentionLimit, RetentionMargin
<1>. USE DEF AgeInv
<1>4. CASE Arrive
  <2>1. PICK n \in Name \ onDisk :
          inTime' = IF DayOf[n] > RetentionLimit(today) THEN inTime \cup {n} ELSE inTime
    BY <1>4 DEF Arrive
  <2>2. UNCHANGED <<run, put, began, ranToday, idle, today>>
    BY <1>4 DEF Arrive, openVars
  <2>3. \A m \in inTime' : m \in inTime \/ (m \in Name /\ DayOf[m] > RetentionLimit(today))
    BY <2>1
  <2>4. RetentionLimit(today) \in Int
    BY <1>1, Steady
  <2>5. LastCall'
    BY <1>1, <1>2, <2>2, <2>3, <2>4, Steady DEF LastCall, LastDay
  <2>6. LastDayDone' /\ NothingAgesOut'
    BY <2>2, <2>3, <2>4, Steady DEF LastDayDone, NothingAgesOut, LastDay
  <2>. QED
    BY <2>5, <2>6
<1>5. CASE Midnight
  <2>1. /\ UNCHANGED <<run, put, inTime, began>> /\ today' = today + 1
        /\ ranToday' = FALSE /\ idle' = (idle \/ ~ranToday)
    BY <1>5 DEF Midnight, NextDay, world
  <2>2. LastCall' /\ LastDayDone'
    BY <2>1 DEF LastCall, LastDay, LastDayDone
  <2>3. NothingAgesOut'
    <3>. SUFFICES ASSUME ~ idle', NEW n \in inTime, began # 0, began <= DayOf[n],
                         DayOf[n] < RetentionLimit(today + 1)
                  PROVE  put[n] = "VERIFIED"
      BY <2>1 DEF NothingAgesOut
    <3>1. DayOf[n] < RetentionLimit(today) \/ DayOf[n] = RetentionLimit(today)
      <4>1. DayOf[n] \in Int /\ today \in Nat
        BY Steady
      <4>2. /\ RetentionLimit(today) \in Int
            /\ RetentionLimit(today + 1) = RetentionLimit(today) + 1
        BY <1>1, <4>1
      <4>. QED
        BY <4>1, <4>2
    <3>2. ranToday /\ ~ idle
      BY <2>1
    <3>. QED
      BY <3>1, <3>2 DEF NothingAgesOut, LastDayDone, LastDay
  <2>. QED
    BY <2>2, <2>3
<1>6. CASE UNCHANGED <<run, put, inTime, began, ranToday, idle, today>>
  BY <1>6 DEF LastCall, LastDay, LastDayDone, NothingAgesOut, RetentionLimit
\* What a step leaves of the two parts that do not look at the run.
<1>7. ASSUME UNCHANGED <<inTime, ranToday, idle, today>> PROVE LastDayDone' /\ NothingAgesOut'
  <2>1. \A n \in inTime : /\ began' # 0 /\ began' <= DayOf[n] /\ DayOf[n] <= RetentionLimit(today)
                          => began' = began
    BY <1>1, Steady
  <2>2. inTime \subseteq Name
    BY Steady
  <2>. QED
    BY <1>1, <1>7, <2>1, <2>2, Steady DEF LastDayDone, NothingAgesOut, LastDay
<1>8. CASE StartRun \/ OpenStep \/ BeginScan \/ Die
  <2>1. UNCHANGED <<inTime, ranToday, idle, today>>
    BY <1>8, Steady DEF StartRun, StartOpen, OpenStep, BeginScan, Die, CloseOrDie, world,
       memory, openVars, Opening, CreateCommon, CreateIndex, CreateMeta, InsertMeta,
       CheckRule, AddColumns, Backfill, Bump, Commit, CheckVersion, EnsureOrigin
  <2>2. /\ run'.kind = "none" \/ run'.stage = "open" \/ (run'.stage = "observe" /\ ~run'.auto)
        /\ run'.stage # "end"
    <3>1. CASE StartRun
      <4>1. PICK k \in {"dry", "seed", "hourly"}, d \in BOOLEAN :
              run' = [NoRun EXCEPT !.kind = k, !.deep = d, !.stage = "open"]
        BY <3>1 DEF StartRun
      <4>. QED
        BY <4>1 DEF NoRun
    <3>2. CASE BeginScan
      <4>1. /\ run' = [run EXCEPT !.stage = "observe", !.now = today,
                             !.days = ScanRange(run, today),
                             !.there = {n \in atRemote : /\ DayOf[n] <= today
                                                         /\ put[n] = "none"}]
            /\ ~ run.auto /\ run \in Runs
        BY <3>2, Steady DEF BeginScan, OpInv, Holding
      <4>2. run'.stage = "observe" /\ run'.auto = run.auto
        BY <4>1 DEF Runs
      <4>. QED
        BY <4>1, <4>2
    <3>3. CASE OpenStep \/ Die
      <4>1. run' = NoRun \/ (run' = run /\ run.stage = "open")
        BY <3>3 DEF OpenStep, Die
      <4>. QED
        BY <4>1 DEF NoRun
    <3>. QED
      BY <1>8, <3>1, <3>2, <3>3
  <2>3. LastCall'
    BY <2>2 DEF LastCall
  <2>. QED
    BY <1>7, <2>1, <2>3
<1>9. CASE EndRun
  <2>1. /\ UNCHANGED <<today, inTime, idle, put, began>> /\ run' = NoRun /\ run.stage = "end"
        /\ ranToday' = (ranToday \/ (run.kind = "hourly" /\ run.clean /\ run.now = today))
    BY <1>9 DEF EndRun, CloseOrDie, world
  <2>2. LastCall'
    BY <2>1 DEF LastCall, NoRun
  <2>3. LastDayDone'
    BY <2>1 DEF LastDayDone, LastCall, LastDay
  <2>4. NothingAgesOut'
    BY <2>1 DEF NothingAgesOut
  <2>. QED
    BY <2>2, <2>3, <2>4
<1>10. CASE PartEnds
  <2>1. /\ UNCHANGED <<openVars, put, inTime, began, ranToday, idle, today>>
        /\ run' = [run EXCEPT !.stage = "end"] /\ run.queue = {} /\ run.stage = "send"
        /\ run.kind = "seed" \/ run.auto
    BY <1>10 DEF PartEnds, world, memory, openVars
  <2>2. /\ run'.stage = "end" /\ run'.kind = run.kind /\ run'.clean = run.clean
        /\ run'.now = run.now
    BY <2>1, Steady DEF Runs
  <2>3. LastCall'
    BY <2>1, <2>2 DEF LastCall, LastDay
  <2>. QED
    BY <1>7, <2>1, <2>3
<1>11. CASE Observe
  <2>1. PICK d \in run.days :
          run' = [run EXCEPT !.days = @ \ {d},
                    !.cands = @ \cup {n \in {m \in onDisk : DayOf[m] = d} : put[n] # "VERIFIED"}]
    BY <1>11 DEF Observe
  <2>. DEFINE found == {n \in {m \in onDisk : DayOf[m] = d} : put[n] # "VERIFIED"}
  <2>2. /\ UNCHANGED <<put, inTime, ranToday, idle, today>> /\ run.stage = "observe"
    BY <1>11 DEF Observe, world, openVars, Register
  <2>3. /\ run'.stage = "observe" /\ run'.kind = run.kind /\ run'.clean = run.clean
        /\ run'.now = run.now /\ run'.auto = run.auto
        /\ run'.days = run.days \ {d} /\ run'.cands = run.cands \cup found
    BY <2>1, <2>2, Steady DEF Runs
  <2>4. \A n \in onDisk : DayOf[n] = d => n \in found \/ put[n] = "VERIFIED"
    OBVIOUS
  <2>. HIDE DEF found
  <2>5. LastCall'
    <3>. SUFFICES ASSUME run.kind = "hourly", run.clean, run.auto,
                         NEW n \in inTime, LastDay(n, run.now)'
                  PROVE  put[n] = "VERIFIED" \/ DayOf[n] \in run'.days \/ n \in run'.cands
      BY <2>2, <2>3 DEF LastCall, LastDay
    <3>1. LastDay(n, run.now)
      BY <1>2, <1>3, <2>2, <2>3, Steady DEF LastDay
    <3>. QED
      BY <2>2, <2>3, <2>4, <3>1, Steady DEF LastCall
  <2>. QED
    BY <1>7, <2>2, <2>5
<1>12. CASE PlanRun
  <2>1. /\ UNCHANGED <<openVars, inTime, began, ranToday, idle, today>>
        /\ run.stage = "observe" /\ run.days = {}
    BY <1>12 DEF PlanRun, memory, openVars
  <2>2. PICK kept \in Kept(run.cands) :
          run' = [run EXCEPT !.stage = "send",
                    !.queue = IF run.kind = "dry" THEN {} ELSE kept,
                    !.kept  = @ + Cardinality(kept),
                    !.clean = @ /\ kept = run.cands]
    BY <1>12 DEF PlanRun
  <2>3. /\ run'.stage = "send" /\ run'.kind = run.kind /\ run'.now = run.now
        /\ run'.auto = run.auto
        /\ run'.queue = (IF run.kind = "dry" THEN {} ELSE kept)
    BY <2>2, Steady DEF Runs
  <2>4. run'.clean => run.clean /\ kept = run.cands
    BY <2>2, Steady DEF Runs
  <2>5. LastCall'
    BY <2>1, <2>3, <2>4, Steady DEF LastCall, LastDay
  <2>. QED
    BY <1>7, <2>1, <2>5
<1>13. CASE Send \/ SendFails \/ Compare
  <2>1. /\ UNCHANGED <<inTime, began, ranToday, idle, today>> /\ run.stage = "send"
    BY <1>13 DEF Send, SendFails, Compare, memory, openVars
  <2>2. ASSUME run'.kind = "hourly", run'.clean
        PROVE  \E n \in run.queue : /\ put' = [put EXCEPT ![n] = "VERIFIED"]
                                    /\ run' = [run EXCEPT !.queue = @ \ {n}, !.verified = TRUE]
    <3>1. ~ Compare
      <4>1. ASSUME Compare PROVE FALSE
        <5>1. PICK n \in run.queue : run' = [run EXCEPT !.queue = @ \ {n}]
          BY <4>1 DEF Compare
        <5>2. run'.kind = run.kind
          BY <5>1, Steady DEF Runs
        <5>. QED
          BY <2>2, <4>1, <5>2 DEF Compare
      <4>. QED
        BY <4>1
    <3>2. ~ SendFails
      <4>1. ASSUME SendFails PROVE FALSE
        <5>1. PICK n \in run.queue :
                run' = [run EXCEPT !.queue = @ \ {n}, !.failed = TRUE, !.clean = FALSE]
          BY <4>1 DEF SendFails
        <5>2. run'.clean = FALSE
          BY <5>1, Steady DEF Runs
        <5>. QED
          BY <2>2, <5>2
      <4>. QED
        BY <4>1
    <3>. QED
      BY <1>13, <3>1, <3>2 DEF Send
  <2>3. ASSUME run'.kind = "hourly", run'.clean
        PROVE  LastCall'
    <3>1. PICK n \in run.queue :
            /\ put' = [put EXCEPT ![n] = "VERIFIED"]
            /\ run' = [run EXCEPT !.queue = @ \ {n}, !.verified = TRUE]
      BY <2>2, <2>3
    <3>2. /\ run'.stage = "send" /\ run'.kind = run.kind /\ run'.clean = run.clean
          /\ run'.now = run.now /\ run'.auto = run.auto /\ run'.queue = run.queue \ {n}
      BY <2>1, <3>1, Steady DEF Runs
    <3>3. n \in Name /\ put'[n] = "VERIFIED"
      BY <3>1, Steady DEF Runs, OpInv, Types
    <3>. QED
      BY <2>1, <3>2, <3>3, Steady DEF LastCall, LastDay
  <2>4. LastCall'
    BY <2>3 DEF LastCall
  <2>. QED
    BY <1>7, <2>1, <2>4
<1>14. CASE Resend
  <2>1. /\ UNCHANGED <<openVars, put, inTime, began, ranToday, idle, today>>
        /\ run.stage = "send" /\ step = "open"
    BY <1>14 DEF Resend, world, memory, openVars, OpInv, Holding
  <2>. DEFINE days == AutoWindow(run.now, OperationOrigin(run.now))
  <2>2. ASSUME NEW n \in inTime, LastDay(n, run.now) PROVE DayOf[n] \in days
    <3>1. OperationOrigin(run.now) = began
      BY <2>1, <2>2, OriginKnown DEF LastDay
    <3>2. DayOf[n] = RetentionLimit(run.now) /\ began <= DayOf[n] /\ run.now \in Nat
      BY <1>2, <2>1, <2>2 DEF LastDay
    <3>. QED
      BY <3>1, <3>2, CalendarAssumption, Steady DEF AutoWindow, RetentionLimit, RetentionMargin
  <2>3. ASSUME run'.kind = "hourly", run'.clean, NEW n \in inTime, LastDay(n, run'.now)
        PROVE  run'.stage = "observe" /\ DayOf[n] \in run'.days
    <3>1. CASE run' = [run EXCEPT !.stage = "end", !.clean = run.clean /\ days = {}]
      <4>1. run'.clean = (run.clean /\ days = {}) /\ run'.now = run.now
        BY <3>1, Steady DEF Runs
      <4>. QED
        BY <2>2, <2>3, <4>1
    <3>2. CASE run' = [run EXCEPT !.stage = "observe", !.auto = TRUE, !.days = days,
                                  !.cands = {}]
      <4>1. run'.stage = "observe" /\ run'.days = days /\ run'.now = run.now
        BY <3>2, Steady DEF Runs
      <4>. QED
        BY <2>2, <2>3, <4>1
    <3>. QED
      BY <1>14, <3>1, <3>2 DEF Resend
  <2>4. LastCall'
    BY <2>1, <2>3 DEF LastCall, LastDay
  <2>. QED
    BY <1>7, <2>1, <2>4
<1>. QED
  BY <1>4, <1>5, <1>6, <1>8, <1>9, <1>10, <1>11, <1>12, <1>13, <1>14
     DEF Next, vars, openVars, world, memory

\* With one clean hourly run a day and a retention that leaves the margin its
\* two days, nothing of the operation's days ages out undelivered.
THEOREM NothingEverAgesOut ==
  ASSUME RetentionDays >= ScanDays + RetentionMargin
  PROVE  Spec => []NothingAgesOut
<1>1. Init => AgeInv
  <2>. SUFFICES ASSUME Init PROVE AgeInv
    OBVIOUS
  <2>1. run.stage = "off"
    BY NoRunIsOff DEF Init
  <2>2. today \in Nat /\ \A n \in Name : DayOf[n] \in Nat
    BY OperationAssumption DEF Init, OpenInit
  <2>3. \A n \in inTime : ~ (DayOf[n] < RetentionLimit(today))
    BY <2>2, CalendarAssumption DEF Init, RetentionLimit, RetentionMargin
  <2>4. NothingAgesOut
    BY <2>3 DEF NothingAgesOut
  <2>5. LastCall /\ LastDayDone
    BY <2>1 DEF Init, LastCall, LastDayDone
  <2>. QED
    BY <2>4, <2>5 DEF AgeInv
<1>2. OpInv /\ AgeInv /\ [Next]_vars => AgeInv'
  BY AgeInvNext
<1>3. AgeInv => NothingAgesOut
  BY DEF AgeInv
<1>. QED
  BY OpInvHolds, <1>1, <1>2, <1>3, PTL DEF Spec
=============================================================================
