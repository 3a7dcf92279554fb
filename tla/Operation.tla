----------------------------- MODULE Operation -----------------------------
(***************************************************************************)
(* The scheduled runs over the days: a dry run, the installation's seed,   *)
(* and the hourly run with its automatic resend, each on a ledger opened   *)
(* as LedgerOpen says, while files arrive, midnight passes and a process   *)
(* dies anywhere.  A file's transfer is one step here (PutRun has its      *)
(* steps): it is delivered or it fails.  The data of one day are one       *)
(* directory, observed and registered together.                            *)
(***************************************************************************)
EXTENDS Calendar, LedgerOpen

CONSTANTS
    DayOf,          \* the day a file's data are of
    MaxFilesPerRun, \* [PUT] MaxFilesPerRun, 0: no limit
    \* Bounds:
    MaxDay,         \* the clock stops here
    MaxStops        \* failed transfers and deaths, fewer than MaxRetries

ASSUME OperationAssumption ==
    /\ DayOf \in [Name -> Nat \ {0}]
    /\ {MaxFilesPerRun, MaxDay, MaxStops} \subseteq Nat

VARIABLES
    onDisk,     \* files that have come to the local disk
    atRemote,   \* files the server has, of the size of the local ones
    put,        \* their put_ledger rows
    run,        \* the run that holds the lock
    stops       \* failures and deaths so far
\* What the properties remember of the past:
VARIABLES
    began,      \* the day of the first row, 0: no row
    inTime,     \* files that came a day before the ledger's memory of them ends
    known,      \* files a completed seed found delivered, or out of reach
    sent,       \* files the hourly runs delivered
    ranToday,   \* did a clean hourly run begin and end today?
    idle        \* did a day pass without one?

world   == <<onDisk, atRemote, put, stops>>
memory  == <<began, inTime, known, sent, ranToday, idle>>
vars    == <<openVars, world, run, memory>>

NoRun == [kind   |-> "none",    \* dry, seed, hourly
          deep   |-> FALSE,     \* is the window the deep one?
          stage  |-> "off",     \* open, observe, send, end
          now    |-> 0,         \* time.Now() of the run
          auto   |-> FALSE,     \* is it at its automatic resend?
          days   |-> {},        \* directories still to be observed
          cands  |-> {},        \* candidates so far
          queue  |-> {},        \* kept, and not attempted yet
          kept   |-> 0,         \* how many were kept, over both parts
          failed |-> FALSE, verified |-> FALSE,     \* putFailed, putVerified > 0
          clean  |-> TRUE,      \* nothing failed, was cut or left aside
          there  |-> {}]        \* at the server when a seed began

TypeOK ==
    /\ OpenTypeOK
    /\ onDisk \subseteq Name /\ atRemote \subseteq onDisk /\ inTime \subseteq onDisk
    /\ put \in [Name -> {"none", "PENDING", "FAILED", "VERIFIED"}]
    /\ stops \in 0 .. MaxStops
    /\ run.kind \in {"none", "dry", "seed", "hourly"}
    /\ run.stage \in {"off", "open", "observe", "send", "end"}
    /\ run.queue \subseteq run.cands /\ run.cands \subseteq Name
    \* Only what is observed of the open ledger is put, and only once.
    /\ \A n \in Name : put[n] # "none" => disk.seen[n] > 0
    /\ run.kept > 0 => Cardinality(run.queue) <= run.kept
    /\ MaxFilesPerRun > 0 /\ run.kind # "seed" => run.kept <= MaxFilesPerRun

Init ==
    /\ OpenInit /\ run = NoRun /\ stops = 0
    /\ onDisk \in SUBSET {n \in Name : DayOf[n] <= today}
    /\ Rows(disk) \subseteq onDisk /\ atRemote \in SUBSET onDisk
    /\ put \in [Name -> {"none", "FAILED", "VERIFIED"}]
    /\ \A n \in Name : /\ (put[n] = "none") = (disk.seen[n] = 0)
                       /\ put[n] = "VERIFIED" => n \in atRemote
    /\ began = (IF Rows(disk) = {} THEN 0 ELSE FirstSeen(disk))
    /\ inTime = {n \in onDisk : DayOf[n] >= RetentionLimit(today)}
    /\ known = {} /\ sent = {} /\ ranToday = FALSE /\ idle = FALSE
-----------------------------------------------------------------------------
Arrive ==
    /\ \E n \in Name \ onDisk :
         /\ DayOf[n] <= today /\ onDisk' = onDisk \cup {n}
         /\ inTime' = IF DayOf[n] > RetentionLimit(today) THEN inTime \cup {n}
                      ELSE inTime
    /\ UNCHANGED <<openVars, atRemote, put, stops, run, began, known, sent, ranToday, idle>>

Midnight ==
    /\ today < MaxDay /\ NextDay
    /\ idle' = (idle \/ ~ranToday) /\ ranToday' = FALSE
    /\ UNCHANGED <<world, run, began, inTime, known, sent>>

\* The flags choose the kind; the hour, or --deep, the window.
StartRun ==
    /\ StartOpen
    /\ \E k \in {"dry", "seed", "hourly"}, d \in BOOLEAN :
         /\ k = "seed" => ~d
         /\ run' = [NoRun EXCEPT !.kind = k, !.deep = d, !.stage = "open"]
    /\ UNCHANGED <<world, memory>>

\* One statement of ledger.Open; a refusal ends the run.
OpenStep ==
    /\ run.stage = "open" /\ step # "closed" /\ Opening
    /\ run' = IF step' = "closed" THEN NoRun ELSE run
    /\ UNCHANGED <<world, memory>>

\* Slip: a seed looks at the recent days only.
ScanRangeHot(r, now) == IF r.deep THEN DeepWindow(now) ELSE HotWindow(now)

\* The days of a run's first part.
ScanRange(r, now) ==
    IF r.deep \/ r.kind = "seed" THEN DeepWindow(now) ELSE HotWindow(now)

BeginScan ==
    /\ run.stage = "open" /\ step = "open"
    /\ run' = [run EXCEPT !.stage = "observe", !.now = today,
                          !.days = ScanRange(run, today),
                          !.there = {n \in atRemote : /\ DayOf[n] <= today
                                                      /\ put[n] = "none"}]
    /\ UNCHANGED <<openVars, world, memory>>

\* A day's directory: its files are registered under the clock of the moment,
\* and all but the delivered ones become candidates.
Observe ==
    /\ run.stage = "observe"
    /\ \E d \in run.days :
         LET found == {n \in onDisk : DayOf[n] = d}
         IN  /\ \A o \in run.days : d <= o
             /\ IF run.kind = "dry" THEN UNCHANGED <<openVars, began>>
                ELSE /\ Register(found)
                     /\ began' = IF began = 0 /\ found # {} THEN today ELSE began
             /\ run' = [run EXCEPT !.days = @ \ {d},
                          !.cands = @ \cup {n \in found : put[n] # "VERIFIED"}]
    /\ UNCHANGED <<world, inTime, known, sent, ranToday, idle>>

\* Slip: the resend has the whole budget of the run again.
ResendBudgetWhole == MaxFilesPerRun

\* resendBudget: what the first part has left.
ResendBudget == MaxFilesPerRun - run.kept

Limit == IF run.auto THEN ResendBudget ELSE MaxFilesPerRun

\* finalize: the oldest data first, cut at the limit; a seed is not cut.
Kept(cands) ==
    IF MaxFilesPerRun = 0 \/ run.kind = "seed" \/ Cardinality(cands) <= Limit
    THEN {cands}
    ELSE {S \in SUBSET cands : /\ Cardinality(S) = Limit
                               /\ \A s \in S, n \in cands \ S : DayOf[s] <= DayOf[n]}

\* The plan: only an hourly run writes its PENDING rows.
PlanRun ==
    /\ run.stage = "observe" /\ run.days = {}
    /\ \E kept \in Kept(run.cands) :
         /\ run' = [run EXCEPT !.stage = "send",
                      !.queue = IF run.kind = "dry" THEN {} ELSE kept,
                      !.kept  = @ + Cardinality(kept),
                      !.clean = @ /\ kept = run.cands]
         /\ put' = IF run.kind # "hourly" THEN put
                   ELSE [n \in Name |-> IF n \in kept /\ put[n] = "none"
                                        THEN "PENDING" ELSE put[n]]
    /\ UNCHANGED <<openVars, onDisk, atRemote, stops, memory>>

\* The first of the queue, as SortCandidates has it.
Next1(n) == n \in run.queue /\ \A o \in run.queue : DayOf[n] <= DayOf[o]

Send ==
    /\ run.stage = "send" /\ run.kind = "hourly"
    /\ \E n \in run.queue :
         /\ Next1(n)
         /\ atRemote' = atRemote \cup {n} /\ sent' = sent \cup {n}
         /\ put' = [put EXCEPT ![n] = "VERIFIED"]
         /\ run' = [run EXCEPT !.queue = @ \ {n}, !.verified = TRUE]
    /\ UNCHANGED <<openVars, onDisk, stops, began, inTime, known, ranToday, idle>>

SendFails ==
    /\ run.stage = "send" /\ run.kind = "hourly" /\ stops < MaxStops
    /\ \E n \in run.queue :
         /\ Next1(n)
         /\ put' = [put EXCEPT ![n] = "FAILED"] /\ stops' = stops + 1
         /\ run' = [run EXCEPT !.queue = @ \ {n}, !.failed = TRUE, !.clean = FALSE]
    /\ UNCHANGED <<openVars, onDisk, atRemote, memory>>

\* Seed and SeedVerified: a file the server has is entered as delivered, unless
\* it has a row already.
Compare ==
    /\ run.stage = "send" /\ run.kind = "seed"
    /\ \E n \in run.queue :
         /\ Next1(n)
         /\ put' = IF n \in atRemote /\ put[n] = "none"
                   THEN [put EXCEPT ![n] = "VERIFIED"] ELSE put
         /\ run' = [run EXCEPT !.queue = @ \ {n}]
    /\ UNCHANGED <<openVars, onDisk, atRemote, stops, memory>>

\* After the first part: the automatic resend, unless nothing went through,
\* the window is empty or the budget used up.
Resend ==
    /\ run.stage = "send" /\ run.queue = {} /\ run.kind # "seed" /\ ~run.auto
    /\ LET days  == AutoWindow(run.now, OperationOrigin(run.now))
           spent == MaxFilesPerRun > 0 /\ ResendBudget <= 0
       IN  run' = IF (run.failed /\ ~run.verified) \/ days = {} \/ spent
                  THEN [run EXCEPT !.stage = "end", !.clean = @ /\ days = {}]
                  ELSE [run EXCEPT !.stage = "observe", !.auto = TRUE,
                                   !.days = days, !.cands = {}]
    /\ UNCHANGED <<openVars, world, memory>>

PartEnds ==
    /\ run.stage = "send" /\ run.queue = {} /\ (run.kind = "seed" \/ run.auto)
    /\ run' = [run EXCEPT !.stage = "end"]
    /\ UNCHANGED <<openVars, world, memory>>

\* A seeded file is known if the seed had to reach it, or if it is older than
\* the operation.
EndRun ==
    /\ run.stage = "end" /\ CloseOrDie /\ run' = NoRun
    /\ known' = IF run.kind # "seed" THEN known
                ELSE known \cup {n \in run.there : \/ DayOf[n] \in DeepWindow(run.now)
                                                   \/ began = 0 \/ DayOf[n] < began}
    /\ ranToday' = (ranToday \/ (run.kind = "hourly" /\ run.clean /\ run.now = today))
    /\ UNCHANGED <<world, began, inTime, sent, idle>>

Die ==
    /\ run # NoRun /\ stops < MaxStops /\ stops' = stops + 1
    /\ CloseOrDie /\ run' = NoRun
    /\ UNCHANGED <<onDisk, atRemote, put, memory>>

Next ==
    \/ Arrive \/ Midnight \/ StartRun \/ OpenStep \/ BeginScan \/ Observe
    \/ PlanRun \/ Send \/ SendFails \/ Compare \/ Resend \/ PartEnds
    \/ EndRun \/ Die

Spec == Init /\ [][Next]_vars
-----------------------------------------------------------------------------
(* Properties.                                                             *)

\* The hourly runs send what the deep window reaches or, within the ledger's
\* memory, what is of the first day of operation or later: nothing from before
\* is sent in bulk, not even while the first day is not recorded yet
\* (OperationOrigin, Auto).
SentWithinLimits ==
    [][\A n \in sent' \ sent :
         \/ DayOf[n] \in DeepWindow(run.now)
         \/ /\ began # 0 /\ DayOf[n] >= began
            /\ DayOf[n] >= RetentionLimit(run.now)]_vars

\* What a completed seed found at the server, in the whole of the deep window,
\* is not sent again by any later run, hot, deep or resending (main's seed
\* range, Seed, SeedVerified).
SeededNeverResent == known \cap sent = {}

\* With one clean hourly run a day, and no deep run at all, a file of the
\* operation's days on disk a day before the ledger's memory ends is delivered
\* by then: the hot window, the deep one and the resend's leave no day between
\* them that nobody looks at (Auto, RetentionLimit).
NothingAgesOut ==
    ~idle => \A n \in inTime :
      began # 0 /\ began <= DayOf[n] /\ DayOf[n] < RetentionLimit(today)
        => put[n] = "VERIFIED"
=============================================================================
