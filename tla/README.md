# Verification of rinexclient

TLA+ models of `src/` (the Go program `rinexclient`, which mirrors GNSS
observation files from receiver directories to a remote SFTP server), the TLC
runs that check them, and the TLAPS proofs of what holds for every instance.

## 1. Inventory: the system and its parts

A scheduler (cron, the Windows task scheduler) or an operator starts the
program. One run of the PUT mode does, in this order: take the process lock,
open the SQLite ledgers, connect to the server, *recover* what the last run
left `IN_PROGRESS`, *scan and judge* the files of a window of days, *plan* which
of them go, *transfer* them with a pool of workers, print a report, release the
lock. Files are edited by their producer at any time, a run can be cancelled by
a signal or by the stall watchdog, the server or the network can fail at any
call, and the process can die between any two calls.

| part | code | state | operations |
|---|---|---|---|
| put status machine | `internal/domain/status.go` | none | `CanTransitionTo` |
| put ledger | `internal/ledger/put.go` | table `put_ledger`: one row per (category, file, revision), status and attempts | `InsertPendingBatch`, `BeginPut`, `FinishPut`, `FailPut`, `ListInProgress`, `LookupPut`, `SeedVerified` |
| common ledger | `internal/ledger/{common,lookup,refresh}.go` | table `common_ledger`: revision, size, mtime, content hash of each file | `UpsertCommon`, `LookupCommon`, `TouchCommonMTime`, `SetContentHash` |
| put runner | `internal/put/{runner,hasher}.go` | the run's lists of candidates, retries and observed names | `Run`, `visitBatch`, `resolveFailed` |
| put planner | `internal/put/{setgate,plan}.go` | none | set gate, ordering, `MaxFilesPerRun` cut on set boundaries, registration |
| transfer pool | `internal/put/transfer.go` | workers, one directory each; first error | preflight, begin, upload, size check, rename, confirm, finish or fail |
| crash recovery | `internal/put/recovery.go` | none | remove `.part`, then `FAILED` |
| transport | `internal/transport` | one SSH connection, progress clock | `UploadPart`, `Size`, `Rename`, `Remove`, `Abort`, `WatchStall` |
| process lock | `internal/lock/lock.go` | a directory and its owner file | `Acquire`, `Release` |
| scanner | `internal/scan` | none | list directories of the window in order |
| main, resend | `cmd/rinexclient` | the run's context | order of the above, watchdog, automatic and manual resend |
| seed | `internal/put/seed.go` | none | declare existing files delivered |
| ledger set-up | `internal/ledger/{db,origin}.go`, `schema.sql` | the database file: columns, schema version, identity rule, first day of operation | `Open` with its migrations, `OperationOrigin` |
| scan window | `internal/scanwindow/window.go` | none | hot, deep and automatic windows, the retention limit |
| download | `internal/download` | none (no ledger): the local disk | fetch to `.part`, judge the target, rename, clean up |
| paths, names, configuration, logging, secrets | `internal/{pathpl,domain,config,logging,security}` | none | pure functions and text |

How they interact: `main` calls recovery, runner and pool in sequence; the
runner reads both ledgers while the producer writes the files; the pool's
workers share the ledgers, the connection and one cancelled context; the lock
directory is the only thing two processes share besides the database and the
server.

What is hard here, and which properties it calls for:

- **crash points**: any two of {`PENDING` row, `IN_PROGRESS` row, `.part`,
  rename, `VERIFIED` row} can be separated by a death. No file may be passed
  over for ever, none may count as delivered that was not, no row may be stuck.
- **files that change under the run**: between listing, hash, registration,
  preflight and copy. What is recorded must be what was looked at, and what is
  moved into place must have the registered size.
- **ambiguous answers**: a rename whose reply is lost, a `.part` that cannot be
  removed because the connection was closed by the cancellation itself.
- **the pool**: one worker's ledger error cancels the others in mid-transfer.
- **retry accounting**: attempts are counted when a transfer begins, retried
  up to `MaxRetries`, and re-armed one at a time by a manual resend.
- **sets**: files of one observation set must leave together, past the gate,
  the resend's weaker gate and the `MaxFilesPerRun` cut.
- **the connection**: calls that are never answered, a watchdog that must tell
  silence from slowness and from local work, a close that waits for the calls
  that wait for it, and a lock that must not be given up before the rows are
  settled.
- **the ledger's own life**: databases of older and newer programs, migrations
  cut anywhere, a first day of operation that must not be recorded too early.
- **the calendar**: hot runs, deep runs, the automatic resend and the retention
  must share out the days without a gap, and without sending in bulk what is
  older than the operation; seeded files must stay seeded through all of them.
- **downloads without a ledger**: only the local disk says what a run before
  did; names that collide, files rewritten during their copy, targets that
  appear meanwhile.
- **the lock**: takeover of a dead owner's directory by several contenders,
  late contenders with old observations, owners that outlive `staleAfter`.

`PROJECT.json` lists every hazard at its line, with the properties that guard
it or the reason why none does yet.

## 2. Modules

| module | models | state |
|---|---|---|
| `PutStatus` | abstract: what the ledger promises about one row, `CanTransitionTo` | `status` |
| `PutLedger` | one action per SQL statement; guards are the `WHERE` clauses | `row` |
| `PutPlan` | set gate, order and cut, as operators without variables | - |
| `PutRun` | the composition: producer, server, both ledgers, and a host's runs from recovery to the end of the transfer, one action per external call | see below |
| `DirLock` | the lock, one action per file system call that looks at or changes the directory | `dir old pc try seen faults` |
| `StallWatch` | one run as the calls that are out on its connection: the progress counters, the watchdog, Ctrl-C, recovery, two passes of the pool, the deferred calls | counters, goroutines, `main`, `watch`, signals |
| `Download` | runs of the download mode over the server's files, the local disk and other programs | `remote final part phase entry claimed job` ... |
| `Calendar` | windows and limits of days, as operators | - |
| `LedgerOpen` | the database file through `Open`, its migrations, use and death, one action per statement | `today disk view step` |
| `Operation` | dry, seed and hourly runs with their automatic resend over days; implements `LedgerOpen` | `LedgerOpen`'s, `onDisk atRemote put run stops` |
| `PutRunInv` | the inductive invariant `IInv` of `PutRun` and its first half `CoreInv`; checked by `put_one_file` and proved | - |
| `PutLedgerProofs`, `PutRunProofs`, `PutDeliveryProofs`, `DirLockProofs`, `LedgerOpenProofs`, `OperationProofs`, `DownloadProofs`, `StallWatchProofs` | theorems and proofs | - |
| `MCPutLedger`, `MCPutRun`, `MCDirLock`, `MCStallWatch`, `MCDownload`, `MCOperation` | constants of the TLC runs | - |

`PutRun` instantiates `PutLedger` (`Ledger == INSTANCE PutLedger`) and extends
`PutPlan`. Its variables and the code: `local` the producer's files; `final` and
`part` the remote files under their final and `.part` names; `common` the
`common_ledger` row (revision 0: no row); `row` the `put_ledger`; `phase`, `kind`,
`dirs`, `stage`, `entry`, `observed` the run in memory (`stage` says where a file
stands in `visitBatch`'s lists: listed, candidate, failed and to be resolved,
left out); `job` a candidate's transfer, one step per call of `transferOne` and
`uploadOne`; `cancelled` the run's context, `fatal` the pool's first error,
`dead` the SSH connection; `faults` and `stops` count against the bounds.

A worker is not a variable: a worker has exactly one directory until all its
files are done (`Undone`). The feeder's channel hands the directories out in
order, but a worker that has received a later one may begin its first file before
the worker of an earlier one does. So a file may start when the directories that
must have been taken by then, its own included, and are not done (`Held`), are no
more than `MaxWorkers`. `Stopping` (a cancelled context or a first error) keeps files from
starting and lets those under way end.

Abstractions, and why they keep what the properties tell apart:

- a content is a number (`Body`), its hash the content itself (SHA-256 without
  collisions), its size `SizeOf`; `Partial` and `Mixed` stand for remote contents
  that are no version of the file (cut short, or a file edited in place while
  copied);
- every edit renews the mtime: the verifier accepts a file only when it has been
  quiet for a grace period of whole seconds, and both are compared in seconds.
  `Reverts` says whether an older content may come back; the runs keep it FALSE,
  and the hazard list says what happens otherwise;
- one category, one remote directory per local directory; directories are listed
  and handed out in ascending order, files of a directory in `Rank` order;
- the backfill budget is a choice: an unhashed `VERIFIED` file may or may not get
  its fingerprint in a run;
- the order in which recovery visits its rows is open;
- only one run at a time: that is what `DirLock` is about.

`DirLock` gives every process one token at a time (a restarted one takes a fresh
token: it waits until no marker and no snapshot mentions the old one). Time is
two facts: a marker may become old (`AgeMarker`), an empty directory may (`AgeDir`).
`Overruns` says whether a live owner's marker may become old, `Pauses` whether a
process may sleep past `noOwnerGrace` between two calls, `DieAt` where it may die.
`ReadDir`, `Stat` and `ReadFile` of a contender are steps of their own, as are the
creation of a marker, the writing of its text and the removals after a failure of
either. Two calls are one step where nothing can come between that matters: a
marker's write and close, and the `Stat` that stands in for a text not written yet
with the read before it (a marker gone by then ends both the same way).

`StallWatch` keeps of a transfer only its calls. A goroutine (`Worker`, `Main`)
stands `at` a local step or in a call; `inFlight` and `idle` are the counters of
`progress.go`, `idle` as time since `lastBeat`; `waited` is how long each call has
really been out, which the code does not know and `FireMeansSilence` compares
with; the local read between two writes of an upload counts as part of the call. `watch` walks through `WatchStall`: sample, then the flag, the cancellation
and `Abort` as three steps, so that everything may happen in between. A worker asks its context (`Begin`) in one
step and has its row begun (`BeginPut`) in another, which a cancellation may find
on its way. `main` walks
from recovery through the passes and the deferred calls, whose order differs
between the hourly run and the manual resend (`LockFirst`). The server may answer,
fail or stay silent on every call; `Abort` wakes all of them. Time is counted in
polls of the watchdog. The directory request and the first size request of a file
are left out: they enter and leave the counters as the rename does.

`Download` lists the directories of the window one after the other, each when the
files of the one before are handed out, while the workers fetch; a directory that
cannot be listed loses its own files only. It has one step per external call of
`fetch`: look at the target, make the `.part`, copy, measure, look again, rename,
clean up. `Remote` is what `evaluate`
accepts of one category; `DestOf` gives each file its local path, compared as
`destKey` does, so that two may collide. `entry` is what the listing said. The
contents `Short` and `Mixed` are a copy cut short and one of a file rewritten
meanwhile, `Other` is somebody else's file, `Odd` a directory or the like. That the
listing leaves files alone until they have rested for the grace period is the set
`quiet`. Premises: only this program writes below the destination of a file in the
instant between the second look and the rename, and nobody removes files.

`LedgerOpen` has the database file as it is on disk (`disk`) and as the open
connection sees it inside a transaction (`view`): a death returns to `disk`, a
commit makes `view` the new `disk`. A database is the version of its columns
(`cols`), the recorded version, the identity rule, the recorded first day, and for
each file the day its row was first seen (`seen`, 0: no row) and whether it has its
set key. `Found` says which databases an earlier binary can have left: any
generation from 3 (too old) to 7 (too new), either identity rule, or a table from
before the `category` column and `schema_meta` (`cols` 1). Only the last one stops
at the category index of the script (`CreateIndex`); generations 3 and 7 pass the
script, the identity rule and the migrations, and only `verifySchemaVersion`
(`CheckVersion`) refuses them. A fresh file gets its tables and its meta rows
statement by statement. Left out: pragmas, the `PUT` table and the indexes, which
influence no other step (so `RefusedUntouched` is about columns, rows and meta
entries; the script does add missing indexes to a database it refuses later),
unresolvable names (their
rows get a set key of their own), and one premise: a binary that died between
creating `common_ledger` and its `schema_meta` row was this one, not an older one.

`Operation` puts the runs on top: a file's whole transfer is one step here, because
`PutRun` has its steps. The data of a day are one directory, observed and
registered at once (`UpsertCommon` for each of its files). The window is computed
from the clock at the start of the scan, rows are dated by the clock of the
moment, and midnight may pass anywhere. `Kept` is the cut of `finalize`, `Resend` the
automatic resend with what is left of the limit. Failed transfers and deaths
count against `MaxStops`, which stays below `MaxRetries`: a file given up is
`PutRun`'s matter. Manual resends are in `PutRun`; here only what they may ask for
(`Calendar!ManualAllowed`).

## 3. Runs

Each run is one question; bounds are in the `.cfg` files.

| run | configuration | question |
|---|---|---|
| `put_ledger` | 3 rows, attempts up to 3 | does the SQL implement the status machine, and do attempts count transfers? |
| `lock` | 3 processes, 2 deaths outside the gap, 1 write error, fair | exclusion, the owner's marker, takeover, progress |
| `lock_overrun` | deaths anywhere, pauses, overrunning owners | is only a stale marker ever taken? |
| `lock_gap` | deaths anywhere | **violated**: exclusion, see findings |
| `put_one_file` | 1 file, 3 edits, contents of two sizes (one empty), deep and manual runs, 1 fault, 1 stop | consistency of row, `.part`, final file and content, and the inductive invariant |
| `put_pool` | 3 files, 2 directories, 2 workers, a two-file set behind a single file, cut at 2, deep and automatic runs | the pool and its hand-out order, retry budget, sets, nothing passed over |
| `put_settles` | 2 files, cut at 1, edits, 1 fault, 1 stop, fair | does every file settle? |
| `stall_watch` | 2 workers and the main goroutine, limit of 2 polls, 2 files a pass, 1 leftover, uploads of 2 chunks, both commands, fair | fire on silence only, cancel before cutting, settle before unlocking, always end |
| `download` | 3 files in 2 directories, 2 of one destination, 1 rewritten, all of one size, 2 workers, 1 fault, 1 stop, 1 visit, fair | complete files, nothing replaced or left, everything there in the end |
| `operation` | 3 files of days 1 to 3, days 3 to 6, `RecentDays` 1, `ScanDays` 2, `RetentionDays` 4, limit of 2 files, 1 stop; 55 databases to begin with | migrations, first day, seed, windows |
| `put_leftover` | 1 file, 1 operator stop | **violated**: a failed transfer leaves no `.part` |
| `put_big_set` | a set of 2, cut at 1, no faults at all | **violated**: every file settles |

Why the bounds are enough for the questions asked: one file with three edits has
room for a transfer of one revision, a crash, a second revision and its retry;
one fault plus one stop reach every error branch and every pair "error, then
death"; `MaxRetries` 1 and 2 are reached, exceeded by a manual resend, and
refused; a set of two with a cut of two and a third file in front meets the cut
in its middle; two open directories and a third file exercise the hand-out. What
more processes, files or revisions could add is what the proofs cover.

In `stall_watch` a limit of two polls gives room for an answer before, at and after
the limit; two workers are what it takes for one call to hide behind another's
beats, and two chunks for a beat within a call. In `download` the two files of one
destination meet in every order, with the third taking the second worker; one
size for all versions is the worst case for the size check. In `operation` the
retention is the shortest with an automatic window, so that each file goes through
hot, deep, resend and forgotten within the four days, and the limit of two cuts the
plan of three. `operation` does not check deadlock: the clock stops at `MaxDay`.

A temporal bound: `MaxMTime`, `MaxFaults` and `MaxStops` are also what makes
"eventually quiet" true in the liveness runs. Deadlock is checked in the other runs.

Fairness. `PutRun!FairSpec`: a run that nobody stops goes on (weak fairness of its
steps: goroutines are scheduled, calls return or time out), and deep runs start
again and again (strong fairness of `StartRun("deep")`: cron). Nothing is assumed of
the producer, of faults or of stops. `DirLock!FairSpec`: live processes finish
their calls and end their runs, cron starts them again, time passes.
`StallWatch!FairSpec`: a goroutine goes on unless it waits for the server, and one
that waits goes on once the connection is closed; time passes and the watchdog
polls. The server owes nothing, which is the point: `RunAlwaysEnds` rests on the
watchdog alone. `Download!FairSpec`: runs start and go on, and a remote file comes
to rest for longer than the grace period sooner or later.

Properties, beyond one type invariant per module:

- `RowsFollowStatusMachine`: refinement of `PutStatus`, for the SQL alone and for
  the whole run with crashes;
- `AttemptsCountBegins`, `BeginNeverRefused`, `RetryBudgetKept`: retry accounting;
- `InProgressIsOwned`: after recovery every `IN_PROGRESS` row belongs to a transfer
  of this run;
- `FinalHasRegisteredSize`, `LeftoverIsUnfinished`, `VerifiedIsDelivered`: the
  server against the ledger;
- `SetsTravelWhole`: a regular run never starts on an incomplete set;
- `NothingPassedOver`: when the plan is made, a listed file whose facts are those on
  record is `VERIFIED`, handed to a transfer, given up, or held back by the gate or
  the cut; a judgement that drops a file without a reason breaks it;
- `PoolNeverStuck`: while files wait and nothing stops the run, some file may start
  or a transfer is under way, whichever worker begins first (with the two
  directories of `put_pool` the limit of two workers does not bite; the theorem is
  about any number of both);
- `EndLeavesNoRowOpen`, `TransfersGoForward`, `SettledStays` (stated in `PutRun`, proved,
  not checked by a run of their own): a run that ends by itself without a ledger
  error leaves no row `IN_PROGRESS`; no transfer repeats a step in one run; what is
  settled stays so until a file is edited;
- `EverythingSettles`: no file is passed over for ever;
- `FireMeansSilence`, `NoBeginOnDeadLink`, `CleanExitIsComplete`,
  `ReleasedAfterSettled`, `RunAlwaysEnds`: the watchdog and the end of a run;
- `VersionMatchesShape`, `RefusedUntouched`, `OriginIsFirstDay`: the ledger file;
- `SeededNeverResent`, `SentWithinLimits`, `NothingAgesOut`: what the runs of many days
  send and do not. `NothingAgesOut` has a premise, kept in `idle`: a day passes only
  after a clean hourly run began and ended in it, clean meaning that nothing
  failed, was cut by the limit or left to the next run. It does not need deep runs;
- `FinalIsComplete`, `TargetsNeverReplaced`, `NoPartLeft`, `CleanExitMeansPresent`,
  `EventuallyThere`: the downloads;
- `MutualExclusion`, `HolderIsMarked`, `OnlyStaleIsTaken`, `LeftoverIsCleared`,
  `AlwaysAcquiredAgain`: the lock.

Beside the definitions of the code the modules have, marked *Slip*, wrong versions
of some of them. Put in place of the right ones they make the properties fail;
`PROJECT.json` ("mutants") pairs them.

## 4. Findings

1. **Two owners after a death in the gap** (`lock_gap`). `lock.go` says a late
   contender cannot destroy a new lock. It can while that lock has no marker yet:
   a process dies between `Mkdir` and its owner file; A and B both see the empty
   directory older than 30 s; A removes it and creates its own; B removes *that*
   (by path, still empty), creates another; A writes its owner file into B's
   directory, B its own next to it; both hold the lock.
2. **The `.part` of a cancelled transfer stays** (`put_leftover`). `failOne` removes it
   outside the cancelled context so that it does not pile up, but the watchdog
   goroutine closes the SSH connection on any cancellation, and the row becomes
   `FAILED` whether or not the removal worked; recovery does not look at it.
3. **A set larger than `MaxFilesPerRun` blocks the queue** (`put_big_set`): it is cut,
   dropped whole as split, and nothing takes its place, in every run.

## 5. Proofs

Everything below holds for every value of the constants that satisfies the
modules' named assumptions (`AttemptCapAssumption`, `RankAssumption`,
`KindAssumption`, `DirAssumption`, `BodyAssumption`, `FileAssumption`, `BoundAssumption`,
`LockAssumption`, `CalendarAssumption`, `NameAssumption`, `OperationAssumption`,
`DownloadAssumption`, `StallAssumption`), which say what the constants are, that `Rank` orders the files
and directories as `SortCandidates` does, and that the bounds are numbers. TLC
evaluates them on each run.

`PutLedgerProofs`. `TypeCorrect`; `LedgerImplementsMachine`: each SQL statement
moves each row along a pair `CanTransitionTo` allows (`EveryRowSteps`, one case
per statement), hence the refinement; `AttemptsCount`, the same way.

`DirLockProofs`.

- `HolderStaysMarked`, for owners that do not overrun `staleAfter`. Not inductive
  alone: another contender may be about to remove a marker. `Marked` adds that
  every old marker and every snapshot a contender holds is a dead process's.
- `OnlyStaleTaken`, without any assumption on time or deaths: `SnapshotsAreStale`
  says that a marker in a snapshot is old or gone, and tokens are fresh, so that
  a removed marker is the one that was looked at.
- `Exclusion`, when nobody overruns, and nobody dies or sleeps in the gap between
  `Mkdir` and the owner file. `Excluded` adds to `Marked` that at most one live
  process is inside the directory and that an empty directory has its creator
  alive in the gap, and that who is about to ask a directory's age asks a young one. The `lock_gap` run shows that the assumption on deaths cannot
  be dropped.

`PutRunProofs`, the planner. `KeptNeverSplits`: if a kept and a cut file had one set,
the set would be in `SplitSets`. `KeptWithinLimit`: no more files are kept than the
limit. `FirstSetIsKept`: if the first candidate's set comes in one piece and
fits into the limit, it is kept, so a run with candidates sends something; that
hypothesis is what finding 3 lacks. `ResendHoldsLess`,
`ObservingReleases`: the gate is monotone in the kinds it asks for and in the files
observed.

`PutRunProofs`, the run. None of the properties of `PutRun` is inductive: whether `FinishPut`
finds its row `IN_PROGRESS` depends on what recovery, the scan's judgements and
the plan left behind. `CoreInv` (module `PutRunInv`) collects that:

- `TypeInv`: the types, and that `common_ledger` never gets ahead of the file: a
  revision costs an edit, so revisions stay within the bound, and one mtime has
  one size;
- `StageInv`: what a judgement said of a file (candidate, failed, delivered) is
  still so when the plan reads it, and an observed file without a part in the
  plan is `VERIFIED`;
- `RowsInv`: no `put_ledger` row is ahead of `common_ledger`, so a new revision
  starts without a row;
- `JobInv`: a transfer carries the revision and size of its `common_ledger` row, a
  queued one is beginnable, an active one has its row `IN_PROGRESS`, a checked
  one has a `.part` of its size, and no `IN_PROGRESS` row is anyone else's;
- `BudgetInv`: the retry bound, for hosts without manual resends.

`InvNext` has a case per part of the run. The fifteen actions of a transfer go
through `SendingShape`: whichever acts on f, only f's job, `.part` and current row
change, in one of the ways `Moves` lists. From `CoreInv` follow `TypeCorrectRun`,
`OwnedRows`, `CandidatesBeginnable`, `BudgetKept`; in one step more
`RenamesRegistered` (only a rename touches a final file, and the `.part` it moves
was checked), `SetsWhole` (the gate names an observed file of each required kind,
which is a candidate and then kept by `KeptNeverSplits`, or delivered, or given
up), and `RunImplementsMachine` (a run writes rows by the ledger's statements
only).

`PutDeliveryProofs`. What the ledger says against what the server has. That a
`VERIFIED` file is there as it is here depends on which content was hashed, opened,
copied and moved, so `IInv` adds to `CoreInv`:

- `PrintInv`: a fingerprint is of the content the file had at the recorded mtime;
- `OpenedInv`: the file an upload has open is no older than the one judged;
- `SentInv`: a copied `.part`, a renamed file and a `VERIFIED` one hold a content that
  passes for the file's (`Faithful`: by mtime, or by fingerprint), and every `.part` has
  a row that recovery or a retry will reach;
- `SeenInv`: what the scan left out although it is on record is `VERIFIED`;
- `PoolInv`: the directories that have been taken and are not done are no more than
  the workers, and only a ledger error loses a transfer.

Most steps move no content, which one lemma (`ContentsKept`) says for all of them; those
that do act on one file (`ContentsOfOne`). Not being edited and passing for unedited
differ when a producer puts an older content back under a new mtime: then a
fingerprint that is not renewed can vouch for a file it was not taken of. So
`VerifiedDelivered` (`VerifiedIsDelivered`) has the hypothesis `~ Reverts`, and
`VerifiedPlaced` says what holds without it: right size, no `.part`, and the right content
as long as the row has no fingerprint and the mtime stands. The other theorems need
no such hypothesis:

- `Invariant`, `LeftoversReachable`: `IInv` and `LeftoverIsUnfinished`, always;
- `NothingIsPassedOver`: from `SeenInv` and what `CoreInv` says of candidates;
- `PoolGoesOn`: the waiting file of the smallest rank may start when no transfer is
  under way: no directory before its own has files left, and if those taken behind
  it filled all the workers, its own would be one of them (`PoolInv`); that a
  smallest exists is well-foundedness of the numbers;
- `EndsTidily`, `TransfersForward`: two of the properties without a run;
- `SettledFilesStay`: the third, and the safety half of `EverythingSettles`: a judgement
  finds the facts on record again (`RecordStays`), and no statement reaches a closed
  row (`ClosedRowStays`). That every file gets there is the liveness TLC checks;
- `RunImplementsLedger`: the whole run, with every fault and death, implements
  `PutLedger!Spec`, and so `RunCountsAttempts`: attempts count the transfers begun.

`LedgerOpenProofs`. `OpenInv` says what the file and the view are at each statement:
outside a transaction the view is the file; inside, the file still is the version
the transaction began with and the view is that version with the statements so
far. `VersionAlwaysMatchesShape` and `RefusedStaysUntouched` follow from it. The
second has a case per reason to refuse: another identity rule is looked at before
the first write; a table without the category column ends the script at its index;
generations 3 and 7 come through the script, whose statements find everything
there, and through `migrateIfNeeded`, which has no step for them, and are refused
by `CheckVersion` alone, before `ensureOperationOrigin` would write. `OriginStaysFirstDay` needs `OriginInv` as well: rows only ever get later
days than those there are, so the first day of a non-empty table is for ever.

`OperationProofs`. First the calendar: `WindowsLeaveNoGap`, `AutoWindowBounds`,
`EveryDayHasItsResend`, `EmptyWhyIsTrue`, by arithmetic over any configuration that
`Validate` accepts. Then the refinement `OpensAsLedgerOpen`: every step of a run is a
step of `LedgerOpen` or changes nothing of it, which carries its three properties
over. Then `OpInv`, whose parts are named for what they say: `Types`; `Holding` (a run
has an open ledger exactly while it is past opening it); `Counted` (what is kept,
queued and a candidate, against the limit); `BeganInv` (`began` is the first row's
day, and `OperationOrigin` gives it or an empty window); `Reach` (what a run may still
send is within the window it is in); `Delivered` and `KnownInv` (`VERIFIED` rows are at
the server, known files have such rows or are out of reach of every later run);
`Seeding` (what a seed has already passed by). From it `SeededIsNeverResent`,
`SendsWithinLimits`, `TypesAndLimits` and `NothingEverAgesOut`. The last assumes
`RetentionDays >= ScanDays + RetentionMargin`: with less, `Auto` answers
`retention_too_short`, there is no automatic resend, and a file that misses the deep
window is lost to the automatic runs by design.

`DownloadProofs`. `DInv`: who owns a destination (`ClaimInv`), what a `.part` holds at
each step of its file (`PartInv`: a version that rested, or a mixture only when the
file was rewritten since its listing, or a short copy not measured yet), whose a
`.part` is (`LeftInv`), that the second look still holds at the rename (`FinalInv`)
and what the report knows (`ReportInv`). One lemma per action. All five safety
properties follow.

`StallWatchProofs`. `SInv`: the counter is the number of calls that are out and the
rows the number of files begun and not recorded (`CountInv`), some call that is out has
waited as long as the clock shows (`ClockInv`), which goroutine may stand where at each
stage of main (`PlaceInv`), what is left to do at each stage (`LeftInv`), and that the
cancellation comes before the cut (`CutInv`). `TypeOK` alone is not inductive: without
the count a call could end at zero. Most steps move one goroutine, so two lemmas
(`MovesKeep` and its like for rows) carry the counting and the clock for all of them. The
five safety properties follow for any workers, files, leftovers, chunks and limit.
`RunAlwaysEnds` is liveness and stays with TLC.

Only model-checked: the liveness properties `EverythingSettles`, `LeftoverIsCleared`, `AlwaysAcquiredAgain`,
`RunAlwaysEnds` and `EventuallyThere`, and the instances the three findings are shown
on. Every safety property of a passing run is a theorem. No module uses RECURSIVE
operators, and no theorem needs ENABLED or induction over data.

## 6. Not modelled yet, and the plan

In order of importance:

1. `TwoRuns`: two runs over one ledger after an overrun (composition of the lock's
   failure with `PutRun`): which of the properties survive.
2. `PutRun` extensions: several categories sharing one limit and one backfill budget,
   files of origin `DOWNLOAD`.
3. `Download`: several categories.
4. `Operation`: manual resends between the automatic ones, a file given up and
   re-armed, and the plan of one run's steps implementing this module's.

Not planned: path templates, file name character rules, the reading of the
configuration file, logging and reports, secret storage (pure functions over text,
or calls of the operating system without a protocol, covered by unit tests); the
vendored libraries.
