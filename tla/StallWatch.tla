----------------------------- MODULE StallWatch -----------------------------
(***************************************************************************)
(* One run over one SSH connection, seen as the calls that are out on it:  *)
(* recovery on the main goroutine, then twice (the hourly set and the      *)
(* automatic resend) a pool of workers; the progress counters they feed;   *)
(* the watchdog that cancels the run and cuts the connection when nothing  *)
(* moves; the operator; and the order in which the run gives everything    *)
(* back.  The server may answer, answer late, or never answer again.       *)
(***************************************************************************)
EXTENDS Naturals, FiniteSets

CONSTANTS
    Worker, Main,   \* the goroutines that call the server
    Timeout,        \* StallTimeout, in watchdog polls
    Files,          \* files a pass may find to send
    Leftovers,      \* rows the recovery finds IN_PROGRESS
    Chunks          \* writes of an upload after its first

ASSUME StallAssumption ==
    /\ IsFiniteSet(Worker) /\ Worker # {} /\ Main \notin Worker
    /\ {Timeout, Files, Leftovers, Chunks} \subseteq Nat

VARIABLES
    command,    \* the hourly run, or the manual resend
    inFlight,   \* progress.inFlight
    idle,       \* time since progress.lastBeat, saturating above Timeout
    waited,     \* how long each call has waited for an answer
    at,         \* where each goroutine stands
    chunk,      \* writes left in each worker's upload
    main,       \* where the main goroutine stands
    pass,       \* 1: the hourly set; 2: the automatic or manual resend
    leftover,   \* rows the recovery has still to settle
    queue,      \* files of the pass no worker has taken
    rows,       \* rows of this run that are IN_PROGRESS
    failed, verified,   \* did the first pass have any of either?
    watch,      \* where the watchdog goroutine stands
    cancelled,  \* runCtx is done
    stalled,    \* the flag the watchdog leaves for main
    aborted,    \* SFTPFS.aborted: this process closed the connection
    locked,     \* the process holds its lock
    outcome     \* what run() returned

progress == <<inFlight, idle, waited>>
work     == <<at, chunk, queue, rows, leftover>>
stage    == <<command, main, pass, failed, verified, outcome>>
signals  == <<cancelled, stalled, aborted>>
vars     == <<progress, work, stage, watch, signals, locked>>

Actor  == Worker \cup {Main}
\* "between" is the local read between two writes, still inside the window.
Blocked == {"recovering", "uploading", "closing", "renaming", "checking", "removing"}
InCall  == Blocked \cup {"between"}
Begun   == {"begun", "uploaded", "renamed", "failing", "failed", "verified"}
           \cup (InCall \ {"recovering"})
Place   == Begun \cup {"out", "ready", "taken", "beginning", "recovering", "recovered"}
Late    == Timeout + 1
\* resendCmd takes the lock before it dials, run() after.
LockFirst == command = "resend"

TypeOK ==
    /\ command \in {"run", "resend"}
    /\ inFlight \in 0 .. Cardinality(Actor) /\ idle \in 0 .. Late
    /\ waited \in [Actor -> 0 .. Late]
    /\ at \in [Actor -> Place]
    /\ chunk \in [Actor -> 0 .. Chunks]
    /\ main \in {"recover", "scan", "transfer", "decide", "leaving",
                 "unlocked", "joining", "closing", "ended"}
    /\ pass \in 1 .. 2 /\ leftover \in 0 .. Leftovers /\ queue \in 0 .. Files
    /\ rows \in 0 .. Cardinality(Worker)
    /\ watch \in {"polling", "judged", "marked", "cutting", "returned", "done"}
    /\ failed \in BOOLEAN /\ verified \in BOOLEAN /\ locked \in BOOLEAN
    /\ cancelled \in BOOLEAN /\ stalled \in BOOLEAN /\ aborted \in BOOLEAN
    /\ outcome \in {"none", "ok", "error"}

\* Connected; the watchdog is started before the recovery.
Init ==
    /\ command \in {"run", "resend"} /\ pass = (IF LockFirst THEN 2 ELSE 1)
    /\ inFlight = 0 /\ idle = 0 /\ waited = [a \in Actor |-> 0]
    /\ at = [a \in Actor |-> IF a = Main THEN "ready" ELSE "out"]
    /\ chunk = [a \in Actor |-> 0]
    /\ main = "recover" /\ leftover = Leftovers /\ queue = 0 /\ rows = 0
    /\ failed = FALSE /\ verified = FALSE /\ outcome = "none"
    /\ watch = "polling" /\ locked = TRUE
    /\ cancelled = FALSE /\ stalled = FALSE /\ aborted = FALSE
-----------------------------------------------------------------------------
(* The progress counters.                                                  *)

\* Slip: the clock is left alone, whatever it shows after a local phase.
EnterLateClock(a, call) ==
    /\ at' = [at EXCEPT ![a] = call]
    /\ inFlight' = inFlight + 1
    /\ UNCHANGED idle
    /\ waited' = [waited EXCEPT ![a] = 0]

\* A call goes out: the clock restarts only if no other call is out.
Enter(a, call) ==
    /\ at' = [at EXCEPT ![a] = call]
    /\ inFlight' = inFlight + 1
    /\ idle' = IF inFlight = 0 THEN 0 ELSE idle
    /\ waited' = [waited EXCEPT ![a] = 0]

\* A call is over, whatever its result: an answer is progress.
Exit(a, to) ==
    /\ at' = [at EXCEPT ![a] = to]
    /\ inFlight' = inFlight - 1
    /\ idle' = 0
    /\ waited' = [waited EXCEPT ![a] = 0]

Tick ==
    /\ main # "ended"
    /\ idle' = IF idle < Late THEN idle + 1 ELSE idle
    /\ waited' = [a \in Actor |-> IF at[a] \in InCall /\ waited[a] < Late
                                  THEN waited[a] + 1 ELSE waited[a]]
    /\ <<idle', waited'>> # <<idle, waited>>
    /\ UNCHANGED <<inFlight, work, stage, watch, signals, locked>>

\* A call that asks its context first: done, it fails without going out.
Ask(a, from, call, refused) ==
    /\ at[a] = from
    /\ IF cancelled THEN at' = [at EXCEPT ![a] = refused] /\ UNCHANGED progress
                    ELSE Enter(a, call)

\* The server answers, or the closed connection wakes the call with an error.
Answer(a, call, good, bad) ==
    /\ at[a] = call
    /\ \/ ~aborted /\ Exit(a, good)
       \/ Exit(a, bad)
-----------------------------------------------------------------------------
(* The main goroutine: recovery, then the passes.                          *)

RecoverCall ==
    /\ main = "recover" /\ leftover > 0
    /\ Ask(Main, "ready", "recovering", "failed")
    /\ UNCHANGED <<chunk, queue, rows, leftover, stage, watch, signals, locked>>

RecoverAnswer ==
    /\ Answer(Main, "recovering", "recovered", "failed")
    /\ UNCHANGED <<chunk, queue, rows, leftover, stage, watch, signals, locked>>

RecoverRow ==
    /\ at[Main] = "recovered"
    /\ at' = [at EXCEPT ![Main] = "ready"] /\ leftover' = leftover - 1
    /\ UNCHANGED <<progress, chunk, queue, rows, stage, watch, signals, locked>>

Leave(result) == main' = "leaving" /\ outcome' = result

RecoverEnds ==
    /\ main = "recover"
    /\ \/ at[Main] = "failed" /\ Leave("error")
       \/ /\ at[Main] = "ready" /\ leftover = 0
          /\ main' = "scan" /\ UNCHANGED outcome
    /\ UNCHANGED <<progress, work, command, pass, failed, verified, watch, signals, locked>>

\* Scan and judge locally, for as long as it takes; then the pool starts.
\* No candidates: Transfer returns at once, whatever its context says.
Scan ==
    /\ main = "scan"
    /\ \/ cancelled /\ Leave("error") /\ UNCHANGED <<at, queue>>
       \/ /\ main' = "decide" /\ UNCHANGED <<at, queue, outcome>>
       \/ /\ main' = "transfer" /\ UNCHANGED outcome
          /\ queue' \in 1 .. Files
          /\ at' = [a \in Actor |-> IF a \in Worker THEN "ready" ELSE at[a]]
    /\ UNCHANGED <<progress, chunk, rows, leftover, command, pass, failed, verified,
                   watch, signals, locked>>

\* Slip: nobody asks the context once the workers are out.
TransferReportsWorkers ==
    /\ main = "transfer" /\ \A w \in Worker : at[w] = "out"
    /\ main' = "decide" /\ UNCHANGED outcome
    /\ UNCHANGED <<progress, work, command, pass, failed, verified, watch, signals, locked>>

\* All workers are out.  Not every one that a cancellation stopped had an
\* error to report, so the context itself decides.
TransferEnds ==
    /\ main = "transfer" /\ \A w \in Worker : at[w] = "out"
    /\ IF cancelled THEN Leave("error") ELSE main' = "decide" /\ UNCHANGED outcome
    /\ UNCHANGED <<progress, work, command, pass, failed, verified, watch, signals, locked>>

\* The automatic resend follows unless the watchdog fired or the first pass
\* only failed; a run the watchdog stopped is no success.
Decide ==
    /\ main = "decide"
    /\ \/ /\ pass = 1 /\ ~stalled /\ ~(failed /\ ~verified)
          /\ main' = "scan" /\ pass' = 2 /\ UNCHANGED outcome
       \/ /\ pass = 2 \/ stalled \/ (failed /\ ~verified)
          /\ Leave(IF stalled THEN "error" ELSE "ok") /\ UNCHANGED pass
    /\ UNCHANGED <<progress, work, command, failed, verified, watch, signals, locked>>
-----------------------------------------------------------------------------
(* A worker: take a file, begin its row, upload, rename, check; on failure *)
(* remove the .part before the rename, and record the row either way.  The *)
(* directory request before the upload and the size request before the     *)
(* rename behave as the rename's own and are not repeated.                 *)

\* The feeder hands out files; an idle worker leaves when there are none or
\* when the pool's context is done, and may take one more in the same instant.
Take(w) ==
    /\ at[w] = "ready" /\ queue > 0
    /\ at' = [at EXCEPT ![w] = "taken"] /\ queue' = queue - 1
    /\ UNCHANGED <<progress, chunk, rows, leftover, stage, watch, signals, locked>>

Quit(w) ==
    /\ at[w] = "ready" /\ (cancelled \/ queue = 0)
    /\ at' = [at EXCEPT ![w] = "out"]
    /\ UNCHANGED <<progress, chunk, queue, rows, leftover, stage, watch, signals, locked>>

\* The context is asked, in transferBatch and where BeginPut starts; the
\* preflight may skip the file.
Begin(w) ==
    /\ at[w] = "taken"
    /\ \/ cancelled /\ at' = [at EXCEPT ![w] = "out"]
       \/ ~cancelled /\ \E s \in {"ready", "beginning"} : at' = [at EXCEPT ![w] = s]
    /\ UNCHANGED <<progress, chunk, queue, rows, leftover, stage, watch, signals, locked>>

\* BeginPut's statement commits, also when the context ended after it started,
\* or finds no candidate, or is interrupted, which ends the worker.
BeginPut(w) ==
    /\ at[w] = "beginning"
    /\ \/ /\ at' = [at EXCEPT ![w] = "begun"]
          /\ rows' = rows + 1 /\ chunk' = [chunk EXCEPT ![w] = Chunks]
       \/ at' = [at EXCEPT ![w] = "ready"] /\ UNCHANGED <<rows, chunk>>
       \/ cancelled /\ at' = [at EXCEPT ![w] = "out"] /\ UNCHANGED <<rows, chunk>>
    /\ UNCHANGED <<progress, queue, leftover, stage, watch, signals, locked>>

UploadCall(w) ==
    /\ Ask(w, "begun", "uploading", "failing")
    /\ UNCHANGED <<chunk, queue, rows, leftover, stage, watch, signals, locked>>

\* A chunk is written: the clock restarts.  A refused write ends the upload.
Beat(w) ==
    /\ at[w] = "uploading" /\ ~aborted
    /\ idle' = 0 /\ waited' = [waited EXCEPT ![w] = 0]
    /\ at' = [at EXCEPT ![w] = "between"]
    /\ UNCHANGED <<inFlight, chunk, queue, rows, leftover, stage, watch, signals, locked>>

\* Slip: an upload that fails never leaves the counter.
UploadErrorLeaks(w) ==
    /\ at[w] = "uploading" /\ at' = [at EXCEPT ![w] = "failing"]
    /\ waited' = [waited EXCEPT ![w] = 0]
    /\ UNCHANGED <<inFlight, idle>>
    /\ UNCHANGED <<chunk, queue, rows, leftover, stage, watch, signals, locked>>

UploadError(w) ==
    /\ at[w] = "uploading" /\ Exit(w, "failing")
    /\ UNCHANGED <<chunk, queue, rows, leftover, stage, watch, signals, locked>>

\* Between two writes the context is asked; the close is a request as well.
NextChunk(w) ==
    /\ at[w] = "between"
    /\ \/ cancelled /\ at' = [at EXCEPT ![w] = "closing"] /\ UNCHANGED chunk
       \/ /\ ~cancelled /\ chunk[w] > 0
          /\ at' = [at EXCEPT ![w] = "uploading"]
          /\ chunk' = [chunk EXCEPT ![w] = chunk[w] - 1]
       \/ /\ ~cancelled /\ chunk[w] = 0
          /\ at' = [at EXCEPT ![w] = "closing"] /\ UNCHANGED chunk
    /\ UNCHANGED <<progress, queue, rows, leftover, stage, watch, signals, locked>>

UploadEnds(w) ==
    /\ Answer(w, "closing", "uploaded", "failing")
    /\ UNCHANGED <<chunk, queue, rows, leftover, stage, watch, signals, locked>>

Rename(w) ==
    /\ \/ Ask(w, "uploaded", "renaming", "failing")
       \/ Answer(w, "renaming", "renamed", "failing")
    /\ UNCHANGED <<chunk, queue, rows, leftover, stage, watch, signals, locked>>

\* After the rename a failure removes nothing.
Check(w) ==
    /\ \/ Ask(w, "renamed", "checking", "failed")
       \/ Answer(w, "checking", "verified", "failed")
    /\ UNCHANGED <<chunk, queue, rows, leftover, stage, watch, signals, locked>>

\* The removal goes out whatever the run's context says.
Cleanup(w) ==
    /\ \/ at[w] = "failing" /\ Enter(w, "removing")
       \/ Answer(w, "removing", "failed", "failed")
    /\ UNCHANGED <<chunk, queue, rows, leftover, stage, watch, signals, locked>>

\* Slip: the failure is recorded under the run's own context.
RecordUnlessCancelled(w) ==
    /\ at[w] \in {"failed", "verified"}
    /\ rows' = IF cancelled /\ at[w] = "failed" THEN rows ELSE rows - 1
    /\ failed' = (failed \/ at[w] = "failed")
    /\ verified' = (verified \/ at[w] = "verified")
    /\ at' = [at EXCEPT ![w] = IF cancelled THEN "out" ELSE "ready"]
    /\ UNCHANGED <<progress, chunk, queue, leftover, command, main, pass, outcome,
                   watch, signals, locked>>

\* FinishPut or FailPut, whatever the run's context says; a worker whose file
\* failed in a cancelled run reports that and leaves.
Record(w) ==
    /\ at[w] \in {"failed", "verified"}
    /\ rows' = rows - 1
    /\ failed' = (failed \/ at[w] = "failed")
    /\ verified' = (verified \/ at[w] = "verified")
    /\ at' = [at EXCEPT ![w] = IF cancelled /\ at[w] = "failed" THEN "out" ELSE "ready"]
    /\ UNCHANGED <<progress, chunk, queue, leftover, command, main, pass, outcome,
                   watch, signals, locked>>
-----------------------------------------------------------------------------
(* The watchdog and the operator.                                          *)

\* A sample of the counters; what it saw may be over when it acts on it.
Poll ==
    /\ watch = "polling" /\ inFlight > 0 /\ idle > Timeout
    /\ watch' = "judged"
    /\ UNCHANGED <<progress, work, stage, signals, locked>>

\* Slip: the connection is closed first, then the run is cancelled.
OnStallCutsFirst ==
    /\ \/ /\ watch = "judged" /\ watch' = "marked" /\ stalled' = TRUE
          /\ UNCHANGED <<cancelled, aborted>>
       \/ /\ watch = "marked" /\ watch' = "cutting" /\ aborted' = TRUE
          /\ UNCHANGED <<cancelled, stalled>>
       \/ /\ watch = "cutting" /\ watch' = "returned" /\ cancelled' = TRUE
          /\ UNCHANGED <<stalled, aborted>>
    /\ UNCHANGED <<progress, work, stage, locked>>

\* The flag, the cancellation, the connection: in this order.
OnStall ==
    /\ \/ /\ watch = "judged" /\ watch' = "marked" /\ stalled' = TRUE
          /\ UNCHANGED <<cancelled, aborted>>
       \/ /\ watch = "marked" /\ watch' = "cutting" /\ cancelled' = TRUE
          /\ UNCHANGED <<stalled, aborted>>
       \/ /\ watch = "cutting" /\ watch' = "returned" /\ aborted' = TRUE
          /\ UNCHANGED <<stalled, cancelled>>
    /\ UNCHANGED <<progress, work, stage, locked>>

\* WatchStall returns when the run's context is done.
WatchStops ==
    /\ watch = "polling" /\ cancelled /\ watch' = "returned"
    /\ UNCHANGED <<progress, work, stage, signals, locked>>

\* Slip: on a plain cancellation the connection is left open.
WatchEndsOpen ==
    /\ watch = "returned" /\ watch' = "done"
    /\ UNCHANGED <<progress, work, stage, signals, locked>>

\* The deferred Abort of the watchdog goroutine, however WatchStall ended.
WatchEnds ==
    /\ watch = "returned" /\ watch' = "done" /\ aborted' = TRUE
    /\ UNCHANGED <<progress, work, stage, cancelled, stalled, locked>>

Interrupt ==
    /\ main # "ended" /\ ~cancelled /\ cancelled' = TRUE
    /\ UNCHANGED <<progress, work, stage, watch, stalled, aborted, locked>>
-----------------------------------------------------------------------------
(* The deferred calls of run(), last registered first: release the lock    *)
(* (before the watchdog is stopped, or last when it was taken before       *)
(* dialling), cancel and wait for the watchdog, close the connection.      *)

Release ==
    /\ \/ main = "leaving" /\ ~LockFirst /\ main' = "unlocked"
       \/ main = "closing" /\ LockFirst /\ main' = "ended"
    /\ locked' = FALSE
    /\ UNCHANGED <<progress, work, command, pass, failed, verified, outcome, watch, signals>>

StopWatch ==
    /\ main = (IF LockFirst THEN "leaving" ELSE "unlocked")
    /\ main' = "joining" /\ cancelled' = TRUE
    /\ UNCHANGED <<progress, work, command, pass, failed, verified, outcome, watch,
                   stalled, aborted, locked>>

\* Close drains the calls that are out, unless the connection was aborted.
Close ==
    /\ main = "joining" /\ watch = "done"
    /\ aborted \/ inFlight = 0
    /\ main' = IF LockFirst THEN "closing" ELSE "ended"
    /\ UNCHANGED <<progress, work, command, pass, failed, verified, outcome, watch, signals, locked>>

Worked(w) ==
    \/ Take(w) \/ Quit(w) \/ Begin(w) \/ BeginPut(w) \/ UploadCall(w) \/ Beat(w)
    \/ UploadError(w) \/ NextChunk(w) \/ UploadEnds(w) \/ Rename(w) \/ Check(w) \/ Cleanup(w) \/ Record(w)
Coordinate ==
    \/ RecoverCall \/ RecoverAnswer \/ RecoverRow \/ RecoverEnds \/ Scan \/ TransferEnds
    \/ Decide \/ Release \/ StopWatch \/ Close
Watch == Poll \/ OnStall \/ WatchStops \/ WatchEnds
Ended == main = "ended" /\ UNCHANGED vars

Next ==
    \/ \E w \in Worker : Worked(w)
    \/ Coordinate \/ Watch \/ Interrupt \/ Tick \/ Ended

Spec == Init /\ [][Next]_vars

\* A goroutine that is not waiting for the server goes on; one that is goes on
\* once the connection is closed.  Time passes and the watchdog samples.  The
\* server and the operator owe nothing.
Unhindered(a) == at[a] \notin Blocked \/ aborted
Fairness ==
    /\ \A w \in Worker : WF_vars(Unhindered(w) /\ Worked(w))
    /\ WF_vars(Unhindered(Main) /\ Coordinate)
    /\ WF_vars(Watch) /\ WF_vars(Tick)
FairSpec == Spec /\ Fairness
-----------------------------------------------------------------------------
(* Properties.                                                             *)

\* When the watchdog judges a run stalled, some call of it has had no answer
\* for longer than the limit: a local phase outside the calls, however long,
\* and the first call after one, are never taken for a stall (WatchStall,
\* progress.enter).  The local read between two writes of an upload is inside
\* its call, for the code and here.
FireMeansSilence ==
    [][watch = "polling" /\ watch' = "judged" =>
         \E a \in Actor : at[a] \in InCall /\ waited[a] > Timeout]_vars

\* No begin of a row, which spends an attempt, is started on a connection this
\* process has closed itself (the order of onStall, BeginPut under the run's
\* context); one that was on its way may still commit.
NoBeginOnDeadLink ==
    [][\A w \in Worker : at[w] = "taken" /\ at'[w] = "beginning" => ~aborted]_vars

\* A run that reports success sent or settled everything it set out to: no
\* file of the last pass was left in the queue, no row half done, no leftover
\* of the previous run unvisited, whenever it was cancelled (Transfer, run).
CleanExitIsComplete ==
    outcome = "ok" =>
      /\ queue = 0 /\ rows = 0 /\ leftover = 0
      /\ \A w \in Worker : at[w] = "out"

\* When the lock is given up no call of this process is out and every row it
\* began is recorded, also after a stall and after Ctrl-C (wg.Wait, failOne,
\* the deferred calls of run and resendCmd).
ReleasedAfterSettled == ~locked => inFlight = 0 /\ rows = 0

\* Whatever the server and the operator do, the process ends and gives its
\* lock back (WatchStall, the deferred Abort, Close).
RunAlwaysEnds == <>(main = "ended" /\ ~locked)
=============================================================================
