------------------------------- MODULE PutRun -------------------------------
(***************************************************************************)
(* One rinexclient host: the runs of the PUT pipeline (recover, scan and   *)
(* judge, plan, transfer) over the two ledgers, against files that their   *)
(* producer keeps editing, a remote server reached over one SSH            *)
(* connection, operator stops and process deaths.  Runs exclude each other *)
(* (the directory lock, module DirLock), so there is at most one at a      *)
(* time; inside it MaxWorkers goroutines transfer, one directory each.     *)
(***************************************************************************)
EXTENDS PutPlan

CONSTANTS
    Dir,            \* the day directories of the scan window, as numbers
    DirOf,          \* [File -> Dir]
    Body,           \* contents a local file can have; distinct hashes
    SizeOf,         \* [Body -> Nat]
    Reverts,        \* may a producer put an older content back?
    MaxRetries,     \* [PUT] MaxRetries
    MaxWorkers,     \* [PUT] MaxWorkers
    FileCap,        \* [Kind -> Nat]: MaxFilesPerRun of a run
    Kinds,          \* the kinds of run explored, a subset of Kind
    AttemptCap,     \* bound on attempts (manual resends rearm without end)
    MaxMTime,       \* bound: a file is edited at most MaxMTime - 1 times
    MaxFaults,      \* bound on I/O, network and database errors
    MaxStops,       \* bound on process deaths and operator stops
    NoFile,         \* no such remote file
    NoHash,         \* content_hash = ''
    Partial, Mixed  \* remote contents that are no local file's content

Kind == {"deep", "auto", "manual"}
Rev  == 1 .. MaxMTime     \* a revision needs an edit
Key  == File \X Rev

ASSUME DirAssumption ==
    /\ Dir \subseteq Nat /\ IsFiniteSet(Dir)
    /\ DirOf \in [File -> Dir]
    /\ \A f, g \in File : DirOf[f] < DirOf[g] => Rank[f] < Rank[g]
ASSUME BodyAssumption ==
    /\ Body \subseteq Nat /\ Body # {} /\ SizeOf \in [Body -> Nat]
    /\ {NoHash, Partial, Mixed} \cap Body = {} /\ Partial # Mixed
    /\ Reverts \in BOOLEAN
ASSUME BoundAssumption ==
    /\ MaxRetries \in Nat \ {0} /\ AttemptCap \in Nat /\ MaxRetries <= AttemptCap
    /\ MaxWorkers \in Nat \ {0} /\ MaxMTime \in Nat \ {0}
    /\ MaxFaults \in Nat /\ MaxStops \in Nat
    /\ Kinds \subseteq Kind /\ FileCap \in [Kind -> Nat]

VARIABLES
    local,      \* the producer's files
    final,      \* the remote files under their final names
    part,       \* the remote files under their .part names
    common,     \* common_ledger: one row per file, rev 0 without one
    row,        \* put_ledger: see PutLedger
    phase, kind,  \* the run, if any, and its kind
    dirs,       \* the directories it has still to list
    stage,      \* where each file stands in the run's scan
    entry,      \* size and mtime of a listed file not judged yet
    observed,   \* the files the set gate counts as present
    job,        \* the transfer of each file
    cancelled,  \* the run's context is cancelled (signal, stall watchdog)
    fatal,      \* a worker reported an error that stops the pool
    dead,       \* the SSH connection is gone
    faults, stops

world   == <<local, final, part>>
ledgers == <<common, row>>
scanned == <<dirs, stage, entry, observed>>
signals == <<cancelled, fatal, dead>>
bounds  == <<faults, stops>>
vars    == <<world, ledgers, phase, kind, scanned, job, signals, bounds>>

Ledger == INSTANCE PutLedger

LocalFile  == [there : BOOLEAN, body : Body, mtime : 1 .. MaxMTime]
Sizes      == {SizeOf[b] : b \in Body}
RemoteFile == [body : Body \cup {Partial, Mixed}, size : Sizes \cup {0}]
CommonRow  == [rev : 0 .. MaxMTime, size : Sizes \cup {0},
               mtime : 0 .. MaxMTime, hash : Body \cup {NoHash}]
Facts      == [size : Sizes, mtime : 1 .. MaxMTime]
NoFacts    == [size |-> 0, mtime |-> 0]
Active     == {"begun", "uploading", "uploaded", "checked", "renamed",
               "confirmed", "failing", "failed"}
Step       == Active \cup {"none", "queued", "done", "lost"}
Job        == [step : Step, rev : 0 .. MaxMTime, size : Sizes \cup {0},
               retry : BOOLEAN, bound : 0 .. AttemptCap,
               src : LocalFile \cup {NoFile}]
NoJob      == [step |-> "none", rev |-> 0, size |-> 0, retry |-> FALSE,
               bound |-> 0, src |-> NoFile]

\* "No file" is not a file.
ASSUME FileAssumption == NoFile \notin RemoteFile \cup LocalFile

TypeOK ==
    /\ local \in [File -> LocalFile]
    /\ final \in [File -> RemoteFile \cup {NoFile}]
    /\ part \in [File -> RemoteFile \cup {NoFile}]
    /\ common \in [File -> CommonRow]
    /\ Ledger!TypeOK
    /\ phase \in {"idle", "recover", "scan", "transfer"}
    /\ kind \in Kind
    /\ dirs \subseteq Dir
    /\ stage \in [File -> {"unseen", "listed", "cand", "failed", "out"}]
    /\ entry \in [File -> Facts \cup {NoFacts}]
    /\ observed \subseteq File
    /\ job \in [File -> Job]
    /\ <<cancelled, fatal, dead>> \in BOOLEAN \X BOOLEAN \X BOOLEAN
    /\ faults \in 0 .. MaxFaults
    /\ stops \in 0 .. MaxStops

\* The process has no run: everything it keeps in memory has its first value.
Forget ==
    /\ phase' = "idle" /\ kind' = "deep" /\ dirs' = {} /\ observed' = {}
    /\ stage' = [f \in File |-> "unseen"] /\ entry' = [f \in File |-> NoFacts]
    /\ job' = [f \in File |-> NoJob]
    /\ cancelled' = FALSE /\ fatal' = FALSE /\ dead' = FALSE

Init ==
    /\ \E here \in SUBSET File, b \in Body :
         local = [f \in File |-> [there |-> f \in here, body |-> b, mtime |-> 1]]
    /\ final = [f \in File |-> NoFile] /\ part = [f \in File |-> NoFile]
    /\ common = [f \in File |-> [rev |-> 0, size |-> 0, mtime |-> 0, hash |-> NoHash]]
    /\ Ledger!Init
    /\ phase = "idle" /\ kind = "deep" /\ dirs = {} /\ observed = {}
    /\ stage = [f \in File |-> "unseen"] /\ entry = [f \in File |-> NoFacts]
    /\ job = [f \in File |-> NoJob]
    /\ cancelled = FALSE /\ fatal = FALSE /\ dead = FALSE
    /\ faults = 0 /\ stops = 0

Fault == faults < MaxFaults /\ faults' = faults + 1 /\ UNCHANGED stops
FactsOf(f) == [size |-> SizeOf[local[f].body], mtime |-> local[f].mtime]
Current(f) == <<f, common[f].rev>>
-----------------------------------------------------------------------------
(* The producer.  Every edit shows in the mtime (whole seconds).           *)

Edit(f) ==
    /\ local[f].mtime < MaxMTime
    /\ \E b \in Body, there \in BOOLEAN :
         /\ Reverts \/ b >= local[f].body
         /\ local' = [local EXCEPT ![f] = [there |-> there, body |-> b,
                                           mtime |-> local[f].mtime + 1]]
    /\ UNCHANGED <<final, part, ledgers, phase, kind, scanned, job, signals, bounds>>
-----------------------------------------------------------------------------
(* Start of a run, and the recovery of the rows the previous one left      *)
(* IN_PROGRESS: remove the .part, then record FAILED.  The model leaves    *)
(* the order of the rows open; an error here ends the run (RunDies).       *)

StartRun(k) ==
    /\ phase = "idle"
    /\ phase' = "recover" /\ kind' = k
    /\ \E window \in SUBSET Dir \ {{}} :
         /\ k = "deep" => window = Dir
         /\ dirs' = window
    /\ UNCHANGED <<world, ledgers, stage, entry, observed, job, signals, bounds>>

RemoveLeftover(k) ==
    /\ phase = "recover" /\ k \in Ledger!ListInProgress
    /\ part[k[1]] # NoFile
    /\ part' = [part EXCEPT ![k[1]] = NoFile]
    /\ UNCHANGED <<local, final, ledgers, phase, kind, scanned, job, signals, bounds>>

\* Slip: a crashed transfer whose final file has the right size is taken for
\* delivered.
FailLeftoverSalvage(k) ==
    /\ phase = "recover" /\ k \in Ledger!ListInProgress
    /\ part[k[1]] = NoFile
    /\ IF final[k[1]] # NoFile /\ final[k[1]].size = common[k[1]].size
       THEN Ledger!FinishPut(k) ELSE Ledger!FailPut(k)
    /\ UNCHANGED <<world, common, phase, kind, scanned, job, signals, bounds>>

\* Slip: a complete .part is taken for delivered and left where it is.
FailLeftoverKeepsPart(k) ==
    /\ phase = "recover" /\ k \in Ledger!ListInProgress
    /\ IF part[k[1]] # NoFile /\ part[k[1]].size = common[k[1]].size
       THEN Ledger!FinishPut(k) ELSE Ledger!FailPut(k)
    /\ UNCHANGED <<world, common, phase, kind, scanned, job, signals, bounds>>

FailLeftover(k) ==
    /\ phase = "recover" /\ k \in Ledger!ListInProgress
    /\ part[k[1]] = NoFile
    /\ Ledger!FailPut(k)
    /\ UNCHANGED <<world, common, phase, kind, scanned, job, signals, bounds>>

RecoverDone ==
    /\ phase = "recover" /\ Ledger!ListInProgress = {}
    /\ phase' = "scan"
    /\ UNCHANGED <<world, ledgers, kind, scanned, job, signals, bounds>>
-----------------------------------------------------------------------------
(* Scan: a directory is listed, then its entries are judged one by one.    *)

MayList(d) ==
    /\ phase = "scan" /\ d \in dirs /\ \A e \in dirs : d <= e
    /\ \A f \in File : stage[f] # "listed"

ListDir(d) ==
    /\ MayList(d)
    /\ dirs' = dirs \ {d}
    /\ LET found == {f \in File : DirOf[f] = d /\ local[f].there}
       IN  /\ stage' = [f \in File |-> IF f \in found THEN "listed" ELSE stage[f]]
           /\ entry' = [f \in File |-> IF f \in found THEN FactsOf(f) ELSE entry[f]]
    /\ UNCHANGED <<world, ledgers, phase, kind, observed, job, signals, bounds>>

\* A directory that cannot be read is counted and passed over.
SkipDir(d) ==
    /\ MayList(d) /\ Fault
    /\ dirs' = dirs \ {d}
    /\ UNCHANGED <<world, ledgers, phase, kind, stage, entry, observed, job, signals>>

SameFacts(f) ==
    /\ common[f].rev # 0
    /\ common[f].size = entry[f].size /\ common[f].mtime = entry[f].mtime

\* Same size, other mtime, fingerprint on record: only the content can tell.
Drifted(f) ==
    /\ common[f].rev # 0 /\ common[f].hash # NoHash
    /\ common[f].size = entry[f].size /\ common[f].mtime # entry[f].mtime

\* An unchanged file without a fingerprint gets one: always if it may still
\* be sent, within the run's backfill budget if it is already VERIFIED.
MustHash(f) == SameFacts(f) /\ common[f].hash = NoHash
               /\ row[Current(f)].status \in {"NONE", "PENDING", "FAILED"}
MayHash(f)  == SameFacts(f) /\ common[f].hash = NoHash
               /\ row[Current(f)].status # "IN_PROGRESS"

\* Hashing f gives h: its content now, or NoHash when it cannot be read.
\* hashStable: size and mtime still are those of the listing.
HashRead(f, h) ==
    \/ /\ h = IF local[f].there THEN local[f].body ELSE NoHash
       /\ local[f].there => FactsOf(f) = entry[f]
       /\ UNCHANGED bounds
    \/ h = NoHash /\ local[f].there /\ Fault

\* The statements that write common_ledger.  A row is only rewritten under
\* other facts than its own, which SameFacts has excluded.
UpsertCommon(f, h) ==
    common' = [common EXCEPT ![f] = [rev   |-> common[f].rev + 1,
                                     size  |-> entry[f].size,
                                     mtime |-> entry[f].mtime, hash |-> h]]

TouchCommonMTime(f)  == common' = [common EXCEPT ![f].mtime = entry[f].mtime]
SetContentHash(f, h) == common' = [common EXCEPT ![f].hash = h]

Judged(f, to) ==
    /\ stage' = [stage EXCEPT ![f] = to]
    /\ entry' = [entry EXCEPT ![f] = NoFacts]
    /\ UNCHANGED <<world, row, phase, kind, dirs, job, signals>>

\* Slip: a PENDING row is some other run's business.
ClassifyOrphanOut(f) ==
    /\ observed' = observed \cup {f}
    /\ Judged(f, CASE row[Current(f)].status = "NONE" -> "cand"
                   [] row[Current(f)].status = "FAILED" -> "failed"
                   [] OTHER -> "out")

\* A known revision is a candidate, a retry to be resolved, or left out.
Classify(f) ==
    /\ observed' = observed \cup {f}
    /\ Judged(f, CASE row[Current(f)].status \in {"NONE", "PENDING"} -> "cand"
                   [] row[Current(f)].status = "FAILED" -> "failed"
                   [] OTHER -> "out")

JudgeKnown(f) ==
    /\ stage[f] = "listed" /\ SameFacts(f) /\ ~ MustHash(f)
    /\ UNCHANGED <<common, bounds>>
    /\ Classify(f)

JudgeUnhashed(f) ==
    /\ stage[f] = "listed" /\ MayHash(f)
    /\ \E h \in Body \cup {NoHash} :
         /\ HashRead(f, h)
         /\ SetContentHash(f, h)
    /\ Classify(f)

\* Slip: the same size under another mtime is a touch, whatever the content.
JudgeTouchedUnread(f) ==
    /\ stage[f] = "listed" /\ Drifted(f)
    /\ UNCHANGED bounds
    /\ TouchCommonMTime(f)
    /\ Classify(f)

JudgeTouched(f) ==
    /\ stage[f] = "listed" /\ Drifted(f)
    /\ HashRead(f, common[f].hash)
    /\ TouchCommonMTime(f)
    /\ Classify(f)

JudgeChanged(f) ==
    /\ stage[f] = "listed" /\ ~ SameFacts(f) /\ entry[f].size > 0
    /\ \E h \in Body \cup {NoHash} :
         /\ HashRead(f, h)
         /\ Drifted(f) => h # common[f].hash
         /\ UpsertCommon(f, h)
    /\ observed' = observed \cup {f}
    /\ Judged(f, "cand")

\* The file changed under the hash: not this run, and not present for its set.
JudgeUnstable(f) ==
    /\ stage[f] = "listed" /\ local[f].there /\ FactsOf(f) # entry[f]
    /\ MayHash(f) \/ (~ SameFacts(f) /\ entry[f].size > 0)
    /\ UNCHANGED <<common, observed, bounds>>
    /\ Judged(f, "out")

JudgeRejected(f) ==
    /\ stage[f] = "listed" /\ ~ SameFacts(f) /\ entry[f].size = 0
    /\ UNCHANGED <<common, observed, bounds>>
    /\ Judged(f, "out")
-----------------------------------------------------------------------------
(* Plan: gate, retry budget, cut; then every kept candidate is registered. *)

Resend == kind # "deep"

\* Slip: every FAILED row is retried.
RetryableAlways(f) == TRUE

Retryable(f) ==
    \/ row[Current(f)].attempts < MaxRetries
    \/ kind = "manual" /\ row[Current(f)].attempts < AttemptCap

Candidates ==
    LET free == {f \in File : ~ Holds(f, HoldKinds(Resend), observed)}
    IN  {f \in free : \/ stage[f] = "cand"
                      \/ stage[f] = "failed" /\ Retryable(f)}

\* Slip: a manual resend does not raise the bound of an exhausted row.
JobForSameBound(f) ==
    [step |-> "queued", rev |-> common[f].rev, size |-> common[f].size,
     retry |-> stage[f] = "failed", src |-> NoFile, bound |-> MaxRetries]

JobFor(f) ==
    LET retry    == stage[f] = "failed"
        attempts == row[Current(f)].attempts
    IN  [step |-> "queued", rev |-> common[f].rev, size |-> common[f].size,
         retry |-> retry, src |-> NoFile,
         bound |-> IF retry /\ attempts >= MaxRetries
                   THEN attempts + 1 ELSE MaxRetries]

\* Slip: retries are put back to PENDING before they are sent.
PlanRunReopens ==
    /\ phase = "scan" /\ dirs = {} /\ \A f \in File : stage[f] # "listed"
    /\ phase' = "transfer"
    /\ LET kept == Kept(Candidates, FileCap[kind])
       IN  /\ row' = [k \in Key |-> IF \E f \in kept : k = Current(f)
                                   THEN [row[k] EXCEPT !.status = "PENDING"]
                                   ELSE row[k]]
           /\ job' = [f \in File |-> IF f \in kept THEN JobFor(f) ELSE NoJob]
    /\ stage' = [f \in File |-> "unseen"] /\ observed' = {}
    /\ UNCHANGED <<world, common, kind, dirs, entry, signals, bounds>>

PlanRun ==
    /\ phase = "scan" /\ dirs = {} /\ \A f \in File : stage[f] # "listed"
    /\ phase' = "transfer"
    /\ LET kept == Kept(Candidates, FileCap[kind])
       IN  /\ Ledger!InsertPendingBatch({Current(f) : f \in kept})
           /\ job' = [f \in File |-> IF f \in kept THEN JobFor(f) ELSE NoJob]
    /\ stage' = [f \in File |-> "unseen"] /\ observed' = {}
    /\ UNCHANGED <<world, common, kind, dirs, entry, signals, bounds>>
-----------------------------------------------------------------------------
(* Transfer.  A worker takes one directory and sends its files in order.   *)
(* Workers take directories in order, but which begins its first file when *)
(* is open.                                                                *)

Stopping == cancelled \/ fatal
Batch(d)  == {f \in File : DirOf[f] = d /\ job[f].step # "none"}
Undone(d) == \E f \in Batch(d) : job[f].step \in Active \cup {"queued"}
\* Directories come off the channel in order, so with one all before it.
Taken(d)  == \E f \in File : job[f].step \notin {"none", "queued"} /\ d <= DirOf[f]
\* The directories that keep a worker once d is taken.
Held(d)   == {e \in Dir : Undone(e) /\ (e <= d \/ Taken(e))}

\* Slip: a worker gives its directory up after the first file that failed.
MayStartUntilFailure(f) ==
    /\ phase = "transfer" /\ ~ Stopping /\ job[f].step = "queued"
    /\ \A g \in Batch(DirOf[f]) \ {f} :
         /\ job[g].step \notin Active
         /\ job[g].step = "queued" => Rank[f] < Rank[g]
         /\ job[g].step = "done" => row[Current(g)].status = "VERIFIED"
    /\ Cardinality(Held(DirOf[f])) <= MaxWorkers

MayStart(f) ==
    /\ phase = "transfer" /\ ~ Stopping /\ job[f].step = "queued"
    /\ \A g \in Batch(DirOf[f]) \ {f} :
         /\ job[g].step \notin Active
         /\ job[g].step = "queued" => Rank[f] < Rank[g]
    /\ Cardinality(Held(DirOf[f])) <= MaxWorkers

To(f, step) == job' = [job EXCEPT ![f].step = step]
Over(f)     == job' = [job EXCEPT ![f] = [NoJob EXCEPT !.step = "done"]]

\* What a transfer step leaves alone besides what it says.
Rest == UNCHANGED <<local, common, phase, kind, scanned, cancelled>>

\* Preflight: the file is gone or cannot be examined, its row stays as it is.
SkipVanished(f) ==
    /\ MayStart(f)
    /\ (~ local[f].there /\ UNCHANGED bounds) \/ (local[f].there /\ Fault)
    /\ Over(f)
    /\ UNCHANGED <<final, part, row, fatal, dead>> /\ Rest

\* Preflight: the size changed since the scan.  A FAILED row stays FAILED.
SkipStale(f) ==
    /\ MayStart(f) /\ local[f].there /\ FactsOf(f).size # job[f].size
    /\ IF job[f].retry THEN UNCHANGED row ELSE Ledger!FailPut(<<f, job[f].rev>>)
    /\ Over(f)
    /\ UNCHANGED <<final, part, fatal, dead, bounds>> /\ Rest

BeginPut(f) ==
    /\ MayStart(f) /\ local[f].there /\ FactsOf(f).size = job[f].size
    /\ Ledger!BeginPut(<<f, job[f].rev>>, job[f].bound)
    /\ To(f, "begun")
    /\ UNCHANGED <<final, part, fatal, dead, bounds>> /\ Rest

\* UploadPart: open the local file, create or truncate the .part ...
OpenPart(f) ==
    /\ job[f].step = "begun" /\ ~ dead /\ local[f].there
    /\ part' = [part EXCEPT ![f] = [body |-> Partial, size |-> 0]]
    /\ job' = [job EXCEPT ![f].step = "uploading", ![f].src = local[f]]
    /\ UNCHANGED <<final, row, fatal, dead, bounds>> /\ Rest

\* ... and copy.  A file edited meanwhile is sent as it was (replaced by
\* rename), as it is now, or as a mixture of the two (written in place).
Copied(f) ==
    LET was == job[f].src
        now == local[f]
        whole(b) == [body |-> b, size |-> SizeOf[b]]
        torn == \/ was.body # now.body
                \/ Reverts /\ now.mtime > was.mtime + 1
    IN  {whole(was.body), whole(now.body)}
          \cup IF torn THEN [body : {Mixed}, size : Sizes] ELSE {}

CopyPart(f) ==
    /\ job[f].step = "uploading" /\ ~ dead
    /\ \E c \in Copied(f) : part' = [part EXCEPT ![f] = c]
    /\ job' = [job EXCEPT ![f].step = "uploaded", ![f].src = NoFile]
    /\ UNCHANGED <<final, row, fatal, dead, bounds>> /\ Rest

\* Slip: the .part is trusted to be whole.
CheckPartTrusting(f) ==
    /\ job[f].step = "uploaded" /\ ~ dead
    /\ To(f, "checked")
    /\ UNCHANGED <<final, part, row, fatal, dead, bounds>> /\ Rest

CheckPart(f) ==
    /\ job[f].step = "uploaded" /\ ~ dead
    /\ To(f, IF part[f].size = job[f].size THEN "checked" ELSE "failing")
    /\ UNCHANGED <<final, part, row, fatal, dead, bounds>> /\ Rest

MovePart(f) ==
    /\ final' = [final EXCEPT ![f] = part[f]]
    /\ part' = [part EXCEPT ![f] = NoFile]

Rename(f) ==
    /\ job[f].step = "checked" /\ ~ dead
    /\ MovePart(f)
    /\ To(f, "renamed")
    /\ UNCHANGED <<row, fatal, dead, bounds>> /\ Rest

ConfirmFinal(f) ==
    /\ job[f].step = "renamed" /\ ~ dead
    /\ To(f, IF final[f].size = job[f].size THEN "confirmed" ELSE "failed")
    /\ UNCHANGED <<final, part, row, fatal, dead, bounds>> /\ Rest

FinishPut(f) ==
    /\ job[f].step = "confirmed"
    /\ Ledger!FinishPut(<<f, job[f].rev>>)
    /\ Over(f)
    /\ UNCHANGED <<final, part, fatal, dead, bounds>> /\ Rest
-----------------------------------------------------------------------------
(* Failures of a transfer.  An error costs a Fault unless the stopped or   *)
(* disconnected run, or the missing local file, makes it anyway.           *)

Excused == (Stopping \/ dead) /\ UNCHANGED bounds

RemoteError(f) ==
    /\ job[f].step \in {"begun", "uploading", "uploaded", "checked", "renamed"}
    /\ \/ Excused \/ Fault
       \/ job[f].step = "begun" /\ ~ local[f].there /\ UNCHANGED bounds
    /\ job' = [job EXCEPT ![f].src = NoFile,
                 ![f].step = IF job[f].step = "renamed" THEN "failed" ELSE "failing"]
    /\ UNCHANGED <<final, part, row, fatal, dead>> /\ Rest

\* The server renamed, the answer is an error: the code does not know.
RenameLost(f) ==
    /\ job[f].step = "checked" /\ ~ dead /\ (Excused \/ Fault)
    /\ MovePart(f)
    /\ To(f, "failing")
    /\ UNCHANGED <<row, fatal, dead>> /\ Rest

\* failOne: remove the .part, outside the cancelled context, then FAILED
\* whether or not that worked.
RemovePart(f) ==
    /\ job[f].step = "failing" /\ ~ dead
    /\ part' = [part EXCEPT ![f] = NoFile]
    /\ To(f, "failed")
    /\ UNCHANGED <<final, row, fatal, dead, bounds>> /\ Rest

CleanupError(f) ==
    /\ job[f].step = "failing"
    /\ (dead /\ UNCHANGED bounds) \/ Fault
    /\ To(f, "failed")
    /\ UNCHANGED <<final, part, row, fatal, dead>> /\ Rest

\* Slip: the worker goes on without recording the failure.
FailPutForgotten(f) ==
    /\ job[f].step = "failed"
    /\ Over(f)
    /\ UNCHANGED <<final, part, row, fatal, dead, bounds>> /\ Rest

FailPut(f) ==
    /\ job[f].step = "failed"
    /\ Ledger!FailPut(<<f, job[f].rev>>)
    /\ Over(f)
    /\ UNCHANGED <<final, part, fatal, dead, bounds>> /\ Rest

\* The ledger refuses BeginPut, FinishPut or FailPut: the first such error
\* cancels the whole pool, and the row stays as it is.
LedgerError(f) ==
    /\ \/ /\ MayStart(f) /\ local[f].there
          /\ FactsOf(f).size = job[f].size \/ ~ job[f].retry
       \/ job[f].step \in {"confirmed", "failed"}
    /\ Fault
    /\ fatal' = TRUE
    /\ To(f, "lost")
    /\ UNCHANGED <<final, part, row, dead>> /\ Rest

Disconnect ==
    /\ phase = "transfer" /\ ~ dead /\ Fault
    /\ dead' = TRUE
    /\ UNCHANGED <<final, part, row, fatal, job>> /\ Rest
-----------------------------------------------------------------------------
(* The end of a run.                                                       *)

\* A signal or the stall watchdog cancels the run ...
Cancel ==
    /\ phase = "transfer" /\ ~ cancelled /\ stops < MaxStops
    /\ cancelled' = TRUE /\ stops' = stops + 1
    /\ UNCHANGED <<world, ledgers, phase, kind, scanned, job, fatal, dead, faults>>

\* ... and the watchdog goroutine then closes the SSH connection.
Abort ==
    /\ cancelled /\ ~ dead
    /\ dead' = TRUE
    /\ UNCHANGED <<world, ledgers, phase, kind, scanned, job, cancelled, fatal, bounds>>

EndRun ==
    /\ phase = "transfer"
    /\ \A f \in File : /\ job[f].step \notin Active
                       /\ job[f].step = "queued" => Stopping
    /\ Forget
    /\ UNCHANGED <<world, ledgers, bounds>>

\* The process dies, or an error before Transfer ends the run.
RunDies ==
    /\ phase # "idle" /\ stops < MaxStops
    /\ stops' = stops + 1
    /\ Forget
    /\ UNCHANGED <<world, ledgers, faults>>
-----------------------------------------------------------------------------
Recovering == RecoverDone \/ \E k \in Key : RemoveLeftover(k) \/ FailLeftover(k)

Scanning ==
    \/ \E d \in Dir : ListDir(d) \/ SkipDir(d)
    \/ \E f \in File : \/ JudgeKnown(f) \/ JudgeUnhashed(f) \/ JudgeTouched(f)
                       \/ JudgeChanged(f) \/ JudgeUnstable(f) \/ JudgeRejected(f)

Transferring ==
    \E f \in File :
        \/ SkipVanished(f) \/ SkipStale(f) \/ BeginPut(f) \/ OpenPart(f)
        \/ CopyPart(f) \/ CheckPart(f) \/ Rename(f) \/ ConfirmFinal(f) \/ FinishPut(f)
        \/ RemoteError(f) \/ RenameLost(f) \/ RemovePart(f) \/ CleanupError(f)
        \/ FailPut(f) \/ LedgerError(f)

RunStep == Recovering \/ Scanning \/ PlanRun \/ Transferring \/ Abort \/ EndRun

Next ==
    \/ \E f \in File : Edit(f)
    \/ \E k \in Kinds : StartRun(k)
    \/ RunStep
    \/ Disconnect \/ Cancel \/ RunDies

Spec == Init /\ [][Next]_vars

\* A run that is not stopped from outside goes on, and the scheduler (cron)
\* keeps starting deep runs.
FairSpec == Spec /\ WF_vars(RunStep) /\ SF_vars(StartRun("deep"))
-----------------------------------------------------------------------------
(* Properties.                                                             *)

\* Every write to put_ledger, by whichever of the run's steps and however
\* runs die in between, is a move domain.CanTransitionTo allows.
RowsFollowStatusMachine == Ledger!RowsFollowStatusMachine

\* Once recovery is over an IN_PROGRESS row belongs to a transfer of this
\* very run, and a transfer past BeginPut has its row IN_PROGRESS: FinishPut
\* and FailPut never find another status, whatever died before.
InProgressIsOwned ==
    phase \in {"scan", "transfer"} =>
        /\ \A k \in Ledger!ListInProgress :
             /\ job[k[1]].step \in Active \cup {"lost"}
             /\ job[k[1]].rev = k[2]
        /\ \A f \in File : job[f].step \in Active =>
             row[<<f, job[f].rev>>].status = "IN_PROGRESS"

\* A registered candidate is still beginnable when its turn comes, with the
\* retry bound its plan gave it: ErrNotCandidate does not happen to a run
\* that has the host for itself.
BeginNeverRefused ==
    \A f \in File : job[f].step = "queued" =>
        Ledger!Beginnable(<<f, job[f].rev>>, job[f].bound)

\* Only a manual resend takes a revision past MaxRetries.
RetryBudgetKept ==
    "manual" \notin Kinds => \A k \in Key : row[k].attempts <= MaxRetries

\* What replaces a file under its final name has the size common_ledger
\* records for it: a .part cut short, torn by an edit to another size, or
\* left by an earlier revision is never renamed into place.
FinalHasRegisteredSize ==
    [][\A f \in File : final'[f] # final[f] =>
          final'[f].size = common[f].size]_vars

\* A .part left on the server belongs to a revision that recovery or a retry
\* can still reach, never to one that counts as delivered.
LeftoverIsUnfinished ==
    \A f \in File : part[f] # NoFile =>
        /\ \E r \in Rev : row[<<f, r>>].status \in {"IN_PROGRESS", "FAILED"}
        /\ common[f].rev \in Rev => row[Current(f)].status # "VERIFIED"

Recorded(f) == /\ common[f].rev \in Rev
               /\ common[f].size = FactsOf(f).size
               /\ common[f].mtime = FactsOf(f).mtime

\* No silent omission (recovery.go: "never VERIFIED without being sent"): if
\* the ledger's facts are the file's and its revision is VERIFIED, the file
\* under the final name has the file's content.
VerifiedIsDelivered ==
    \A f \in File :
        Recorded(f) /\ local[f].there /\ row[Current(f)].status = "VERIFIED" =>
            final[f] # NoFile /\ final[f].body = local[f].body

\* A file of the set of that kind goes with this run, or went before, or has
\* used up its retries.
Served(set, k) ==
    \E g \in File :
        /\ SetOf[g] = set /\ KindOf[g] = k
        /\ \/ job'[g].step = "queued"
           \/ row[Current(g)].status = "VERIFIED"
           \/ row[Current(g)].status = "FAILED"
              /\ row[Current(g)].attempts >= MaxRetries

\* A regular run never starts on a set one of whose required kinds it leaves
\* behind: not for the gate, not for an unstable hash, not for the cut.
SetsTravelWhole ==
    [][PlanRun /\ ~ Resend =>
          \A f \in File : job'[f].step = "queued" /\ SetKey(f) # NoSet =>
              \A k \in RequiredKinds : Served(SetOf[f], k)]_vars

\* The scan and the plan pass over nothing silently: a file that was looked at,
\* and whose facts on record are still its own, goes with this run unless it is
\* delivered, out of retries, held for its set, or there are more candidates
\* than MaxFilesPerRun (classify, resolveFailed, finalize).
NothingPassedOver ==
    [][PlanRun =>
          \A f \in File : stage[f] # "unseen" /\ Recorded(f) /\ job'[f].step # "queued" =>
              \/ row[Current(f)].status = "VERIFIED"
              \/ row[Current(f)].status = "FAILED" /\ ~ Retryable(f)
              \/ Holds(f, HoldKinds(Resend), observed)
              \/ FileCap[kind] # 0 /\ Cardinality(Candidates) > FileCap[kind]]_vars

\* The pool is never stuck on its own rules: with files waiting, none under way
\* and no reason to stop, some file may start (one directory each, directories
\* taken and files sent in order, MaxWorkers at a time).
PoolNeverStuck ==
    (/\ phase = "transfer" /\ ~ Stopping
     /\ \E f \in File : job[f].step = "queued"
     /\ \A f \in File : job[f].step \notin Active)
    => \E f \in File : MayStart(f)

\* A run that ends by itself leaves recovery nothing to do, also after Ctrl-C
\* or a lost connection, unless the ledger itself failed (failOne, uploadOne).
EndLeavesNoRowOpen == [][EndRun /\ ~ fatal => Ledger!ListInProgress = {}]_vars

\* A transfer only goes forward: within one run no file is begun, copied or
\* renamed twice, whatever fails (uploadOne retries nothing itself).
StepNo == [s \in Step |->
    CASE s = "none"     -> 0 [] s = "queued"    -> 1 [] s = "begun"   -> 2
      [] s = "uploading" -> 3 [] s = "uploaded" -> 4 [] s = "checked" -> 5
      [] s = "renamed"  -> 6 [] s = "confirmed" -> 7 [] s = "failing" -> 8
      [] s = "failed"   -> 9 [] OTHER -> 10]
TransfersGoForward ==
    [][phase = "transfer" /\ phase' = "transfer" =>
          \A f \in File : job'[f] = job[f]
                       \/ StepNo[job[f].step] < StepNo[job'[f].step]]_vars

\* Nothing is left to do for the file: it is away or empty, or its facts are
\* on record and the revision delivered, given up, or held for its set.
Settled(f) ==
    LET present == {g \in File : local[g].there /\ FactsOf(g).size > 0}
    IN  \/ f \notin present
        \/ /\ Recorded(f)
           /\ \/ row[Current(f)].status = "VERIFIED"
              \/ row[Current(f)].status = "FAILED"
                 /\ row[Current(f)].attempts >= MaxRetries
              \/ Holds(f, RequiredKinds, present)

\* Once the producer and the faults are quiet, every file is settled for
\* good: no crash point, unstable hash, cut or orphaned row makes the regular
\* runs pass a file over for ever.
EverythingSettles == \A f \in File : <>[]Settled(f)

\* What is settled stays settled while no file is edited: neither another run nor
\* a crash in any place takes up again what was delivered, given up or held
\* (classify, resolveFailed, the WHERE clause of BeginPut).
SettledStays ==
    [][UNCHANGED local /\ "manual" \notin Kinds =>
          \A f \in File : Settled(f) => Settled(f)']_vars

\* A revision that failed has left no .part (transfer.go failOne: what it
\* leaves would pile up on the server once the file is out of the window).
FailedLeavesNoPart ==
    \A f \in File : part[f] # NoFile => \E r \in Rev : row[<<f, r>>].status = "IN_PROGRESS"
=============================================================================
