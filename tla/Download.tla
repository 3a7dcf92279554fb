------------------------------ MODULE Download ------------------------------
(***************************************************************************)
(* The DOWNLOAD mode: runs that list the remote directories, plan a        *)
(* destination for each file, and fetch with MaxWorkers goroutines into    *)
(* .part files that are renamed once their size is right.  There is no     *)
(* ledger: what is on the local disk is all a run knows of the ones before *)
(* it.  The server's files are written by someone else, another program    *)
(* may create the final files, calls fail, runs are stopped and die.       *)
(***************************************************************************)
EXTENDS Integers, FiniteSets

CONSTANTS
    Remote,         \* the remote files of the scan window
    Dirs,           \* the directories of the window, in the scan's order
    DirOf,          \* [Remote -> 1 .. Dirs]
    Rank,           \* [Remote -> Nat]: a listing is sorted by name
    Dest,           \* local destinations, compared as destKey does
    DestOf,         \* [Remote -> Dest]: two names may share one
    MaxVersion,     \* bound on the contents a remote file takes
    Growing,        \* the files still being written when a run may see them
    SizeOf,         \* [1 .. MaxVersion -> Nat]
    MaxWorkers,     \* [DOWNLOAD] MaxWorkers
    MaxFaults,      \* bound on failed calls
    MaxStops,       \* bound on cancellations and process deaths
    MaxVisits,      \* bound on what other programs do to the local files
    None, Odd,      \* no file; something that is not a regular file
    Short, Mixed, Other \* contents that are no version of the remote file

Version == 1 .. MaxVersion

ASSUME DownloadAssumption ==
    /\ IsFiniteSet(Remote) /\ IsFiniteSet(Dest)
    /\ Dirs \in Nat /\ DirOf \in [Remote -> 1 .. Dirs]
    /\ Rank \in [Remote -> Nat] /\ DestOf \in [Remote -> Dest]
    /\ \A r, q \in Remote : Rank[r] = Rank[q] => r = q
    /\ Growing \subseteq Remote
    /\ MaxVersion \in Nat \ {0} /\ SizeOf \in [Version -> Nat \ {0}]
    /\ MaxWorkers \in Nat \ {0} /\ {MaxFaults, MaxStops, MaxVisits} \subseteq Nat
    /\ Odd # None /\ Short \notin {None, Odd} /\ Mixed \notin {None, Odd, Short}
    /\ Other \notin {None, Odd, Short, Mixed}
    /\ {None, Odd, Short, Mixed, Other} \cap Version = {} /\ None \notin Remote

VARIABLES
    remote,     \* version of each remote file
    quiet,      \* remote files last written longer than Grace ago
    offered,    \* ghost: the versions each file has had while quiet
    final,      \* the local files under their final names
    part,       \* the local files under their .part names
    orphan,     \* ghost: .part files a death or a failed removal left
    phase,      \* is there a run?
    listed,     \* the directories its scan has been through
    entry,      \* the version a listing saw of an acceptable file, else 0
    claimed,    \* destSet: who was given each destination
    job,        \* where each file stands in the run
    cancelled,  \* the run's context is done
    bad,        \* the report counts a failure
    exit,       \* how the last run ended
    faults, stops, visits

world  == <<remote, quiet, offered>>
disk   == <<final, part, orphan>>
run    == <<phase, listed, entry, claimed, cancelled, bad, exit>>
bounds == <<faults, stops, visits>>
vars   == <<world, disk, run, job, bounds>>

Content == Version \cup {Short, Mixed, Other, Odd}
Busy    == {"handed", "missing", "copying", "copied", "sized", "clear",
            "taken", "failing"}
Step    == Busy \cup {"idle", "skipped", "stopped", "there", "failed", "done"}

TypeOK ==
    /\ remote \in [Remote -> Version] /\ quiet \subseteq Remote
    /\ offered \in [Remote -> SUBSET Version]
    /\ final \in [Dest -> Content \cup {None}] /\ part \in [Dest -> Content \cup {None}]
    /\ orphan \subseteq Dest
    /\ phase \in {"idle", "scanning"} /\ listed \in 0 .. Dirs
    /\ entry \in [Remote -> 0 .. MaxVersion]
    /\ claimed \in [Dest -> Remote \cup {None}]
    /\ job \in [Remote -> Step]
    /\ cancelled \in BOOLEAN /\ bad \in BOOLEAN
    /\ exit \in {"none", "ok", "error"}
    /\ faults \in 0 .. MaxFaults /\ stops \in 0 .. MaxStops /\ visits \in 0 .. MaxVisits
    \* A file with a worker owns its destination, and so its .part.
    /\ \A r \in Remote : job[r] \in Busy => claimed[DestOf[r]] = r

NoRun ==
    /\ phase' = "idle" /\ listed' = 0 /\ cancelled' = FALSE /\ bad' = FALSE
    /\ entry' = [r \in Remote |-> 0] /\ claimed' = [d \in Dest |-> None]
    /\ job' = [r \in Remote |-> "idle"]

Init ==
    /\ remote = [r \in Remote |-> 1] /\ quiet = Remote \ Growing
    /\ offered = [r \in Remote |-> IF r \in quiet THEN {1} ELSE {}]
    /\ final = [d \in Dest |-> None] /\ orphan = {}
    /\ part \in [Dest -> {None, Odd}]
    /\ phase = "idle" /\ listed = 0 /\ cancelled = FALSE /\ bad = FALSE /\ exit = "none"
    /\ entry = [r \in Remote |-> 0] /\ claimed = [d \in Dest |-> None]
    /\ job = [r \in Remote |-> "idle"]
    /\ faults = 0 /\ stops = 0 /\ visits = 0

Fault == faults < MaxFaults /\ faults' = faults + 1 /\ UNCHANGED <<stops, visits>>
Stop  == stops < MaxStops /\ stops' = stops + 1 /\ UNCHANGED <<faults, visits>>
To(r, step) == job' = [job EXCEPT ![r] = step]
-----------------------------------------------------------------------------
(* Other programs: the writer of the remote files, and whoever creates a   *)
(* final file.  LocalPath is reserved to this program at the instant       *)
(* between the last look at a destination and the rename.                  *)

Write(r) ==
    /\ r \in Growing /\ remote[r] < MaxVersion
    /\ remote' = [remote EXCEPT ![r] = remote[r] + 1]
    /\ quiet' = quiet \ {r} /\ UNCHANGED offered
    /\ UNCHANGED <<disk, run, job, bounds>>

Settle(r) ==
    /\ r \notin quiet
    /\ quiet' = quiet \cup {r}
    /\ offered' = [offered EXCEPT ![r] = @ \cup {remote[r]}]
    /\ UNCHANGED <<remote, disk, run, job, bounds>>

Visit(d) ==
    /\ visits < MaxVisits /\ visits' = visits + 1
    /\ final[d] = None
    /\ \A r \in Remote : job[r] = "clear" => DestOf[r] # d
    /\ \E what \in {Other, Odd} : final' = [final EXCEPT ![d] = what]
    /\ UNCHANGED <<world, part, orphan, run, job, faults, stops>>
-----------------------------------------------------------------------------
(* A run: list a directory, plan and hand out its files, then the next one, *)
(* while the workers fetch what they were handed.                          *)

StartRun ==
    /\ phase = "idle" /\ phase' = "scanning"
    /\ UNCHANGED <<world, disk, listed, entry, claimed, cancelled, bad, exit, job, bounds>>

\* The scan's next file: listed, not planned yet, first by name.
Pending == {r \in Remote : entry[r] > 0 /\ job[r] = "idle"}
First(r) == r \in Pending /\ \A q \in Pending : Rank[r] <= Rank[q]

NextDirectory ==
    /\ phase = "scanning" /\ ~cancelled /\ Pending = {}
    /\ listed < Dirs /\ listed' = listed + 1

\* The listing judges each file on what it shows now: written too recently,
\* it is left for a later run.
List ==
    /\ NextDirectory
    /\ entry' = [r \in Remote |->
                   IF DirOf[r] = listed' /\ r \in quiet THEN remote[r] ELSE entry[r]]
    /\ UNCHANGED <<world, disk, phase, claimed, cancelled, bad, exit, job, bounds>>

\* A directory that cannot be listed is counted and passed over.
ListFails ==
    /\ NextDirectory /\ Fault /\ bad' = TRUE
    /\ UNCHANGED <<world, disk, phase, entry, claimed, cancelled, exit, job>>

\* Slip: the destination is looked up and never entered.
PlanUnclaimed(r) ==
    /\ phase = "scanning" /\ First(r)
    /\ Cardinality({q \in Remote : job[q] \in Busy}) < MaxWorkers
    /\ To(r, "handed") /\ UNCHANGED claimed
    /\ UNCHANGED <<world, disk, phase, listed, entry, cancelled, bad, exit, bounds>>

\* The first file of a destination is handed to a worker as soon as one is
\* free; a later one is reported as a duplicate, whatever became of the first.
Plan(r) ==
    /\ phase = "scanning" /\ First(r)
    /\ \/ /\ claimed[DestOf[r]] # None
          /\ To(r, "skipped") /\ UNCHANGED claimed
       \/ /\ claimed[DestOf[r]] = None
          /\ Cardinality({q \in Remote : job[q] \in Busy}) < MaxWorkers
          /\ claimed' = [claimed EXCEPT ![DestOf[r]] = r] /\ To(r, "handed")
    /\ UNCHANGED <<world, disk, phase, listed, entry, cancelled, bad, exit, bounds>>

\* Waiting for a worker, the scan may see the cancellation instead, and ends.
PlanStops(r) ==
    /\ phase = "scanning" /\ First(r) /\ cancelled
    /\ claimed[DestOf[r]] = None
    /\ job' = [q \in Remote |-> IF q \in Pending THEN "stopped" ELSE job[q]]
    /\ UNCHANGED <<world, disk, run, bounds>>
-----------------------------------------------------------------------------
(* fetch: one file, by one worker.                                         *)

\* A step that fails: a call the context refuses, or an I/O error.
Fails == (cancelled /\ UNCHANGED bounds) \/ Fault

\* The worker looks at the destination before anything else.
Judge(r) ==
    /\ job[r] = "handed"
    /\ \/ cancelled /\ To(r, "stopped") /\ UNCHANGED <<bounds, bad>>
       \/ Fails /\ To(r, "failed") /\ bad' = TRUE
       \/ /\ ~cancelled /\ UNCHANGED <<bounds, bad>>
          /\ To(r, IF final[DestOf[r]] = None THEN "missing" ELSE "there")
    /\ UNCHANGED <<world, disk, phase, listed, entry, claimed, cancelled, exit>>

\* Slip: a .part that is already there is a failure like one before it.
StartCopyOnce(r) ==
    /\ job[r] = "missing"
    /\ \/ /\ ~cancelled /\ part[DestOf[r]] = None /\ To(r, "copying")
          /\ part' = [part EXCEPT ![DestOf[r]] = Short]
          /\ orphan' = orphan \ {DestOf[r]} /\ UNCHANGED <<bad, bounds>>
       \/ /\ Fails \/ (part[DestOf[r]] # None /\ UNCHANGED bounds)
          /\ To(r, "failed") /\ bad' = TRUE /\ UNCHANGED <<part, orphan>>
    /\ UNCHANGED <<world, final, phase, listed, entry, claimed, cancelled, exit>>

\* The directory is made, the remote file opened, and a .part an earlier run
\* left replaced; something else in its place is refused.  All failures but
\* the first are cleaned up after.
StartCopy(r) ==
    /\ job[r] = "missing"
    /\ \/ /\ ~cancelled /\ part[DestOf[r]] # Odd /\ To(r, "copying")
          /\ part' = [part EXCEPT ![DestOf[r]] = Short]
          /\ orphan' = orphan \ {DestOf[r]} /\ UNCHANGED <<bad, bounds>>
       \/ /\ Fails /\ To(r, "failed") /\ bad' = TRUE
          /\ UNCHANGED <<part, orphan>>
       \/ /\ Fails \/ (part[DestOf[r]] = Odd /\ UNCHANGED bounds)
          /\ To(r, "failing") /\ UNCHANGED <<part, orphan, bad>>
    /\ UNCHANGED <<world, final, phase, listed, entry, claimed, cancelled, exit>>

\* The copy ends: the listed version whole, what a file rewritten since then
\* yields, or cut short without an error; or it fails between two chunks.
EndCopy(r) ==
    /\ job[r] = "copying"
    /\ \/ /\ \E c \in {remote[r], Mixed} :
               /\ c = Mixed => remote[r] # entry[r]
               /\ c # Mixed => remote[r] = entry[r] \/ r \in quiet
               /\ part' = [part EXCEPT ![DestOf[r]] = c]
          /\ To(r, "copied") /\ UNCHANGED bounds
       \/ Fault /\ To(r, "copied") /\ UNCHANGED part
       \/ Fails /\ To(r, "failing") /\ UNCHANGED part
    /\ UNCHANGED <<world, final, orphan, run>>

\* The size of what was copied may be the listed one: of another version by
\* equality, of a mixture by chance.
Measures(r) ==
    part[DestOf[r]] \in Version /\ SizeOf[part[DestOf[r]]] = SizeOf[entry[r]]

\* Slip: whatever arrived is good.
MeasureNothing(r) ==
    /\ job[r] = "copied" /\ To(r, "sized")
    /\ UNCHANGED <<world, disk, run, bounds>>

Measure(r) ==
    /\ job[r] = "copied"
    /\ \/ /\ ~cancelled /\ (Measures(r) \/ part[DestOf[r]] = Mixed)
          /\ To(r, "sized") /\ UNCHANGED bounds
       \/ ~Measures(r) /\ To(r, "failing") /\ UNCHANGED bounds
       \/ Fails /\ To(r, "failing")
    /\ UNCHANGED <<world, disk, run>>

\* Slip: nobody looks at the destination again.
RecheckNothing(r) ==
    /\ job[r] = "sized" /\ To(r, "clear")
    /\ UNCHANGED <<world, disk, run, bounds>>

Recheck(r) ==
    /\ job[r] = "sized"
    /\ \/ /\ ~cancelled /\ UNCHANGED bounds
          /\ To(r, IF final[DestOf[r]] = None THEN "clear" ELSE "taken")
       \/ Fails /\ To(r, "failing")
    /\ UNCHANGED <<world, disk, run>>

Rename(r) ==
    /\ job[r] = "clear"
    /\ \/ /\ ~cancelled /\ UNCHANGED bounds /\ To(r, "done")
          /\ final' = [final EXCEPT ![DestOf[r]] = part[DestOf[r]]]
          /\ part' = [part EXCEPT ![DestOf[r]] = None]
       \/ Fails /\ To(r, "failing") /\ UNCHANGED <<final, part>>
    /\ UNCHANGED <<world, orphan, run>>

\* Slip: the removal asks the run's context, and is refused when it is done.
CleanupUnlessCancelled(r) ==
    /\ job[r] \in {"failing", "taken"}
    /\ \/ /\ ~cancelled /\ UNCHANGED <<bounds, orphan>>
          /\ part' = [part EXCEPT ![DestOf[r]] = IF @ = Odd THEN Odd ELSE None]
       \/ cancelled /\ UNCHANGED <<bounds, part, orphan>>
    /\ To(r, IF job[r] = "failing" \/ cancelled THEN "failed" ELSE "there")
    /\ bad' = (bad \/ job[r] = "failing" \/ cancelled)
    /\ UNCHANGED <<world, final, phase, listed, entry, claimed, cancelled, exit>>

\* The .part is removed whatever the run's context says.  A file that failed
\* stays failed; one whose destination appeared meanwhile is only reported
\* so when its .part is really gone.
Cleanup(r) ==
    /\ job[r] \in {"failing", "taken"}
    /\ \/ /\ part[DestOf[r]] # Odd /\ UNCHANGED bounds
          /\ part' = [part EXCEPT ![DestOf[r]] = None]
          /\ orphan' = orphan \ {DestOf[r]}
          /\ To(r, IF job[r] = "failing" THEN "failed" ELSE "there")
          /\ bad' = (bad \/ job[r] = "failing")
       \/ /\ Fault \/ (part[DestOf[r]] = Odd /\ UNCHANGED bounds)
          /\ UNCHANGED part /\ To(r, "failed") /\ bad' = TRUE
          /\ orphan' = IF part[DestOf[r]] \in {None, Odd} THEN orphan
                       ELSE orphan \cup {DestOf[r]}
    /\ UNCHANGED <<world, final, phase, listed, entry, claimed, cancelled, exit>>
-----------------------------------------------------------------------------
(* The end of a run.                                                       *)

\* Slip: only the scan's own error tells of a cancellation.
EndUnasked ==
    /\ phase = "scanning" /\ (listed = Dirs \/ cancelled)
    /\ Pending = {} /\ \A r \in Remote : job[r] \notin Busy
    /\ exit' = IF bad THEN "error" ELSE "ok"
    /\ NoRun /\ UNCHANGED <<world, disk, bounds>>

\* Every file handed out is back and counted; a cancelled context or a
\* counted failure makes the run fail.
EndRun ==
    /\ phase = "scanning" /\ (listed = Dirs \/ cancelled)
    /\ Pending = {} /\ \A r \in Remote : job[r] \notin Busy
    /\ exit' = IF cancelled \/ bad THEN "error" ELSE "ok"
    /\ NoRun /\ UNCHANGED <<world, disk, bounds>>

\* The operator or the stall watchdog.
Cancel ==
    /\ phase # "idle" /\ ~cancelled /\ Stop /\ cancelled' = TRUE
    /\ UNCHANGED <<world, disk, phase, listed, entry, claimed, bad, exit, job>>

Die ==
    /\ phase # "idle" /\ Stop /\ NoRun /\ exit' = "none"
    /\ orphan' = orphan \cup {d \in Dest : part[d] \notin {None, Odd}}
    /\ UNCHANGED <<world, final, part>>

Work(r) ==
    \/ Plan(r) \/ PlanStops(r) \/ Judge(r) \/ StartCopy(r) \/ EndCopy(r)
    \/ Measure(r) \/ Recheck(r) \/ Rename(r) \/ Cleanup(r)
Run == StartRun \/ List \/ ListFails \/ EndRun \/ \E r \in Remote : Work(r)
Environment ==
    \/ \E r \in Remote : Write(r) \/ Settle(r)
    \/ \E d \in Dest : Visit(d)
    \/ Cancel \/ Die

Next == Run \/ Environment

Spec == Init /\ [][Next]_vars

\* The scheduler starts runs, a run's goroutines go on, the server answers
\* (or the stall watchdog makes the call fail), and every remote file comes
\* to rest in the end.
Fairness ==
    /\ WF_vars(Run)
    /\ \A r \in Remote : WF_vars(Settle(r))
FairSpec == Spec /\ Fairness
-----------------------------------------------------------------------------
(* Properties.                                                             *)

\* A file this program has given its final name is a version the server
\* offered at rest; only a file rewritten between its listing and the end of
\* its copy can be anything else, and nothing is ever cut short, whatever
\* failed, stopped or died (DownloadPart, the size check of fetch).
FinalIsComplete ==
    \A d \in Dest : final[d] \notin {None, Other, Odd} =>
      /\ final[d] # Short
      /\ \E r \in Remote :
           /\ DestOf[r] = d
           /\ final[d] \in offered[r] \/ \E v \in offered[r] : remote[r] > v

\* Whatever has a final name keeps it: a destination that another program
\* fills during the transfer, or that a second remote file maps to, is never
\* overwritten (judgeTarget twice, destSet).
TargetsNeverReplaced ==
    [][\A d \in Dest : final[d] # None => final'[d] = final[d]]_vars

\* After a run no .part is left, cancelled or not, except those of a death
\* and those whose removal failed (failClean, cleanup).
NoPartLeft ==
    phase = "idle" => \A d \in Dest : part[d] \in {None, Odd} \/ d \in orphan

\* A run that reports success leaves every acceptable file it listed with a
\* file at its destination: no cancellation, no failure and no first of two
\* duplicates is lost on the way to the exit code (runCategory, Report.Failed).
CleanExitMeansPresent ==
    [][phase = "scanning" /\ phase' = "idle" /\ exit' = "ok" =>
         \A r \in Remote : entry[r] > 0 => final[DestOf[r]] # None]_vars

\* A file on the server gets to its destination in the end, without a ledger
\* to remember the failed tries, as long as nothing but a file of ours stands
\* in the place of its .part.
EventuallyThere ==
    \A d \in {DestOf[r] : r \in Remote} :
      part[d] # Odd ~> final[d] \notin {None, Short}
=============================================================================
