---------------------------- MODULE PutRunProofs ----------------------------
(***************************************************************************)
(* PutRun, for any files, directories, sets, contents, limits and bounds:  *)
(* facts about the planner, then the invariant CoreInv of PutRunInv, which *)
(* is inductive, and the safety properties that follow from it.  Each part *)
(* of a run (edit, start, recovery, listing, judging, plan, transfer, end) *)
(* has one lemma for the types and one for the other conjuncts; the        *)
(* fifteen actions of a transfer share theirs through SendingShape, which  *)
(* says what any of them does to its file.                                 *)
(***************************************************************************)
EXTENDS PutRunInv, FiniteSetTheorems, TLAPS

(* The planner, which has no state (module PutPlan).                       *)

\* The MaxFilesPerRun cut (dropSplitSets): of the candidates of one set either
\* all are kept or none is, whatever the limit and the order.
THEOREM KeptNeverSplits ==
    ASSUME NEW cands \in SUBSET File, NEW max \in Nat,
           NEW f \in Kept(cands, max), NEW g \in cands,
           SetKey(f) # NoSet, SetKey(g) = SetKey(f)
    PROVE  g \in Kept(cands, max)
<1>1. SetKey(f) \notin SplitSets(cands, max)
  BY DEF Kept
<1>2. g \in FirstN(cands, max)
  BY <1>1 DEF SplitSets
<1> QED BY <1>1, <1>2 DEF Kept

\* The cut only removes.
LEMMA KeptAreCandidates ==
    ASSUME NEW cands \in SUBSET File, NEW max \in Nat
    PROVE  Kept(cands, max) \subseteq cands
BY DEF Kept, FirstN

\* Without a limit nothing is cut, gate or no gate.
LEMMA NoLimitNoCut ==
    ASSUME NEW cands \in SUBSET File
    PROVE  Kept(cands, 0) = cands
BY DEF Kept, FirstN, SplitSets

\* The gate asks less of a resend than of a regular run: what a resend holds
\* back a regular run holds back too, so that a resend can always send it.
THEOREM ResendHoldsLess ==
    ASSUME NEW f \in File, NEW present \in SUBSET File,
           Holds(f, HoldKinds(TRUE), present)
    PROVE  Holds(f, HoldKinds(FALSE), present)
BY KindAssumption DEF Holds, HoldKinds, Complete

\* The gate is monotone: a file observed later completes sets and never makes
\* a set that was let through be held.
THEOREM ObservingReleases ==
    ASSUME NEW f \in File, NEW kinds, NEW before \in SUBSET File,
           NEW after \in SUBSET File, before \subseteq after,
           Holds(f, kinds, after)
    PROVE  Holds(f, kinds, before)
BY DEF Holds, Complete

\* How many candidates come before a candidate: different numbers for different
\* candidates, and none above another's.
LEMMA CountsBefore ==
    ASSUME NEW cands \in SUBSET File
    PROVE  /\ \A f \in cands : Cardinality({h \in cands : Before(h, f)}) \in Nat
           /\ \A f, g \in cands : Before(f, g) =>
                Cardinality({h \in cands : Before(h, f)})
                  < Cardinality({h \in cands : Before(h, g)})
<1> DEFINE before(f) == {h \in cands : Before(h, f)}
<1>1. \A f \in cands : IsFiniteSet(before(f)) /\ Cardinality(before(f)) \in Nat
  <2>1. IsFiniteSet(cands)
    BY RankAssumption, FS_Subset
  <2> QED BY <2>1, FS_Subset, FS_CardinalityType
<1>2. ASSUME NEW f \in cands, NEW g \in cands, Before(f, g)
      PROVE  Cardinality(before(f)) < Cardinality(before(g))
  <2>1. before(f) \subseteq before(g) /\ f \in before(g) /\ f \notin before(f)
    BY <1>2, RankAssumption DEF Before
  <2>2. /\ Cardinality(before(f)) <= Cardinality(before(g))
        /\ Cardinality(before(f)) # Cardinality(before(g))
    BY <1>1, <2>1, FS_Subset
  <2> QED BY <1>1, <2>2
<1> QED BY <1>1, <1>2

\* A limit is a limit: MaxFilesPerRun bounds what a run sends (finalize).
THEOREM KeptWithinLimit ==
    ASSUME NEW cands \in SUBSET File, NEW max \in Nat \ {0}
    PROVE  Cardinality(Kept(cands, max)) <= max
<1> DEFINE place == [f \in FirstN(cands, max) |-> Cardinality({h \in cands : Before(h, f)})]
<1>1. /\ FirstN(cands, max) \subseteq cands
      /\ \A f \in FirstN(cands, max) : Cardinality({h \in cands : Before(h, f)}) < max
  BY DEF FirstN
<1>2. place \in [FirstN(cands, max) -> 0 .. max - 1]
  BY <1>1, CountsBefore
<1>3. ASSUME NEW f \in FirstN(cands, max), NEW g \in FirstN(cands, max), place[f] = place[g]
      PROVE  f = g
  <2>1. f \in cands /\ g \in cands
    BY <1>1
  <2>2. Cardinality({h \in cands : Before(h, f)}) = Cardinality({h \in cands : Before(h, g)})
    BY <1>3
  <2>3. Cardinality({h \in cands : Before(h, f)}) \in Nat
    BY <2>1, CountsBefore
  <2>4. ~ Before(f, g) /\ ~ Before(g, f)
    BY <2>1, <2>2, <2>3, CountsBefore
  <2> QED BY <2>1, <2>4, RankAssumption DEF Before
<1>4. place \in Injection(FirstN(cands, max), 0 .. max - 1)
  BY <1>2, <1>3 DEF Injection, IsInjective
<1>5. IsFiniteSet(0 .. max - 1) /\ Cardinality(0 .. max - 1) = max
  BY FS_Interval
<1>6. IsFiniteSet(FirstN(cands, max)) /\ Cardinality(FirstN(cands, max)) <= max
  <2> HIDE DEF place
  <2> QED BY <1>4, <1>5, FS_Injection
<1>7. Kept(cands, max) \subseteq FirstN(cands, max)
  BY DEF Kept
<1> QED BY <1>6, <1>7, FS_Subset, FS_CardinalityType

\* The cut makes progress: the first candidate is sent when its set has no more
\* candidates than the limit and no other file sorts between them.  A set larger
\* than MaxFilesPerRun is the case left out (setgate.go dropSplitSets).
THEOREM FirstSetIsKept ==
    ASSUME NEW cands \in SUBSET File, NEW max \in Nat \ {0},
           NEW f \in cands, \A g \in cands : g = f \/ Before(f, g),
           LET set == {g \in cands : SetKey(g) = SetKey(f)}
           IN  SetKey(f) # NoSet =>
                 /\ Cardinality(set) <= max
                 /\ \A g \in set, h \in cands : Before(h, g) => h \in set
    PROVE  f \in Kept(cands, max)
<1> DEFINE set == {g \in cands : SetKey(g) = SetKey(f)}
           before(g) == {h \in cands : Before(h, g)}
<1>1. f \in FirstN(cands, max)
  <2>1. before(f) = {}
    BY RankAssumption DEF Before
  <2> QED BY <2>1, FS_EmptySet DEF FirstN
<1>2. ASSUME SetKey(f) # NoSet, NEW g \in set PROVE g \in FirstN(cands, max)
  <2>1. IsFiniteSet(set) /\ Cardinality(set) \in Nat
    BY RankAssumption, FS_Subset, FS_CardinalityType
  <2>2. before(g) \subseteq set \ {g}
    BY <1>2, RankAssumption DEF Before
  <2>3. IsFiniteSet(set \ {g}) /\ Cardinality(set \ {g}) = Cardinality(set) - 1
    BY <1>2, <2>1, FS_RemoveElement
  <2>4. Cardinality(before(g)) <= Cardinality(set \ {g}) /\ Cardinality(before(g)) \in Nat
    BY <2>2, <2>3, FS_Subset, FS_CardinalityType
  <2> QED BY <1>2, <2>1, <2>3, <2>4 DEF FirstN
<1>3. SetKey(f) \notin SplitSets(cands, max)
  BY <1>2 DEF SplitSets
<1> QED BY <1>1, <1>3 DEF Kept
-----------------------------------------------------------------------------

Judging(f) ==
    \/ JudgeKnown(f) \/ JudgeUnhashed(f) \/ JudgeTouched(f)
    \/ JudgeChanged(f) \/ JudgeUnstable(f) \/ JudgeRejected(f)

Sending(f) ==
    \/ SkipVanished(f) \/ SkipStale(f) \/ BeginPut(f) \/ OpenPart(f)
    \/ CopyPart(f) \/ CheckPart(f) \/ Rename(f) \/ ConfirmFinal(f) \/ FinishPut(f)
    \/ RemoteError(f) \/ RenameLost(f) \/ RemovePart(f) \/ CleanupError(f)
    \/ FailPut(f) \/ LedgerError(f)

\* CoreInv without the types.
Others == StageInv /\ RowsInv /\ JobInv /\ BudgetInv
-----------------------------------------------------------------------------
\* The sizes contents can have are numbers.
LEMMA SizesAreNat == Sizes \subseteq Nat /\ \A b \in Body : SizeOf[b] \in Sizes
BY BodyAssumption DEF Sizes

\* What stat says of a local file.
LEMMA FactsTyped ==
    ASSUME TypeOK, NEW f \in File PROVE FactsOf(f) \in Facts
BY SizesAreNat DEF TypeOK, FactsOf, Facts, LocalFile

\* The producer's edits keep the types and the facts: mtimes only grow.
LEMMA TypeEdit ==
    ASSUME TypeInv, NEW f \in File, Edit(f) PROVE TypeInv'
<1> USE DEF TypeInv, Edit, ledgers, scanned, signals, bounds, world
<1>1. local' \in [File -> LocalFile]
  BY BoundAssumption DEF TypeOK, LocalFile
<1>2. FactsInv'
  BY DEF TypeOK, LocalFile, FactsInv, CommonRow, Facts
<1> QED BY <1>1, <1>2 DEF SrcKnown, TypeOK, Ledger!TypeOK

\* Recovery keeps the types.
LEMMA TypeRecovering ==
    ASSUME TypeInv, Recovering PROVE TypeInv'
<1> USE DEF TypeInv, ledgers, scanned, signals, bounds, world
<1>1. CASE RecoverDone
  BY <1>1 DEF RecoverDone, TypeOK, Ledger!TypeOK, FactsInv, SrcKnown
<1>2. ASSUME NEW k \in Key, RemoveLeftover(k) PROVE TypeInv'
  <2>1. part' \in [File -> RemoteFile \cup {NoFile}]
    BY <1>2 DEF RemoveLeftover, TypeOK
  <2> QED BY <1>2, <2>1 DEF RemoveLeftover, TypeOK, Ledger!TypeOK, FactsInv, SrcKnown
<1>3. ASSUME NEW k \in Key, FailLeftover(k) PROVE TypeInv'
  <2>1. Ledger!TypeOK'
    BY <1>3 DEF FailLeftover, TypeOK, Ledger!TypeOK, Ledger!FailPut, Ledger!Rows, Ledger!Status
  <2> QED BY <1>3, <2>1 DEF FailLeftover, TypeOK, FactsInv, SrcKnown
<1> QED BY <1>1, <1>2, <1>3 DEF Recovering

\* So does the start of a run.
LEMMA TypeStart ==
    ASSUME TypeInv, NEW k \in Kinds, StartRun(k) PROVE TypeInv'
<1> USE DEF TypeInv, StartRun, ledgers, scanned, signals, bounds, world
<1>1. kind' \in Kind /\ dirs' \subseteq Dir
  BY BoundAssumption
<1> QED BY <1>1 DEF TypeOK, Ledger!TypeOK, FactsInv, SrcKnown

\* A listing records what stat says now, which no ledger row is ahead of.
LEMMA TypeListing ==
    ASSUME TypeInv, NEW d \in Dir, ListDir(d) \/ SkipDir(d) PROVE TypeInv'
<1> USE DEF TypeInv, ledgers, scanned, signals, bounds, world
<1>1. CASE ListDir(d)
  <2> DEFINE found == {f \in File : DirOf[f] = d /\ local[f].there}
  <2>1. /\ dirs' \subseteq Dir
        /\ stage' = [f \in File |-> IF f \in found THEN "listed" ELSE stage[f]]
        /\ entry' = [f \in File |-> IF f \in found THEN FactsOf(f) ELSE entry[f]]
    BY <1>1 DEF ListDir, TypeOK
  <2>2. /\ stage' \in [File -> {"unseen", "listed", "cand", "failed", "out"}]
        /\ entry' \in [File -> Facts \cup {NoFacts}]
    BY <2>1, FactsTyped DEF TypeOK
  <2>3. \A f \in File : stage[f] # "listed"
    BY <1>1 DEF ListDir, MayList
  <2>4. UNCHANGED <<local, common>>
    BY <1>1 DEF ListDir
  <2>5. FactsInv'
    <3> SUFFICES ASSUME NEW f \in found
                 PROVE  /\ entry'[f] \in Facts
                        /\ common[f].mtime <= entry'[f].mtime
                        /\ entry'[f].mtime <= local[f].mtime
                        /\ entry'[f].size = SizeOf[local[f].body]
                        /\ common[f].rev # 0 /\ common[f].mtime = entry'[f].mtime
                             => common[f].size = entry'[f].size
      BY <2>1, <2>3, <2>4 DEF FactsInv
    <3>1. entry'[f] = FactsOf(f)
      BY <2>1
    <3> QED BY <3>1, FactsTyped DEF FactsOf, FactsInv, TypeOK, LocalFile
  <2> QED BY <1>1, <2>1, <2>2, <2>5 DEF ListDir, TypeOK, Ledger!TypeOK, SrcKnown
<1>2. CASE SkipDir(d)
  <2>1. dirs' \subseteq Dir /\ faults' \in 0 .. MaxFaults
    BY <1>2, BoundAssumption DEF SkipDir, Fault, TypeOK
  <2> QED BY <1>2, <2>1 DEF SkipDir, Fault, TypeOK, Ledger!TypeOK, FactsInv, SrcKnown
<1> QED BY <1>1, <1>2

\* What all judgements leave alone, and what they do to the file's place.
LEMMA TypeJudged ==
    ASSUME TypeInv, NEW f \in File, NEW to \in {"cand", "failed", "out"},
           stage[f] = "listed", Judged(f, to),
           observed' \subseteq File,
           faults' \in 0 .. MaxFaults, stops' = stops,
           NEW c \in CommonRow, common' = [common EXCEPT ![f] = c],
           c.rev <= c.mtime, c.mtime <= local[f].mtime,
           c.rev # 0 /\ c.mtime = local[f].mtime => c.size = SizeOf[local[f].body]
    PROVE  TypeInv'
<1> USE DEF TypeInv, Judged, ledgers, scanned, signals, bounds, world
<1>1. stage' \in [File -> {"unseen", "listed", "cand", "failed", "out"}]
  BY DEF TypeOK
<1>2. entry' \in [File -> Facts \cup {NoFacts}]
  BY DEF TypeOK
<1>3. common' \in [File -> CommonRow]
  BY DEF TypeOK
<1>4. FactsInv'
  BY <1>1, <1>3 DEF FactsInv, TypeOK
<1> QED BY <1>1, <1>2, <1>3, <1>4 DEF TypeOK, Ledger!TypeOK, SrcKnown

\* Classify is a judgement.
LEMMA ClassifyJudges ==
    ASSUME TypeOK, NEW f \in File, Classify(f)
    PROVE  /\ \E to \in {"cand", "failed", "out"} : Judged(f, to)
           /\ observed' \subseteq File
BY DEF Classify, TypeOK

\* Hashing uses up at most one fault.
LEMMA HashReadFaults ==
    ASSUME TypeOK, NEW f \in File, NEW h, HashRead(f, h)
    PROVE  faults' \in 0 .. MaxFaults /\ stops' = stops
BY BoundAssumption DEF HashRead, Fault, TypeOK, bounds

\* Every judgement writes a row that fits the file: JudgeChanged's revision is
\* within bounds because facts other than the row's are newer than the row's.
LEMMA TypeJudging ==
    ASSUME TypeInv, NEW f \in File, Judging(f) PROVE TypeInv'
<1> USE DEF TypeInv
<1> DEFINE Fits(c) == /\ c.rev <= c.mtime /\ c.mtime <= local[f].mtime
                      /\ c.rev # 0 /\ c.mtime = local[f].mtime
                           => c.size = SizeOf[local[f].body]
<1>0. common[f] \in CommonRow /\ Fits(common[f])
  BY DEF TypeOK, FactsInv
<1>1. CASE JudgeKnown(f)
  <2>1. /\ common' = [common EXCEPT ![f] = common[f]]
        /\ faults' \in 0 .. MaxFaults /\ stops' = stops
    BY <1>1 DEF JudgeKnown, TypeOK, bounds
  <2> QED BY <1>0, <1>1, <2>1, ClassifyJudges, TypeJudged DEF JudgeKnown
<1>2. CASE JudgeUnhashed(f)
  <2> PICK h \in Body \cup {NoHash} : HashRead(f, h) /\ SetContentHash(f, h)
    BY <1>2 DEF JudgeUnhashed
  <2> DEFINE c == [common[f] EXCEPT !.hash = h]
  <2>1. c \in CommonRow /\ Fits(c) /\ common' = [common EXCEPT ![f] = c]
    BY <1>0 DEF CommonRow, SetContentHash, TypeOK
  <2> QED BY <1>2, <2>1, ClassifyJudges, HashReadFaults, TypeJudged DEF JudgeUnhashed
<1>3. CASE JudgeTouched(f)
  <2> DEFINE c == [common[f] EXCEPT !.mtime = entry[f].mtime]
  <2>0. /\ entry[f] \in Facts /\ common[f].mtime <= entry[f].mtime
        /\ common[f].size = entry[f].size /\ entry[f].mtime <= local[f].mtime
        /\ entry[f].mtime = local[f].mtime => entry[f].size = SizeOf[local[f].body]
    BY <1>3 DEF JudgeTouched, Drifted, FactsInv
  <2>1. c \in CommonRow /\ Fits(c)
    BY <1>0, <2>0, BoundAssumption DEF CommonRow, Facts
  <2>2. common' = [common EXCEPT ![f] = c]
    BY <1>3 DEF JudgeTouched, TouchCommonMTime
  <2> QED BY <1>3, <2>1, <2>2, ClassifyJudges, HashReadFaults, TypeJudged DEF JudgeTouched
<1>4. CASE JudgeChanged(f)
  <2> PICK h \in Body \cup {NoHash} : HashRead(f, h) /\ UpsertCommon(f, h)
    BY <1>4 DEF JudgeChanged
  <2> DEFINE c == [rev   |-> common[f].rev + 1, size |-> entry[f].size,
                   mtime |-> entry[f].mtime,    hash |-> h]
  <2>1. entry[f] \in Facts /\ local[f] \in LocalFile
    BY <1>4 DEF JudgeChanged, FactsInv, TypeOK
  <2>2. common[f].rev < entry[f].mtime
    BY <1>0, <1>4, <2>1 DEF JudgeChanged, SameFacts, FactsInv, Facts, CommonRow, LocalFile
  <2>3. c \in CommonRow
    BY <1>0, <2>1, <2>2, BoundAssumption DEF Facts, CommonRow
  <2>4. Fits(c)
    BY <1>0, <1>4, <2>1, <2>2 DEF JudgeChanged, FactsInv, Facts, CommonRow
  <2>5. common' = [common EXCEPT ![f] = c] /\ observed' \subseteq File
    BY <1>4 DEF JudgeChanged, UpsertCommon, TypeOK
  <2> QED BY <1>4, <2>3, <2>4, <2>5, HashReadFaults, TypeJudged DEF JudgeChanged
<1>5. CASE JudgeUnstable(f) \/ JudgeRejected(f)
  <2>1. /\ common' = [common EXCEPT ![f] = common[f]]
        /\ faults' \in 0 .. MaxFaults /\ stops' = stops /\ observed' \subseteq File
    BY <1>5 DEF JudgeUnstable, JudgeRejected, TypeOK, bounds
  <2> QED BY <1>0, <1>5, <2>1, TypeJudged DEF JudgeUnstable, JudgeRejected
<1> QED BY <1>1, <1>2, <1>3, <1>4, <1>5 DEF Judging

\* A file with a row has a current revision.
LEMMA KeyOf ==
    ASSUME TypeOK, NEW f \in File, common[f].rev # 0
    PROVE  Current(f) \in Key /\ common[f].rev \in Rev
BY BoundAssumption DEF TypeOK, CommonRow, Current, Key, Rev

\* What the plan may rely on for each of its candidates.
LEMMA CandidateFacts ==
    ASSUME TypeInv, StageInv, NEW f \in Candidates
    PROVE  /\ f \in File /\ Current(f) \in Key /\ common[f].rev # 0
           /\ \/ stage[f] = "cand" /\ row[Current(f)].status \in {"NONE", "PENDING"}
              \/ stage[f] = "failed" /\ row[Current(f)].status = "FAILED" /\ Retryable(f)
BY KeyOf DEF Candidates, TypeInv, StageInv

\* The bound a job gets is within AttemptCap, the raised one included.
LEMMA JobTyped ==
    ASSUME TypeInv, StageInv, NEW f \in Candidates PROVE JobFor(f) \in Job
<1>1. /\ f \in File /\ common[f] \in CommonRow
      /\ stage[f] = "failed" => Retryable(f)
  BY CandidateFacts DEF TypeInv, TypeOK
<1>2. row[Current(f)].attempts \in 0 .. AttemptCap
  BY CandidateFacts DEF TypeInv, TypeOK, Ledger!TypeOK, Ledger!Rows
<1>3. stage[f] = "failed" /\ row[Current(f)].attempts >= MaxRetries
        => row[Current(f)].attempts < AttemptCap
  BY <1>1, <1>2, BoundAssumption DEF Retryable
<1> QED BY <1>1, <1>2, <1>3, BoundAssumption DEF JobFor, Job, Step, CommonRow
-----------------------------------------------------------------------------
\* The plan keeps the types.
LEMMA TypePlan ==
    ASSUME TypeInv, StageInv, PlanRun PROVE TypeInv'
<1> USE DEF TypeInv, PlanRun, ledgers, scanned, signals, bounds, world
<1> DEFINE kept == Kept(Candidates, FileCap[kind])
<1>1. kept \subseteq Candidates
  BY KeptAreCandidates, BoundAssumption DEF Candidates, TypeOK
<1>2. job' \in [File -> Job]
  <2>1. NoJob \in Job
    BY BoundAssumption DEF NoJob, Job, Step
  <2> QED BY <1>1, <2>1, JobTyped
<1>3. Ledger!TypeOK'
  BY BoundAssumption DEF TypeOK, Ledger!TypeOK, Ledger!Rows, Ledger!Status, Ledger!InsertPendingBatch
<1>4. stage' \in [File -> {"unseen", "listed", "cand", "failed", "out"}] /\ observed' \subseteq File
  OBVIOUS
<1>5. SrcKnown'
  BY <1>2 DEF SrcKnown, JobFor, NoJob
<1> QED BY <1>2, <1>3, <1>4, <1>5 DEF TypeOK, FactsInv

\* Stops, deaths and the end of a run keep the types.
LEMMA TypeStopping ==
    ASSUME TypeInv, EndRun \/ RunDies \/ Cancel \/ Abort \/ Disconnect PROVE TypeInv'
<1> USE DEF TypeInv, ledgers, scanned, signals, bounds, world
<1>1. NoJob \in Job /\ NoJob.step # "uploading"
  BY BoundAssumption DEF NoJob, Job, Step
<1>2. CASE EndRun \/ RunDies
  <2>1. Forget /\ UNCHANGED <<local, final, part, common, row, faults>>
        /\ stops' \in 0 .. MaxStops
    BY <1>2, BoundAssumption DEF EndRun, RunDies, TypeOK
  <2> QED BY <1>1, <2>1 DEF Forget, TypeOK, Ledger!TypeOK, Kind, FactsInv, SrcKnown
<1>3. CASE Cancel
  <2>1. stops' \in 0 .. MaxStops
    BY <1>3, BoundAssumption DEF Cancel, TypeOK
  <2> QED BY <1>3, <2>1 DEF Cancel, TypeOK, Ledger!TypeOK, FactsInv, SrcKnown
<1>4. CASE Abort
  BY <1>4 DEF Abort, TypeOK, Ledger!TypeOK, FactsInv, SrcKnown
<1>5. CASE Disconnect
  <2>1. faults' \in 0 .. MaxFaults
    BY <1>5, BoundAssumption DEF Disconnect, Fault, TypeOK
  <2> QED BY <1>5, <2>1 DEF Disconnect, Fault, Rest, TypeOK, Ledger!TypeOK, FactsInv, SrcKnown
<1> QED BY <1>2, <1>3, <1>4, <1>5
-----------------------------------------------------------------------------
\* What any step of a transfer of f does to f's job j and row r.
Moves(j, r, p, j2, r2, p2) ==
    /\ j.step \in Active \cup {"queued"}
    /\ j2.step \in Active \cup {"done", "lost"}
    /\ j2.step # "done" => j2.rev = j.rev /\ j2.size = j.size
    /\ j2.bound <= j.bound
    /\ j2.step \in Active => r2.status = "IN_PROGRESS"
    /\ j2.step = "done" => r2.status # "IN_PROGRESS"
    /\ j2.step = "lost" => r2 = r
    /\ j2.step = "checked" => p2.size = j2.size
    /\ r2 # r => r2.status \notin {"NONE", "PENDING"}
    /\ r2.attempts = r.attempts \/ r2.attempts <= j.bound

\* The two jobs that stand for no transfer.
LEMMA DoneTyped ==
    /\ NoJob \in Job
    /\ [NoJob EXCEPT !.step = "done"] \in Job
    /\ [NoJob EXCEPT !.step = "done"].step = "done"
    /\ [NoJob EXCEPT !.step = "done"].bound = 0
<1>1. NoJob \in Job /\ NoJob.bound = 0
  BY BoundAssumption DEF NoJob, Job, Step
<1> QED BY <1>1 DEF Job, Step

\* Only a queued job of a run in its transfer phase starts.
LEMMA StartsQueued ==
    ASSUME NEW f \in File, MayStart(f)
    PROVE  phase = "transfer" /\ job[f].step = "queued"
BY DEF MayStart

\* The frame of every step of a transfer.
LEMMA SendingIsRest ==
    ASSUME JobInv, NEW f \in File, Sending(f)
    PROVE  phase = "transfer" /\ Rest /\ job[f].step \in Active \cup {"queued"}
BY StartsQueued
DEF JobInv, Active, Sending, SkipVanished, SkipStale, BeginPut, OpenPart, CopyPart, CheckPart, Rename,
    ConfirmFinal, FinishPut, RemoteError, RenameLost, RemovePart, CleanupError, FailPut, LedgerError

\* Every step of a transfer of f touches only f's job, f's .part and f's current
\* row, and moves those three together.
LEMMA SendingShape ==
    ASSUME TypeInv, JobInv, NEW f \in File, Sending(f)
    PROVE  /\ phase = "transfer" /\ Rest
           /\ job' \in [File -> Job]
           /\ \A g \in File \ {f} : job'[g] = job[g] /\ part'[g] = part[g]
           /\ \A k \in Key : k # <<f, job[f].rev>> => row'[k] = row[k]
           /\ Moves(job[f], row[<<f, job[f].rev>>], part[f],
                    job'[f], row'[<<f, job[f].rev>>], part'[f])
<1> DEFINE j  == job[f]
           k  == <<f, job[f].rev>>
           Goal == /\ job' \in [File -> Job]
                   /\ \A g \in File \ {f} : job'[g] = job[g] /\ part'[g] = part[g]
                   /\ \A i \in Key : i # k => row'[i] = row[i]
                   /\ Moves(j, row[k], part[f], j', row'[k], part'[f])
<1>1. /\ job \in [File -> Job] /\ row \in [Key -> Ledger!Rows]
      /\ part \in [File -> RemoteFile \cup {NoFile}]
      /\ job[f] \in Job
  BY DEF TypeInv, TypeOK, Ledger!TypeOK
<1>2. k \in Key /\ row[k] \in Ledger!Rows
  BY <1>1, SendingIsRest DEF JobInv, Job, Key, Rev
\* What one ledger statement does to the row of f.
<1>a. ASSUME Ledger!FailPut(k)
      PROVE  /\ \A i \in Key : i # k => row'[i] = row[i]
             /\ row'[k].status = "FAILED" /\ row'[k].attempts = row[k].attempts
  BY <1>1, <1>2, <1>a DEF Ledger!FailPut, Ledger!Rows
<1>b. ASSUME Ledger!FinishPut(k)
      PROVE  /\ \A i \in Key : i # k => row'[i] = row[i]
             /\ row'[k].status = "VERIFIED" /\ row'[k].attempts = row[k].attempts
  BY <1>1, <1>2, <1>b DEF Ledger!FinishPut, Ledger!Rows
<1>c. ASSUME Ledger!BeginPut(k, j.bound)
      PROVE  /\ \A i \in Key : i # k => row'[i] = row[i]
             /\ row'[k].status = "IN_PROGRESS" /\ row'[k].attempts <= j.bound
  <2>1. j.bound \in Nat
    BY <1>1, BoundAssumption DEF Job
  <2> QED BY <1>1, <1>2, <1>c, <2>1 DEF Ledger!BeginPut, Ledger!Beginnable, Ledger!Rows
\* What becomes of the job.
<1>d. ASSUME Over(f)
      PROVE  /\ job' \in [File -> Job] /\ \A g \in File \ {f} : job'[g] = job[g]
             /\ job'[f].step = "done" /\ job'[f].bound <= j.bound
  BY <1>1, <1>d, DoneTyped, BoundAssumption DEF Over, Job
<1>e. ASSUME NEW s \in Step, NEW c \in LocalFile \cup {NoFile},
             \/ job' = [job EXCEPT ![f].step = s, ![f].src = c]
             \/ To(f, s)
      PROVE  /\ job' \in [File -> Job] /\ \A g \in File \ {f} : job'[g] = job[g]
             /\ job'[f].step = s /\ job'[f].bound <= j.bound
             /\ job'[f].rev = j.rev /\ job'[f].size = j.size
  BY <1>1, <1>e, BoundAssumption DEF To, Job
<1>3. ASSUME SkipVanished(f) PROVE Goal
  <2>1. row' = row /\ part' = part /\ job[f].step = "queued" /\ Over(f)
    BY <1>3, StartsQueued DEF SkipVanished
  <2>2. row[k].status # "IN_PROGRESS"
    BY <2>1 DEF JobInv, Ledger!Beginnable
  <2> QED BY <1>d, <2>1, <2>2 DEF Moves, Active
<1>4. ASSUME SkipStale(f) PROVE Goal
  <2>1. /\ job[f].step = "queued" /\ part' = part /\ Over(f)
        /\ row' = row \/ Ledger!FailPut(k)
    BY <1>4, StartsQueued DEF SkipStale
  <2>2. row[k].status # "IN_PROGRESS"
    BY <2>1 DEF JobInv, Ledger!Beginnable
  <2> QED BY <1>a, <1>d, <2>1, <2>2 DEF Moves, Active
<1>5. ASSUME BeginPut(f) PROVE Goal
  <2>1. /\ job[f].step = "queued" /\ part' = part /\ To(f, "begun")
        /\ Ledger!BeginPut(k, j.bound)
    BY <1>5, StartsQueued DEF BeginPut
  <2> QED BY <1>c, <1>e, <2>1 DEF Moves, Step, Active
<1>6. ASSUME \/ j.step = "confirmed" /\ Ledger!FinishPut(k)
             \/ j.step = "failed" /\ Ledger!FailPut(k),
             part' = part, Over(f)
      PROVE  Goal
  BY <1>6, <1>a, <1>b, <1>d DEF Moves, Active
<1>7. ASSUME LedgerError(f) PROVE Goal
  <2>1. /\ job[f].step \in Active \cup {"queued"}
        /\ part' = part /\ row' = row /\ To(f, "lost")
    BY <1>7, StartsQueued DEF LedgerError, Active
  <2> QED BY <1>e, <2>1 DEF Moves, Step, Active
\* The steps between BeginPut and the end of the transfer.
<1>8. ASSUME NEW s \in Active, j.step \in Active,
             row' = row, \A g \in File \ {f} : part'[g] = part[g],
             \/ To(f, s)
             \/ \E c \in LocalFile \cup {NoFile} :
                  job' = [job EXCEPT ![f].step = s, ![f].src = c],
             s = "checked" => part'[f].size = j.size
      PROVE  Goal
  <2>1. row[k].status = "IN_PROGRESS"
    BY <1>8 DEF JobInv
  <2> QED BY <1>8, <1>e, <2>1 DEF Moves, Step, Active
<1>10. ASSUME OpenPart(f) \/ CopyPart(f) \/ RemoteError(f) PROVE Goal
  <2>1. local[f] \in LocalFile
    BY DEF TypeInv, TypeOK
  <2>2. \A g \in File \ {f} : part'[g] = part[g]
    BY <1>1, <1>10 DEF OpenPart, CopyPart, RemoteError
  <2>3. CASE OpenPart(f)
    BY <1>8, <2>1, <2>2, <2>3 DEF OpenPart, Active
  <2>4. CASE CopyPart(f)
    BY <1>8, <2>2, <2>4 DEF CopyPart, Active
  <2>5. CASE RemoteError(f)
    <3> DEFINE s == IF job[f].step = "renamed" THEN "failed" ELSE "failing"
    <3>1. s \in Active /\ s # "checked" /\ j.step \in Active /\ row' = row
      BY <2>5 DEF RemoteError, Active
    <3>2. job' = [job EXCEPT ![f].src = NoFile, ![f].step = s]
      BY <2>5 DEF RemoteError
    <3>3. job' = [job EXCEPT ![f].step = s, ![f].src = NoFile]
      BY <3>2, <1>1 DEF Job
    <3> HIDE DEF s
    <3> QED BY <1>8, <2>2, <3>1, <3>3
  <2> QED BY <1>10, <2>3, <2>4, <2>5
<1>11. ASSUME \/ CheckPart(f) \/ Rename(f) \/ ConfirmFinal(f)
              \/ RenameLost(f) \/ RemovePart(f) \/ CleanupError(f)
       PROVE  Goal
  <2>1. \A g \in File \ {f} : part'[g] = part[g]
    BY <1>1, <1>11 DEF CheckPart, Rename, ConfirmFinal, RenameLost, RemovePart, CleanupError, MovePart
  <2>2. CASE CheckPart(f)
    BY <1>8, <2>1, <2>2 DEF CheckPart, Active
  <2>3. CASE Rename(f) \/ ConfirmFinal(f)
    BY <1>8, <2>1, <2>3 DEF Rename, ConfirmFinal, Active
  <2>4. CASE RenameLost(f) \/ RemovePart(f) \/ CleanupError(f)
    BY <1>8, <2>1, <2>4 DEF RenameLost, RemovePart, CleanupError, Active
  <2> QED BY <1>11, <2>2, <2>3, <2>4
<1>12. Goal
  BY <1>3, <1>4, <1>5, <1>6, <1>7, <1>10, <1>11 DEF Sending, FinishPut, FailPut
<1> QED BY <1>12, SendingIsRest
\* The steps of a transfer keep the types.
LEMMA TypeSending ==
    ASSUME TypeInv, JobInv, NEW f \in File, Sending(f) PROVE TypeInv'
<1> DEFINE Files == [File -> RemoteFile \cup {NoFile}]
<1>1. /\ final \in Files /\ part \in Files /\ local \in [File -> LocalFile]
      /\ row \in [Key -> Ledger!Rows] /\ fatal \in BOOLEAN /\ dead \in BOOLEAN
      /\ faults \in 0 .. MaxFaults
  BY DEF TypeInv, TypeOK, Ledger!TypeOK
<1>2. CopyPart(f) => Copied(f) \subseteq RemoteFile
  <2> SUFFICES ASSUME CopyPart(f), NEW c \in Copied(f) PROVE c \in RemoteFile
    OBVIOUS
  <2>1. local[f].body \in Body /\ job[f].src.body \in Body
    BY <1>1 DEF CopyPart, TypeInv, SrcKnown, LocalFile
  <2>2. \A b \in Body : [body |-> b, size |-> SizeOf[b]] \in RemoteFile
    BY SizesAreNat DEF RemoteFile
  <2>3. [body : {Mixed}, size : Sizes] \subseteq RemoteFile
    BY DEF RemoteFile
  <2> QED BY <2>1, <2>2, <2>3 DEF Copied
<1>3. [body |-> Partial, size |-> 0] \in RemoteFile
  BY DEF RemoteFile
<1>4. final' \in Files /\ part' \in Files
  BY <1>1, <1>2, <1>3
  DEF Sending, SkipVanished, SkipStale, BeginPut, OpenPart, CopyPart, CheckPart, Rename,
      ConfirmFinal, FinishPut, RemoteError, RenameLost, RemovePart, CleanupError, FailPut,
      LedgerError, MovePart
<1>5. row' \in [Key -> Ledger!Rows]
  <2>1. CASE row' = row
    BY <1>1, <2>1
  <2>2. CASE Ledger!FailPut(<<f, job[f].rev>>) \/ Ledger!FinishPut(<<f, job[f].rev>>)
    BY <1>1, <2>2 DEF Ledger!FailPut, Ledger!FinishPut, Ledger!Rows, Ledger!Status
  <2>3. CASE Ledger!BeginPut(<<f, job[f].rev>>, job[f].bound)
    <3>1. job[f].bound \in 0 .. AttemptCap
      BY DEF TypeInv, TypeOK, Job
    <3>2. ASSUME <<f, job[f].rev>> \in Key
          PROVE  row[<<f, job[f].rev>>].attempts + 1 \in 0 .. AttemptCap
      BY <1>1, <2>3, <3>1, <3>2, BoundAssumption DEF Ledger!BeginPut, Ledger!Beginnable, Ledger!Rows
    <3> QED BY <1>1, <2>3, <3>2 DEF Ledger!BeginPut, Ledger!Rows, Ledger!Status
  <2> QED BY <2>1, <2>2, <2>3
  DEF Sending, SkipVanished, SkipStale, BeginPut, OpenPart, CopyPart, CheckPart, Rename,
      ConfirmFinal, FinishPut, RemoteError, RenameLost, RemovePart, CleanupError, FailPut, LedgerError
<1>6. /\ fatal' \in BOOLEAN /\ dead' \in BOOLEAN
      /\ faults' \in 0 .. MaxFaults /\ stops' = stops
  <2>1. /\ fatal' \in {fatal, TRUE} /\ dead' = dead
        /\ UNCHANGED bounds \/ Fault
    BY DEF Sending, SkipVanished, SkipStale, BeginPut, OpenPart, CopyPart, CheckPart, Rename,
           ConfirmFinal, FinishPut, RemoteError, RenameLost, RemovePart, CleanupError, FailPut,
           LedgerError, Excused
  <2>2. faults' \in 0 .. MaxFaults /\ stops' = stops
    <3>1. CASE UNCHANGED bounds
      BY <1>1, <3>1 DEF bounds
    <3>2. CASE Fault
      BY <1>1, <3>2, BoundAssumption DEF Fault
    <3> QED BY <2>1, <3>1, <3>2
  <2> QED BY <1>1, <2>1, <2>2
<1>7. SrcKnown'
  <2>1. job \in [File -> Job] /\ job[f] \in Job /\ NoJob \in Job
    BY DoneTyped DEF TypeInv, TypeOK
  <2>2. CASE OpenPart(f)
    <3>1. job'[f].src = local[f]
      BY <2>1, <2>2 DEF OpenPart, Job
    <3> QED BY <1>1, <3>1, SendingShape DEF SrcKnown, TypeInv
  <2>3. CASE ~ OpenPart(f)
    <3>1. job'[f].step # "uploading"
      BY <2>1, <2>3, DoneTyped
      DEF Sending, SkipVanished, SkipStale, BeginPut, CopyPart, CheckPart, Rename,
          ConfirmFinal, FinishPut, RemoteError, RenameLost, RemovePart, CleanupError, FailPut,
          LedgerError, To, Over, Job
    <3> QED BY <3>1, SendingShape DEF SrcKnown, TypeInv
  <2> QED BY <2>2, <2>3
<1>8. Rest /\ job' \in [File -> Job]
  BY SendingShape
<1>9. TypeOK'
  BY <1>1, <1>4, <1>5, <1>6, <1>8 DEF TypeInv, TypeOK, Ledger!TypeOK, Rest, scanned
<1>10. FactsInv'
  BY <1>8 DEF TypeInv, FactsInv, Rest, scanned
<1> QED BY <1>7, <1>9, <1>10 DEF TypeInv
-----------------------------------------------------------------------------
\* They keep the rest: another file's job, .part and row are untouched, and
\* Moves says how f's own change.
LEMMA OthersSending ==
    ASSUME CoreInv, NEW f \in File, Sending(f) PROVE Others'
<1> DEFINE j == job[f]
           k == <<f, job[f].rev>>
<1>1. /\ phase = "transfer" /\ Rest
      /\ \A g \in File \ {f} : job'[g] = job[g] /\ part'[g] = part[g]
      /\ \A i \in Key : i # k => row'[i] = row[i]
      /\ Moves(j, row[k], part[f], j', row'[k], part'[f])
      /\ j.rev # 0 /\ j.rev = common[f].rev /\ j.size = common[f].size
  BY SendingShape, SendingIsRest DEF CoreInv, JobInv
<1>2. \A g \in File : common[g].rev # 0 => Current(g) \in Key
  BY KeyOf DEF CoreInv, TypeInv
<1>6. \A g \in File \ {f} :
        job[g].step \in Active \cup {"queued"} =>
            row'[<<g, job[g].rev>>] = row[<<g, job[g].rev>>]
  BY <1>1, <1>2 DEF CoreInv, JobInv, Current
<1>7. StageInv'
  BY <1>1 DEF CoreInv, StageInv, Rest, scanned, Current
<1>3. RowsInv'
  <2>1. common' = common /\ RowsInv /\ k[2] = common[f].rev
    BY <1>1 DEF CoreInv, Rest
  <2>2. ASSUME NEW g \in File, NEW r \in Rev, r > common[g].rev
        PROVE  row'[<<g, r>>] = Ledger!NoRow
    <3>1. <<g, r>> \in Key /\ <<g, r>> # k
      BY <2>1, <2>2 DEF Key, Rev
    <3> QED BY <1>1, <2>1, <2>2, <3>1 DEF RowsInv
  <2>3. ASSUME NEW i \in Key, row'[i].status \in {"NONE", "PENDING"}
        PROVE  row'[i].attempts = 0
    BY <1>1, <2>1, <2>3 DEF RowsInv, Moves
  <2> QED BY <2>1, <2>2, <2>3 DEF RowsInv
<1>4. JobInv'
  <2>1. UNCHANGED <<common, phase>>
    BY <1>1 DEF Rest
  <2>2. ASSUME NEW g \in File
        PROVE  /\ job'[g].step \in Active \cup {"queued", "lost"} =>
                    /\ job'[g].rev # 0 /\ job'[g].rev = common[g].rev
                    /\ job'[g].size = common[g].size
               /\ job'[g].step = "checked" => part'[g].size = job'[g].size
    <3>1. CASE g = f
      BY <1>1, <3>1 DEF Moves, Active
    <3>2. CASE g # f
      BY <1>1, <3>2 DEF CoreInv, JobInv
    <3> QED BY <3>1, <3>2
  <2>3. ASSUME NEW g \in File, job'[g].step = "queued"
        PROVE  Ledger!Beginnable(<<g, job[g].rev>>, job[g].bound)'
    <3>1. g # f /\ job'[g] = job[g] /\ row'[<<g, job[g].rev>>] = row[<<g, job[g].rev>>]
      BY <1>1, <1>6, <2>3 DEF Moves, Active, CoreInv, JobInv
    <3> QED BY <2>3, <3>1 DEF CoreInv, JobInv, Ledger!Beginnable
  <2>4. ASSUME NEW g \in File, job'[g].step \in Active
        PROVE  row'[<<g, job'[g].rev>>].status = "IN_PROGRESS"
    <3>1. CASE g = f
      BY <1>1, <2>4, <3>1 DEF Moves, Active
    <3>2. CASE g # f
      <4>1. job'[g] = job[g] /\ row'[<<g, job[g].rev>>] = row[<<g, job[g].rev>>]
        BY <1>1, <1>6, <2>4, <3>2 DEF CoreInv, JobInv
      <4> QED BY <2>4, <4>1 DEF CoreInv, JobInv
    <3> QED BY <3>1, <3>2
  <2>5. ASSUME NEW i \in Key, row'[i].status = "IN_PROGRESS"
        PROVE  job'[i[1]].step \in Active \cup {"lost"} /\ job'[i[1]].rev = i[2]
    <3>1. CASE i = k
      BY <1>1, <2>5, <3>1 DEF Moves
    <3>2. CASE i # k
      <4>1. row'[i] = row[i] /\ i \in Ledger!ListInProgress
        BY <1>1, <2>5, <3>2 DEF Ledger!ListInProgress
      <4>2. job[i[1]].step \in Active \cup {"lost"} /\ job[i[1]].rev = i[2]
        BY <1>1, <4>1 DEF CoreInv, JobInv
      <4>3. i = <<i[1], i[2]>> /\ i[1] \in File
        BY DEF Key
      <4> QED BY <1>1, <3>2, <4>2, <4>3
    <3> QED BY <3>1, <3>2
  <2> QED BY <1>1, <2>1, <2>2, <2>3, <2>4, <2>5 DEF JobInv, Ledger!ListInProgress
<1>5. BudgetInv'
  <2>1. /\ row \in [Key -> Ledger!Rows] /\ \A g \in File : job[g].bound \in Nat
        /\ MaxRetries \in Nat
    BY BoundAssumption DEF CoreInv, TypeInv, TypeOK, Ledger!TypeOK, Job
  <2> SUFFICES ASSUME "manual" \notin Kinds PROVE BudgetInv'
    BY DEF BudgetInv
  <2>2. kind' # "manual"
    BY <1>1 DEF CoreInv, BudgetInv, Rest
  <2>3. ASSUME NEW i \in Key PROVE row'[i].attempts <= MaxRetries
    <3>1. CASE i = k
      <4>1. row[k].attempts <= MaxRetries /\ j.bound <= MaxRetries
        BY <3>1 DEF CoreInv, BudgetInv
      <4>2. row'[k].attempts = row[k].attempts \/ row'[k].attempts <= j.bound
        BY <1>1 DEF Moves
      <4>3. row'[k].attempts \in Nat
        BY TypeSending, <3>1 DEF CoreInv, TypeInv, TypeOK, Ledger!TypeOK, Ledger!Rows
      <4> QED BY <2>1, <3>1, <4>1, <4>2, <4>3
    <3>2. CASE i # k
      BY <1>1, <3>2 DEF CoreInv, BudgetInv
    <3> QED BY <3>1, <3>2
  <2>4. ASSUME NEW g \in File PROVE job'[g].bound <= MaxRetries
    <3>1. job'[f].bound <= j.bound /\ job'[f].bound \in Nat
      BY <1>1, SendingShape, BoundAssumption DEF CoreInv, Moves, Job
    <3> QED BY <1>1, <2>1, <3>1 DEF CoreInv, BudgetInv
  <2> QED BY <2>2, <2>3, <2>4 DEF BudgetInv
<1> QED BY <1>3, <1>4, <1>5, <1>7 DEF Others

\* A judgement that says of f what the ledger says keeps the rest.
LEMMA OthersJudged ==
    ASSUME CoreInv, TypeInv', NEW f \in File, NEW to \in {"cand", "failed", "out"},
           stage[f] = "listed", Judged(f, to),
           NEW c \in CommonRow, common' = [common EXCEPT ![f] = c], c.rev >= common[f].rev,
           to # "out" => c.rev # 0,
           to = "cand" => row[<<f, c.rev>>].status \in {"NONE", "PENDING"},
           to = "failed" => row[<<f, c.rev>>].status = "FAILED",
           \/ observed' = observed
           \/ /\ observed' = observed \cup {f}
              /\ to = "out" => c.rev # 0 /\ row[<<f, c.rev>>].status = "VERIFIED"
    PROVE  Others'
<1>1. /\ phase = "scan" /\ f \notin observed
      /\ UNCHANGED <<world, row, phase, kind, dirs, job>>
  BY DEF CoreInv, StageInv, Judged
<1>2. /\ common'[f] = c /\ \A g \in File \ {f} : common'[g] = common[g]
      /\ stage'[f] = to /\ \A g \in File \ {f} : stage'[g] = stage[g]
  BY DEF Judged, CoreInv, TypeInv, TypeOK
<1>3. StageInv'
  BY <1>1, <1>2 DEF CoreInv, StageInv, Current
<1>4. RowsInv'
  <2>1. \A g \in File : common'[g].rev >= common[g].rev /\ {common'[g].rev, common[g].rev} \subseteq Nat
    BY <1>1, <1>2, BoundAssumption DEF CoreInv, TypeInv, TypeOK, CommonRow
  <2>2. Rev \subseteq Nat
    BY DEF Rev
  <2>3. ASSUME NEW g \in File, NEW r \in Rev, r > common'[g].rev
        PROVE  row[<<g, r>>] = Ledger!NoRow
    <3>1. r > common[g].rev
      BY <2>1, <2>2, <2>3
    <3> QED BY <3>1 DEF CoreInv, RowsInv
  <2>4. row' = row /\ RowsInv
    BY <1>1 DEF CoreInv
  <2> QED BY <2>3, <2>4 DEF RowsInv
<1>5. JobInv'
  BY <1>1 DEF CoreInv, JobInv, Ledger!ListInProgress, Active, world
<1>6. BudgetInv'
  BY <1>1 DEF CoreInv, BudgetInv
<1> QED BY <1>3, <1>4, <1>5, <1>6 DEF Others

\* Each judgement is of that kind.  No row is IN_PROGRESS during the scan, so
\* what is left out as known is VERIFIED.
LEMMA OthersJudging ==
    ASSUME CoreInv, NEW f \in File, Judging(f) PROVE Others'
<1>1. /\ stage[f] = "listed" /\ phase = "scan" /\ TypeInv'
      /\ common \in [File -> CommonRow] /\ common[f] \in CommonRow
  BY TypeJudging DEF CoreInv, StageInv, TypeInv, TypeOK, Judging, JudgeKnown, JudgeUnhashed,
         JudgeTouched, JudgeChanged, JudgeUnstable, JudgeRejected
<1>2. ASSUME Classify(f), common[f].rev # 0,
             NEW c \in CommonRow, common' = [common EXCEPT ![f] = c], c.rev = common[f].rev
      PROVE  Others'
  <2> DEFINE to == CASE row[Current(f)].status \in {"NONE", "PENDING"} -> "cand"
                     [] row[Current(f)].status = "FAILED" -> "failed"
                     [] OTHER -> "out"
  <2>1. Current(f) \in Key /\ Current(f) = <<f, c.rev>>
    BY <1>2, KeyOf DEF CoreInv, TypeInv, Current
  <2>2. row[Current(f)].status \in {"NONE", "PENDING", "FAILED", "VERIFIED"}
    BY <1>1, <2>1 DEF CoreInv, TypeInv, TypeOK, Ledger!TypeOK, Ledger!Rows, Ledger!Status,
                      JobInv, Ledger!ListInProgress, Active, Key
  <2>3. Judged(f, to) /\ observed' = observed \cup {f}
    BY <1>2 DEF Classify
  <2>4. /\ to \in {"cand", "failed", "out"}
        /\ to = "cand" => row[<<f, c.rev>>].status \in {"NONE", "PENDING"}
        /\ to = "failed" => row[<<f, c.rev>>].status = "FAILED"
        /\ to = "out" => row[<<f, c.rev>>].status = "VERIFIED"
    BY <2>1, <2>2
  <2>5. c.rev >= common[f].rev
    BY <1>1, <1>2, BoundAssumption DEF CommonRow
  <2> HIDE DEF to
  <2> QED BY <1>1, <1>2, <2>3, <2>4, <2>5, OthersJudged
<1>3. CASE JudgeKnown(f)
  BY <1>1, <1>2, <1>3 DEF JudgeKnown, SameFacts
<1>4. CASE JudgeUnhashed(f)
  <2> PICK h \in Body \cup {NoHash} : SetContentHash(f, h)
    BY <1>4 DEF JudgeUnhashed
  <2> DEFINE c == [common[f] EXCEPT !.hash = h]
  <2>1. /\ c \in CommonRow /\ common' = [common EXCEPT ![f] = c]
        /\ c.rev = common[f].rev
    BY <1>1 DEF CommonRow, SetContentHash
  <2> HIDE DEF c
  <2> QED BY <1>2, <1>4, <2>1 DEF JudgeUnhashed, MayHash, SameFacts
<1>5. CASE JudgeTouched(f)
  <2> DEFINE c == [common[f] EXCEPT !.mtime = entry[f].mtime]
  <2>1. common'[f] \in CommonRow
    BY <1>1 DEF TypeInv, TypeOK
  <2>2. common' = [common EXCEPT ![f] = c] /\ c.rev = common[f].rev
    BY <1>1, <1>5 DEF JudgeTouched, TouchCommonMTime, CommonRow
  <2>3. c \in CommonRow
    BY <1>1, <2>1, <2>2
  <2> HIDE DEF c
  <2> QED BY <1>2, <1>5, <2>2, <2>3 DEF JudgeTouched, Drifted
<1>6. CASE JudgeChanged(f)
  <2> PICK h \in Body \cup {NoHash} : UpsertCommon(f, h)
    BY <1>6 DEF JudgeChanged
  <2> DEFINE c == [rev   |-> common[f].rev + 1, size |-> entry[f].size,
                   mtime |-> entry[f].mtime,    hash |-> h]
  <2>1. common' = [common EXCEPT ![f] = c] /\ c.rev = common[f].rev + 1
    BY <1>6 DEF UpsertCommon
  <2>2. common'[f] \in CommonRow
    BY <1>1 DEF TypeInv, TypeOK
  <2>3. c \in CommonRow
    BY <1>1, <2>1, <2>2
  <2>4. c.rev \in Rev /\ c.rev > common[f].rev
    BY <1>1, <2>1, <2>3, BoundAssumption DEF CommonRow, Rev
  <2>5. row[<<f, c.rev>>].status = "NONE"
    BY <2>4 DEF CoreInv, RowsInv, Ledger!NoRow
  <2>6. Judged(f, "cand") /\ observed' = observed \cup {f}
    BY <1>6 DEF JudgeChanged
  <2>7. c.rev >= common[f].rev /\ c.rev # 0
    BY <1>1, <2>4, BoundAssumption DEF CommonRow, Rev
  <2> HIDE DEF c
  <2> QED BY <1>1, <2>1, <2>3, <2>5, <2>6, <2>7, OthersJudged
<1>7. CASE JudgeUnstable(f) \/ JudgeRejected(f)
  <2>1. /\ Judged(f, "out") /\ observed' = observed
        /\ common' = [common EXCEPT ![f] = common[f]]
    BY <1>1, <1>7 DEF JudgeUnstable, JudgeRejected
  <2>2. common[f].rev >= common[f].rev
    BY <1>1, BoundAssumption DEF CommonRow
  <2> QED BY <1>1, <2>1, <2>2, OthersJudged
<1> QED BY <1>3, <1>4, <1>5, <1>6, <1>7 DEF Judging

\* The producer touches nothing the rest is about.
LEMMA OthersEdit ==
    ASSUME CoreInv, NEW f \in File, Edit(f) PROVE Others'
BY DEF CoreInv, Others, Edit, StageInv, RowsInv, JobInv, BudgetInv, ledgers, scanned,
       Current, Ledger!Beginnable, Ledger!ListInProgress

\* A new run starts empty.
LEMMA OthersStart ==
    ASSUME CoreInv, NEW k \in Kinds, StartRun(k) PROVE Others'
<1> USE DEF CoreInv, StartRun, ledgers, scanned
<1>1. phase' = "recover" /\ UNCHANGED <<part, common, row, stage, observed, job>>
  BY DEF world
<1>2. StageInv'
  BY <1>1 DEF StageInv, Current
<1>3. RowsInv' /\ BudgetInv'
  BY <1>1 DEF RowsInv, BudgetInv
<1>4. JobInv'
  BY <1>1 DEF JobInv, Ledger!Beginnable
<1> QED BY <1>2, <1>3, <1>4 DEF Others

\* Recovery ends with no row IN_PROGRESS.
LEMMA OthersRecovering ==
    ASSUME CoreInv, Recovering PROVE Others'
<1> USE DEF CoreInv, ledgers, scanned
<1>1. ASSUME phase = "recover"
      PROVE  /\ observed = {} /\ \A f \in File : stage[f] = "unseen"
             /\ \A f \in File : job[f].step = "none"
  BY <1>1 DEF StageInv, JobInv
<1>2. CASE RecoverDone
  <2>1. /\ phase' = "scan" /\ Ledger!ListInProgress = {}
        /\ UNCHANGED <<common, row, part, kind, dirs, stage, observed, job>>
    BY <1>2 DEF RecoverDone, world
  <2>2. StageInv' /\ RowsInv' /\ BudgetInv'
    BY <1>1, <1>2, <2>1 DEF RecoverDone, StageInv, RowsInv, BudgetInv, Current
  <2>3. JobInv'
    BY <1>1, <1>2, <2>1 DEF RecoverDone, JobInv, Active, Ledger!ListInProgress
  <2> QED BY <2>2, <2>3 DEF Others
<1>3. ASSUME NEW k \in Key, RemoveLeftover(k) PROVE Others'
  <2>1. UNCHANGED <<common, row, phase, kind, dirs, stage, observed, job>>
    BY <1>3 DEF RemoveLeftover
  <2>2. StageInv' /\ RowsInv' /\ BudgetInv'
    BY <2>1 DEF StageInv, RowsInv, BudgetInv, Current
  <2>3. JobInv'
    BY <1>1, <1>3, <2>1 DEF RemoveLeftover, JobInv, Active
  <2> QED BY <2>2, <2>3 DEF Others
<1>4. ASSUME NEW k \in Key, FailLeftover(k) PROVE Others'
  <2>1. /\ UNCHANGED <<common, part, phase, kind, dirs, stage, observed, job>>
        /\ phase = "recover" /\ row[k].status = "IN_PROGRESS"
    BY <1>4 DEF FailLeftover, Ledger!ListInProgress, world
  <2>2. /\ row'[k].status = "FAILED" /\ row'[k].attempts = row[k].attempts
        /\ \A i \in Key \ {k} : row'[i] = row[i]
    BY <1>4 DEF FailLeftover, TypeInv, TypeOK, Ledger!TypeOK, Ledger!Rows, Ledger!FailPut
  <2>3. StageInv'
    BY <1>1, <2>1 DEF StageInv
  <2>4. RowsInv'
    BY <2>1, <2>2 DEF RowsInv, Ledger!NoRow, Key
  <2>5. BudgetInv'
    BY <2>1, <2>2 DEF BudgetInv
  <2>6. JobInv'
    BY <1>1, <2>1 DEF JobInv, Active
  <2> QED BY <2>3, <2>4, <2>5, <2>6 DEF Others
<1> QED BY <1>2, <1>3, <1>4 DEF Recovering

\* A directory is listed once, so no judgement is undone.
LEMMA OthersListing ==
    ASSUME CoreInv, NEW d \in Dir, ListDir(d) \/ SkipDir(d) PROVE Others'
<1> USE DEF CoreInv, ledgers, scanned
<1>1. /\ phase = "scan" /\ d \in dirs /\ dirs' = dirs \ {d}
      /\ UNCHANGED <<part, common, row, phase, kind, observed, job>>
  BY DEF ListDir, SkipDir, MayList, world
<1>2. \A f \in File : \/ stage'[f] = stage[f]
                      \/ DirOf[f] = d /\ stage[f] = "unseen" /\ stage'[f] = "listed"
  <2>1. stage \in [File -> {"unseen", "listed", "cand", "failed", "out"}]
    BY DEF TypeInv, TypeOK
  <2>2. \A f \in File : DirOf[f] = d => stage[f] = "unseen"
    BY <1>1 DEF StageInv
  <2>3. CASE ListDir(d)
    BY <2>1, <2>2, <2>3 DEF ListDir
  <2>4. CASE SkipDir(d)
    BY <2>4 DEF SkipDir
  <2> QED BY <2>3, <2>4
<1>3. StageInv'
  BY <1>1, <1>2 DEF StageInv, Current
<1>4. RowsInv' /\ BudgetInv' /\ JobInv'
  BY <1>1 DEF RowsInv, BudgetInv, JobInv, Ledger!Beginnable, Ledger!ListInProgress
<1> QED BY <1>3, <1>4 DEF Others

\* A run that ends leaves only the ledgers.
LEMMA OthersStopping ==
    ASSUME CoreInv, EndRun \/ RunDies \/ Cancel \/ Abort \/ Disconnect PROVE Others'
<1> USE DEF CoreInv, ledgers, scanned
<1>1. CASE EndRun \/ RunDies
  <2>1. Forget /\ UNCHANGED <<common, row, part>>
    BY <1>1 DEF EndRun, RunDies, world
  <2>2. NoJob.step = "none" /\ NoJob.bound = 0
    BY DEF NoJob
  <2>3. StageInv' /\ RowsInv'
    BY <2>1 DEF Forget, StageInv, RowsInv
  <2>4. BudgetInv'
    BY <2>1, <2>2, BoundAssumption DEF Forget, BudgetInv
  <2>5. JobInv'
    BY <2>1, <2>2 DEF Forget, JobInv, Active
  <2> QED BY <2>3, <2>4, <2>5 DEF Others
<1>2. CASE Cancel \/ Abort \/ Disconnect
  <2>1. UNCHANGED <<common, row, part, phase, kind, dirs, stage, observed, job>>
    BY <1>2 DEF Cancel, Abort, Disconnect, Rest, world
  <2> QED BY <2>1 DEF Others, StageInv, RowsInv, JobInv, BudgetInv, Current,
                      Ledger!Beginnable, Ledger!ListInProgress
<1> QED BY <1>1, <1>2

\* The plan makes jobs whose rows BeginPut accepts.
LEMMA OthersPlan ==
    ASSUME CoreInv, PlanRun PROVE Others'
<1> DEFINE kept == Kept(Candidates, FileCap[kind])
<1> USE DEF CoreInv
<1>1. /\ phase = "scan" /\ phase' = "transfer"
      /\ UNCHANGED <<common, part, kind, dirs>>
      /\ Ledger!InsertPendingBatch({Current(f) : f \in kept})
      /\ job' = [f \in File |-> IF f \in kept THEN JobFor(f) ELSE NoJob]
      /\ stage' = [f \in File |-> "unseen"] /\ observed' = {}
  BY DEF PlanRun, world
<1>2. kept \subseteq Candidates
  BY KeptAreCandidates, BoundAssumption DEF Candidates, TypeInv, TypeOK
<1> HIDE DEF kept
<1>3. NoJob.step = "none" /\ NoJob.bound = 0
  BY DEF NoJob
<1>4. \A i \in Key : /\ row[i].status # "IN_PROGRESS" /\ row[i] \in Ledger!Rows
                     /\ row[i].status = "NONE" => row[i] = Ledger!NoRow
  BY <1>1 DEF JobInv, Ledger!ListInProgress, Active, Key, RowsInv, TypeInv, TypeOK,
              Ledger!TypeOK, Ledger!Rows, Ledger!NoRow
\* A row the plan inserts is PENDING without an attempt; no other changes.
<1>5. \A i \in Key :
        \/ row'[i] = row[i]
        \/ /\ row[i] = Ledger!NoRow /\ row'[i].status = "PENDING" /\ row'[i].attempts = 0
           /\ \E f \in kept : i = Current(f)
  BY <1>1 DEF Ledger!InsertPendingBatch
<1>6. ASSUME NEW f \in kept
      PROVE  /\ f \in File /\ common[f].rev # 0 /\ Current(f) \in Key
             /\ job'[f] = JobFor(f)
             /\ row'[Current(f)].status \in {"PENDING", "FAILED"}
             /\ row'[Current(f)].attempts < JobFor(f).bound
             /\ kind # "manual" => JobFor(f).bound = MaxRetries
  <2>1. /\ f \in File /\ Current(f) \in Key /\ common[f].rev # 0 /\ job'[f] = JobFor(f)
        /\ row[Current(f)] \in Ledger!Rows
    BY <1>1, <1>2, <1>4, CandidateFacts
  <2>2. CASE stage[f] = "cand" /\ row[Current(f)].status \in {"NONE", "PENDING"}
    <3>1. row[Current(f)].attempts = 0
      BY <2>1, <2>2 DEF RowsInv
    <3>2. row'[Current(f)].status = "PENDING" /\ row'[Current(f)].attempts = 0
      BY <1>1, <1>4, <1>5, <2>1, <2>2, <3>1 DEF Ledger!InsertPendingBatch, Ledger!NoRow
    <3>3. JobFor(f).bound = MaxRetries
      BY <2>2 DEF JobFor
    <3> QED BY <2>1, <3>2, <3>3, BoundAssumption
  <2>3. CASE stage[f] = "failed" /\ row[Current(f)].status = "FAILED" /\ Retryable(f)
    <3>1. row'[Current(f)] = row[Current(f)]
      BY <1>5, <2>1, <2>3 DEF Ledger!NoRow
    <3>2. row[Current(f)].attempts \in Nat
      BY <2>1 DEF Ledger!Rows
    <3>3. JobFor(f).bound = IF row[Current(f)].attempts >= MaxRetries
                            THEN row[Current(f)].attempts + 1 ELSE MaxRetries
      BY <2>3 DEF JobFor
    <3> QED BY <2>1, <2>3, <3>1, <3>2, <3>3, BoundAssumption DEF Retryable
  <2> QED BY <1>2, <2>1, <2>2, <2>3, CandidateFacts
<1>7. StageInv'
  BY <1>1 DEF StageInv
<1>8. RowsInv'
  <2>1. ASSUME NEW f \in File, NEW r \in Rev, r > common[f].rev
        PROVE  row'[<<f, r>>] = Ledger!NoRow
    <3>1. common[f].rev \in Nat /\ r \in Nat
      BY DEF TypeInv, TypeOK, CommonRow, Rev
    <3>2. ASSUME NEW g \in kept PROVE <<f, r>> # Current(g)
      BY <2>1, <3>1 DEF Current
    <3>3. <<f, r>> \in Key
      BY DEF Key
    <3> QED BY <1>5, <2>1, <3>2, <3>3 DEF RowsInv
  <2>2. \A i \in Key : row'[i].status \in {"NONE", "PENDING"} => row'[i].attempts = 0
    BY <1>5 DEF RowsInv
  <2> QED BY <1>1, <2>1, <2>2 DEF RowsInv
<1>9. JobInv'
  <2>1. ASSUME NEW f \in kept
        PROVE  /\ job'[f].step = "queued" /\ job'[f].rev = common[f].rev /\ job'[f].rev # 0
               /\ job'[f].size = common[f].size
               /\ Ledger!Beginnable(<<f, job[f].rev>>, job[f].bound)'
    <3>1. /\ job'[f] = JobFor(f) /\ JobFor(f).step = "queued"
          /\ JobFor(f).rev = common[f].rev /\ JobFor(f).size = common[f].size
      BY <1>6 DEF JobFor
    <3>2. <<f, job'[f].rev>> = Current(f)
      BY <3>1 DEF Current
    <3> QED BY <1>6, <3>1, <3>2 DEF Ledger!Beginnable
  <2>2. \A f \in File : f \in kept \/ job'[f].step = "none"
    BY <1>1, <1>3
  <2>3. \A i \in Key : row'[i].status # "IN_PROGRESS"
    BY <1>4, <1>5
  <2> QED BY <1>1, <2>1, <2>2, <2>3 DEF JobInv, Active, Ledger!ListInProgress
<1>10. BudgetInv'
  <2>1. \A f \in File : f \in kept \/ job'[f].bound = 0
    BY <1>1, <1>3
  <2>2. ASSUME NEW i \in Key, row[i].attempts <= MaxRetries
        PROVE  row'[i].attempts <= MaxRetries
    BY <1>5, <2>2, BoundAssumption
  <2> SUFFICES ASSUME "manual" \notin Kinds PROVE BudgetInv'
    BY DEF BudgetInv
  <2>3. kind # "manual" /\ \A i \in Key : row[i].attempts <= MaxRetries
    BY DEF BudgetInv
  <2>4. ASSUME NEW f \in File PROVE job'[f].bound <= MaxRetries
    BY <1>6, <2>1, <2>3, BoundAssumption
  <2> QED BY <1>1, <2>2, <2>3, <2>4 DEF BudgetInv
<1> QED BY <1>7, <1>8, <1>9, <1>10 DEF Others
-----------------------------------------------------------------------------
\* CoreInv holds initially.
LEMMA InvInit == Init => CoreInv
<1> SUFFICES ASSUME Init PROVE CoreInv
  OBVIOUS
<1> USE DEF Init
<1>1. NoJob \in Job /\ NoJob.step = "none" /\ NoJob.bound = 0
  BY BoundAssumption DEF NoJob, Job, Step
<1>2. local \in [File -> LocalFile]
  BY BoundAssumption DEF LocalFile
<1>3. common \in [File -> CommonRow]
  BY BoundAssumption DEF CommonRow
<1>4. row \in [Key -> Ledger!Rows] /\ \A k \in Key : row[k] = Ledger!NoRow
  BY BoundAssumption DEF Ledger!Init, Ledger!Rows, Ledger!NoRow
<1>5. TypeOK
  <2>1. /\ kind \in Kind /\ faults \in 0 .. MaxFaults /\ stops \in 0 .. MaxStops
    BY BoundAssumption DEF Kind
  <2>4. <<cancelled, fatal, dead>> \in BOOLEAN \X BOOLEAN \X BOOLEAN
    OBVIOUS
  <2>2. job \in [File -> Job]
    BY <1>1
  <2>3. /\ final \in [File -> RemoteFile \cup {NoFile}]
        /\ part \in [File -> RemoteFile \cup {NoFile}]
        /\ stage \in [File -> {"unseen", "listed", "cand", "failed", "out"}]
        /\ entry \in [File -> Facts \cup {NoFacts}]
        /\ dirs \subseteq Dir /\ observed \subseteq File
        /\ phase \in {"idle", "recover", "scan", "transfer"}
    OBVIOUS
  <2> QED BY <1>2, <1>3, <1>4, <2>1, <2>2, <2>3, <2>4 DEF TypeOK, Ledger!TypeOK
<1>6. FactsInv /\ SrcKnown
  BY <1>1, <1>2, <1>3 DEF FactsInv, SrcKnown, LocalFile
<1>7. StageInv
  BY DEF StageInv
<1>8. RowsInv
  BY <1>4 DEF RowsInv, Ledger!NoRow, Key
<1>9. JobInv
  BY <1>1 DEF JobInv, Active
<1>10. BudgetInv
  BY <1>1, <1>4, BoundAssumption DEF BudgetInv, Ledger!NoRow
<1> QED BY <1>5, <1>6, <1>7, <1>8, <1>9, <1>10 DEF CoreInv, TypeInv

\* CoreInv is inductive.
LEMMA InvNext == CoreInv /\ [Next]_vars => CoreInv'
<1> SUFFICES ASSUME CoreInv, [Next]_vars PROVE TypeInv' /\ Others'
  BY DEF CoreInv, Others
<1> USE DEF CoreInv
<1>1. ASSUME NEW f \in File, Edit(f) PROVE TypeInv' /\ Others'
  BY <1>1, TypeEdit, OthersEdit
<1>2. ASSUME NEW k \in Kinds, StartRun(k) PROVE TypeInv' /\ Others'
  BY <1>2, TypeStart, OthersStart
<1>3. CASE Recovering
  BY <1>3, TypeRecovering, OthersRecovering
<1>4. CASE Scanning
  BY <1>4, TypeListing, OthersListing, TypeJudging, OthersJudging DEF Scanning, Judging
<1>5. CASE PlanRun
  BY <1>5, TypePlan, OthersPlan
<1>6. CASE Transferring
  BY <1>6, TypeSending, OthersSending DEF Transferring, Sending
<1>7. CASE EndRun \/ RunDies \/ Cancel \/ Abort \/ Disconnect
  BY <1>7, TypeStopping, OthersStopping
<1>8. CASE UNCHANGED vars
  BY <1>8 DEF vars, world, ledgers, scanned, signals, bounds, Others,
     TypeInv, TypeOK, Ledger!TypeOK, FactsInv, SrcKnown, StageInv, RowsInv, JobInv, BudgetInv,
     Current, Ledger!Beginnable, Ledger!ListInProgress
<1> QED BY <1>1, <1>2, <1>3, <1>4, <1>5, <1>6, <1>7, <1>8 DEF Next, RunStep

\* CoreInv holds in every reachable state.
LEMMA CoreInvariant == Spec => []CoreInv
BY InvInit, InvNext, PTL DEF Spec
-----------------------------------------------------------------------------
\* Type correctness, whatever the producer, the faults and the deaths do.
THEOREM TypeCorrectRun == Spec => []TypeOK
<1>1. CoreInv => TypeOK
  BY DEF CoreInv, TypeInv
<1> QED BY <1>1, CoreInvariant, PTL

\* Once recovery is over an IN_PROGRESS row has a transfer of this run, and a
\* transfer past BeginPut has its row IN_PROGRESS.
THEOREM OwnedRows == Spec => []InProgressIsOwned
<1>1. CoreInv => InProgressIsOwned
  BY DEF CoreInv, JobInv, InProgressIsOwned
<1> QED BY <1>1, CoreInvariant, PTL

\* BeginPut always finds its candidate beginnable: ErrNotCandidate is not met.
THEOREM CandidatesBeginnable == Spec => []BeginNeverRefused
<1>1. CoreInv => BeginNeverRefused
  BY DEF CoreInv, JobInv, BeginNeverRefused
<1> QED BY <1>1, CoreInvariant, PTL

\* Without manual resends no revision is begun more than MaxRetries times.
THEOREM BudgetKept == Spec => []RetryBudgetKept
<1>1. CoreInv => RetryBudgetKept
  BY DEF CoreInv, BudgetInv, RetryBudgetKept
<1> QED BY <1>1, CoreInvariant, PTL
-----------------------------------------------------------------------------
\* Only a rename moves a .part into place, after its size was found to be the
\* one the plan took from common_ledger, which no later step rewrites.
THEOREM RenamesRegistered == Spec => FinalHasRegisteredSize
<1> DEFINE Sound == \A f \in File : final'[f] # final[f] => final'[f].size = common[f].size
<1>1. CoreInv /\ [Next]_vars => [Sound]_vars
  <2> SUFFICES ASSUME CoreInv, Next PROVE Sound
    OBVIOUS
  <2>1. ASSUME NEW f \in File, Sending(f) PROVE Sound
    <3>1. CASE Rename(f) \/ RenameLost(f)
      <4>1. job[f].step = "checked" /\ final' = [final EXCEPT ![f] = part[f]]
        BY <3>1 DEF Rename, RenameLost, MovePart
      <4>2. part[f].size = common[f].size
        BY <4>1 DEF CoreInv, JobInv, Active
      <4> QED BY <4>1, <4>2 DEF CoreInv, TypeInv, TypeOK
    <3>2. CASE ~ (Rename(f) \/ RenameLost(f))
      BY <2>1, <3>2 DEF Sending, SkipVanished, SkipStale, BeginPut, OpenPart, CopyPart, CheckPart,
         ConfirmFinal, FinishPut, RemoteError, RemovePart, CleanupError, FailPut, LedgerError
    <3> QED BY <3>1, <3>2
  <2>2. CASE ~ \E f \in File : Sending(f)
    BY <2>2 DEF Next, RunStep, Edit, StartRun, Recovering, RecoverDone, RemoveLeftover, FailLeftover,
       Scanning, ListDir, SkipDir, JudgeKnown, JudgeUnhashed, JudgeTouched, JudgeChanged,
       JudgeUnstable, JudgeRejected, Classify, Judged, PlanRun, Transferring, Sending,
       EndRun, RunDies, Cancel, Abort, Disconnect, world
  <2> QED BY <2>1, <2>2
<1> QED BY <1>1, CoreInvariant, PTL DEF Spec, FinalHasRegisteredSize

\* A regular run starts a set only with all of its required kinds: the gate,
\* the unstable hash and the cut never part them.
THEOREM SetsWhole == Spec => SetsTravelWhole
<1> DEFINE Whole == PlanRun /\ ~ Resend =>
               \A f \in File : job'[f].step = "queued" /\ SetKey(f) # NoSet =>
                  \A k \in RequiredKinds : Served(SetOf[f], k)
<1>1. CoreInv /\ [Next]_vars => [Whole]_vars
  <2> SUFFICES ASSUME CoreInv, PlanRun, ~ Resend,
                      NEW f \in File, job'[f].step = "queued", SetKey(f) # NoSet,
                      NEW k \in RequiredKinds
               PROVE  Served(SetOf[f], k)
    OBVIOUS
  <2> DEFINE kept == Kept(Candidates, FileCap[kind])
  <2>1. \A g \in File : job'[g].step = "queued" <=> g \in kept
    BY DEF PlanRun, JobFor, NoJob
  <2>2. /\ Candidates \in SUBSET File /\ FileCap[kind] \in Nat
        /\ f \in Candidates
    BY <2>1, KeptAreCandidates, BoundAssumption DEF Candidates, CoreInv, TypeInv, TypeOK
  <2>3. RequiredKinds # {} /\ SetOf[f] # NoSet /\ HoldKinds(Resend) = RequiredKinds
    BY DEF SetKey, HoldKinds
  <2>4. Complete(SetOf[f], RequiredKinds, observed)
    BY <2>2, <2>3 DEF Candidates, Holds
  <2>5. PICK g \in observed : SetOf[g] = SetOf[f] /\ KindOf[g] = k
    BY <2>4 DEF Complete
  <2>6. g \in File /\ ~ Holds(g, HoldKinds(Resend), observed) /\ SetKey(g) = SetKey(f)
    BY <2>3, <2>4, <2>5 DEF Holds, SetKey, CoreInv, TypeInv, TypeOK
  <2>7. g \in Candidates => job'[g].step = "queued"
    BY <2>1, <2>2, <2>6, KeptNeverSplits
  <2>8. \/ g \in Candidates
        \/ row[Current(g)].status = "VERIFIED"
        \/ /\ row[Current(g)].status = "FAILED" /\ ~ Retryable(g)
           /\ common[g].rev # 0
    BY <2>5, <2>6 DEF Candidates, CoreInv, StageInv
  <2>9. common[g].rev # 0 /\ ~ Retryable(g) => row[Current(g)].attempts >= MaxRetries
    BY <2>6, KeyOf, BoundAssumption
    DEF Retryable, CoreInv, TypeInv, TypeOK, Ledger!TypeOK, Ledger!Rows
  <2> QED BY <2>5, <2>6, <2>7, <2>8, <2>9 DEF Served
<1> QED BY <1>1, CoreInvariant, PTL DEF Spec, SetsTravelWhole
-----------------------------------------------------------------------------
\* A run touches put_ledger with the ledger's statements only.
LEMMA RunUsesStatements ==
    ASSUME Next
    PROVE  \/ row' = row
           \/ \E keys : Ledger!InsertPendingBatch(keys)
           \/ \E k : \/ Ledger!FailPut(k) \/ Ledger!FinishPut(k)
                     \/ \E m : Ledger!BeginPut(k, m)
<1>1. ASSUME NEW f \in File, Sending(f)
      PROVE  \/ row' = row
             \/ Ledger!FailPut(<<f, job[f].rev>>) \/ Ledger!FinishPut(<<f, job[f].rev>>)
             \/ Ledger!BeginPut(<<f, job[f].rev>>, job[f].bound)
  BY <1>1
  DEF Sending, SkipVanished, SkipStale, BeginPut, OpenPart, CopyPart, CheckPart, Rename,
      ConfirmFinal, FinishPut, RemoteError, RenameLost, RemovePart, CleanupError, FailPut, LedgerError
<1>2. CASE PlanRun
  <2>1. Ledger!InsertPendingBatch({Current(f) : f \in Kept(Candidates, FileCap[kind])})
    BY <1>2 DEF PlanRun
  <2> QED BY <2>1
<1>3. ASSUME NEW k \in Key, FailLeftover(k) PROVE Ledger!FailPut(k)
  BY <1>3 DEF FailLeftover
<1>4. CASE ~ \/ \E f \in File : Sending(f)
             \/ PlanRun
             \/ \E k \in Key : FailLeftover(k)
  BY <1>4 DEF Next, RunStep, Edit, StartRun, Recovering, RecoverDone, RemoveLeftover,
       Scanning, ListDir, SkipDir, JudgeKnown, JudgeUnhashed, JudgeTouched, JudgeChanged,
       JudgeUnstable, JudgeRejected, Classify, Judged, Transferring, Sending,
       EndRun, RunDies, Cancel, Abort, Disconnect, ledgers
<1> QED BY <1>1, <1>2, <1>3, <1>4

\* Each of those statements moves a row along a pair CanTransitionTo allows.
LEMMA RowMoves ==
    ASSUME CoreInv, Next, NEW i \in Key
    PROVE  Ledger!Machine!MayBecome(row[i].status, row'[i].status)
<1> USE DEF Ledger!Machine!MayBecome, Ledger!Machine!CanTransitionTo, Ledger!Machine!NoRow
<1>1. row \in [Key -> Ledger!Rows]
  BY DEF CoreInv, TypeInv, TypeOK, Ledger!TypeOK
<1>2. CASE row' = row
  BY <1>2
<1>3. ASSUME NEW keys, Ledger!InsertPendingBatch(keys)
      PROVE  Ledger!Machine!MayBecome(row[i].status, row'[i].status)
  BY <1>3 DEF Ledger!InsertPendingBatch, Ledger!NoRow
<1>4. ASSUME NEW k, \/ Ledger!FailPut(k) \/ Ledger!FinishPut(k)
                    \/ \E m : Ledger!BeginPut(k, m)
      PROVE  Ledger!Machine!MayBecome(row[i].status, row'[i].status)
  BY <1>1, <1>4 DEF Ledger!FailPut, Ledger!FinishPut, Ledger!BeginPut, Ledger!Beginnable, Ledger!Rows
<1> QED BY <1>2, <1>3, <1>4, RunUsesStatements

\* Whatever a run does, and wherever it dies, put_ledger implements the status
\* machine of the domain package.
THEOREM RunImplementsMachine == Spec => RowsFollowStatusMachine
<1> DEFINE status == [k \in Key |-> row[k].status]
<1>1. Init => Ledger!Machine!Init
  BY DEF Init, Ledger!Init, Ledger!NoRow, Ledger!Machine!Init, Ledger!Machine!NoRow
<1>2. CoreInv /\ CoreInv' /\ [Next]_vars => [Ledger!Machine!Next]_status
  <2> SUFFICES ASSUME CoreInv, CoreInv', Next PROVE Ledger!Machine!Next
    BY DEF vars, ledgers
  <2>1. status' \in [Key -> Ledger!Machine!Status \cup {Ledger!Machine!NoRow}]
    BY DEF CoreInv, TypeInv, TypeOK, Ledger!TypeOK, Ledger!Rows, Ledger!Status,
           Ledger!Machine!Status, Ledger!Machine!NoRow
  <2>2. \A k \in Key : Ledger!Machine!MayBecome(status[k], status'[k])
    BY RowMoves
  <2> QED BY <2>1, <2>2 DEF Ledger!Machine!Next
<1> QED
  BY <1>1, <1>2, CoreInvariant, PTL
  DEF Spec, RowsFollowStatusMachine, Ledger!RowsFollowStatusMachine, Ledger!Machine!Spec
=============================================================================
