-------------------------- MODULE StallWatchProofs --------------------------
(***************************************************************************)
(* The end of a run on a connection that may fall silent, for any number   *)
(* of workers, files and leftovers and any limit: the safety half of       *)
(* StallWatch.  The invariant counts the calls and the begun rows, says    *)
(* where the goroutines may be at each stage of main, and that the clock   *)
(* never runs ahead of the call that has waited longest.                   *)
(***************************************************************************)
EXTENDS StallWatch, FiniteSetTheorems, TLAPS

Calls    == {a \in Actor : at[a] \in InCall}
OpenRows == {w \in Worker : at[w] \in Begun}

\* The counters count.
CountInv == inFlight = Cardinality(Calls) /\ rows = Cardinality(OpenRows)

\* Some call that is out has waited as long as the clock shows.
ClockInv == Calls # {} => \E a \in Calls : waited[a] >= idle

\* Who may be where: workers only run in a transfer, the main goroutine only
\* calls in its recovery.
PlaceInv ==
    /\ at[Main] \in {"ready", "recovering", "recovered", "failed"}
    /\ main # "recover" => at[Main] \in {"ready", "failed"}
    /\ at[Main] \in {"recovering", "recovered"} => leftover > 0
    /\ main # "transfer" => \A w \in Worker : at[w] = "out"
    /\ \A w \in Worker : at[w] \notin {"recovering", "recovered"}

\* What is left to do at each stage, and when a run may call itself a success.
LeftInv ==
    /\ main \in {"recover", "scan", "transfer", "decide"} => outcome = "none" /\ locked
    /\ main = "leaving" => locked
    /\ main \in {"scan", "transfer", "decide"} => leftover = 0
    /\ main \in {"recover", "scan", "decide"} => queue = 0
    /\ main = "transfer" /\ ~cancelled => \A w \in Worker : at[w] = "out" => queue = 0
    /\ outcome = "ok" => queue = 0 /\ leftover = 0

\* The connection is cut after the run is cancelled.
CutInv ==
    /\ aborted => cancelled
    /\ watch \in {"cutting", "returned", "done"} => cancelled

SInv == TypeOK /\ CountInv /\ ClockInv /\ PlaceInv /\ LeftInv /\ CutInv
-----------------------------------------------------------------------------
\* The sets that are counted are finite.
LEMMA FiniteCounts ==
  /\ IsFiniteSet(Actor) /\ IsFiniteSet(Calls) /\ IsFiniteSet(OpenRows)
  /\ Cardinality(Calls) \in 0 .. Cardinality(Actor)
  /\ Cardinality(OpenRows) \in 0 .. Cardinality(Worker)
<1>1. IsFiniteSet(Worker) /\ IsFiniteSet(Actor)
  BY StallAssumption, FS_AddElement, FS_Union, FS_Singleton DEF Actor
<1>2. Calls \subseteq Actor /\ OpenRows \subseteq Worker
  BY DEF Calls, OpenRows
<1>3. /\ IsFiniteSet(Calls) /\ Cardinality(Calls) <= Cardinality(Actor)
      /\ IsFiniteSet(OpenRows) /\ Cardinality(OpenRows) <= Cardinality(Worker)
  BY <1>1, <1>2, FS_Subset
<1>4. /\ Cardinality(Calls) \in Nat /\ Cardinality(Actor) \in Nat
      /\ Cardinality(OpenRows) \in Nat /\ Cardinality(Worker) \in Nat
  BY <1>1, <1>3, FS_CardinalityType
<1>. QED
  BY <1>1, <1>3, <1>4

\* One goroutine moves: the counter and the clock follow.
Moves(a, s) ==
    /\ at' = [at EXCEPT ![a] = s]
    /\ \/ (at[a] \in InCall <=> s \in InCall) /\ UNCHANGED progress
       \/ /\ at[a] \in InCall /\ s \in InCall
          /\ inFlight' = inFlight /\ idle' = 0 /\ waited' = [waited EXCEPT ![a] = 0]
       \/ /\ at[a] \notin InCall /\ s \in InCall /\ inFlight' = inFlight + 1
          /\ idle' = (IF inFlight = 0 THEN 0 ELSE idle)
          /\ waited' = [waited EXCEPT ![a] = 0]
       \/ /\ at[a] \in InCall /\ s \notin InCall /\ inFlight' = inFlight - 1
          /\ idle' = 0 /\ waited' = [waited EXCEPT ![a] = 0]

\* A move keeps the calls counted and the clock behind the longest wait.
LEMMA MovesKeep ==
  ASSUME SInv, NEW a \in Actor, NEW s \in Place, Moves(a, s)
  PROVE  /\ at' \in [Actor -> Place] /\ inFlight' = Cardinality(Calls')
         /\ inFlight' \in 0 .. Cardinality(Actor)
         /\ idle' \in 0 .. Late /\ waited' \in [Actor -> 0 .. Late] /\ ClockInv'
<1>0. /\ at \in [Actor -> Place] /\ at' = [at EXCEPT ![a] = s]
      /\ inFlight \in Nat /\ idle \in 0 .. Late /\ waited \in [Actor -> 0 .. Late]
      /\ inFlight = Cardinality(Calls) /\ 0 \in 0 .. Late
      /\ Calls # {} => \E b \in Calls : waited[b] >= idle
  BY FS_CardinalityType, FiniteCounts, StallAssumption
     DEF SInv, TypeOK, Moves, CountInv, ClockInv, Late
<1>1. Calls' = IF s \in InCall THEN Calls \cup {a} ELSE Calls \ {a}
  BY <1>0 DEF Calls
<1>2. a \in Calls <=> at[a] \in InCall
  BY DEF Calls
<1>3. inFlight' = Cardinality(Calls')
  <2>1. CASE (at[a] \in InCall <=> s \in InCall) /\ inFlight' = inFlight
    <3>1. Calls' = Calls
      BY <1>1, <1>2, <2>1
    <3>. QED
      BY <1>0, <2>1, <3>1
  <2>2. CASE at[a] \notin InCall /\ s \in InCall /\ inFlight' = inFlight + 1
    BY <1>0, <1>1, <1>2, <2>2, FiniteCounts, FS_AddElement
  <2>3. CASE at[a] \in InCall /\ s \notin InCall /\ inFlight' = inFlight - 1
    BY <1>0, <1>1, <1>2, <2>3, FiniteCounts, FS_RemoveElement
  <2>. QED
    BY <2>1, <2>2, <2>3 DEF Moves, progress
<1>4. inFlight' \in 0 .. Cardinality(Actor)
  <2>1. Calls' \subseteq Actor
    BY DEF Calls
  <2>2. /\ Cardinality(Calls') <= Cardinality(Actor)
        /\ Cardinality(Calls') \in Nat /\ Cardinality(Actor) \in Nat
    BY <2>1, FiniteCounts, FS_Subset, FS_CardinalityType
  <2>. QED
    BY <1>3, <2>2
<1>5. /\ at' \in [Actor -> Place] /\ idle' \in 0 .. Late
      /\ waited' \in [Actor -> 0 .. Late]
  BY <1>0 DEF Moves, progress
<1>6. ClockInv'
  <2>1. CASE idle' = 0
    BY <1>5, <2>1 DEF ClockInv, Calls
  <2>2. CASE idle' = idle /\ waited' = waited /\ Calls' = Calls
    BY <1>0, <2>2 DEF ClockInv
  <2>3. CASE /\ at[a] \notin InCall /\ s \in InCall /\ inFlight # 0 /\ idle' = idle
             /\ waited' = [waited EXCEPT ![a] = 0]
    <3>1. Calls # {}
      BY <1>0, <2>3, FS_EmptySet
    <3>2. PICK b \in Calls : waited[b] >= idle
      BY <1>0, <3>1
    <3>3. b # a /\ b \in Calls' /\ b \in Actor
      BY <1>1, <1>2, <2>3 DEF Calls
    <3>4. waited'[b] = waited[b]
      BY <1>0, <2>3, <3>3
    <3>. QED
      BY <2>3, <3>2, <3>3, <3>4 DEF ClockInv
  <2>. QED
    BY <1>1, <1>2, <2>1, <2>2, <2>3 DEF Moves, progress
<1>. QED
  BY <1>3, <1>4, <1>5, <1>6

\* A worker moves: the begun rows follow.
LEMMA RowsKeep ==
  ASSUME SInv, NEW w \in Worker, NEW s \in Place, at' = [at EXCEPT ![w] = s],
         \/ (at[w] \in Begun <=> s \in Begun) /\ rows' = rows
         \/ at[w] \notin Begun /\ s \in Begun /\ rows' = rows + 1
         \/ at[w] \in Begun /\ s \notin Begun /\ rows' = rows - 1
  PROVE  rows' = Cardinality(OpenRows') /\ rows' \in 0 .. Cardinality(Worker)
<1>0. /\ at \in [Actor -> Place] /\ rows = Cardinality(OpenRows) /\ w \in Actor
  BY DEF SInv, TypeOK, CountInv, Actor
<1>1. OpenRows' = IF s \in Begun THEN OpenRows \cup {w} ELSE OpenRows \ {w}
  BY <1>0 DEF OpenRows, Actor
<1>2. w \in OpenRows <=> at[w] \in Begun
  BY DEF OpenRows
<1>3. rows' = Cardinality(OpenRows')
  <2>1. CASE (at[w] \in Begun <=> s \in Begun) /\ rows' = rows
    <3>1. OpenRows' = OpenRows
      BY <1>1, <1>2, <2>1
    <3>. QED
      BY <1>0, <2>1, <3>1
  <2>2. CASE at[w] \notin Begun /\ s \in Begun /\ rows' = rows + 1
    BY <1>0, <1>1, <1>2, <2>2, FiniteCounts, FS_AddElement
  <2>3. CASE at[w] \in Begun /\ s \notin Begun /\ rows' = rows - 1
    BY <1>0, <1>1, <1>2, <2>3, FiniteCounts, FS_RemoveElement
  <2>. QED
    BY <2>1, <2>2, <2>3
<1>4. OpenRows' \subseteq Worker
  BY DEF OpenRows
<1>5. /\ Cardinality(OpenRows') <= Cardinality(Worker)
      /\ Cardinality(OpenRows') \in Nat /\ Cardinality(Worker) \in Nat
  BY <1>4, StallAssumption, FS_Subset, FS_CardinalityType
<1>. QED
  BY <1>3, <1>5
-----------------------------------------------------------------------------
\* What a worker's step from at[w] to s may do.
WorkerStep(w, s) ==
    /\ Moves(w, s)
    /\ \/ (at[w] \in Begun <=> s \in Begun) /\ rows' = rows
       \/ at[w] \notin Begun /\ s \in Begun /\ rows' = rows + 1
       \/ at[w] \in Begun /\ s \notin Begun /\ rows' = rows - 1
    /\ at[w] # "out" /\ s \notin {"recovering", "recovered"}
    /\ s = "out" => cancelled \/ queue' = 0
    /\ at[w] = "taken" /\ s = "beginning" => ~cancelled
    /\ queue' \in 0 .. Files /\ (queue' = queue \/ queue > 0)
    /\ chunk' \in [Actor -> 0 .. Chunks] /\ failed' \in BOOLEAN /\ verified' \in BOOLEAN
    /\ UNCHANGED <<leftover, command, main, pass, outcome, watch, signals, locked>>

\* Every action of a worker is such a step.
LEMMA WorkerShape ==
  ASSUME SInv, NEW w \in Worker, Worked(w)
  PROVE  \E s \in Place : WorkerStep(w, s)
<1>. USE DEF WorkerStep, Moves, Begun, InCall, Blocked, Place, work, stage, progress
<1>0. /\ at \in [Actor -> Place] /\ w \in Actor /\ queue \in 0 .. Files
      /\ chunk \in [Actor -> 0 .. Chunks] /\ failed \in BOOLEAN /\ verified \in BOOLEAN
  BY DEF SInv, TypeOK, Actor
<1>1. CASE Take(w)
  <2>1. queue' \in 0 .. Files /\ queue > 0
    <3>1. queue \in 0 .. Files /\ queue > 0 /\ queue' = queue - 1
      BY <1>0, <1>1 DEF Take
    <3>. QED
      BY <3>1, StallAssumption
  <2>2. at[w] = "ready" /\ Moves(w, "taken")
    BY <1>1 DEF Take
  <2>3. WorkerStep(w, "taken")
    BY <1>0, <1>1, <2>1, <2>2 DEF Take
  <2>. QED
    BY <2>3
<1>2. CASE Quit(w)
  <2>1. at[w] = "ready" /\ Moves(w, "out")
    BY <1>2 DEF Quit
  <2>2. WorkerStep(w, "out")
    BY <1>0, <1>2, <2>1 DEF Quit
  <2>. QED
    BY <2>2
<1>3. CASE Begin(w)
  <2>1. \E s \in {"out", "ready", "beginning"} :
           /\ at' = [at EXCEPT ![w] = s] /\ (s = "out" => cancelled)
           /\ s = "beginning" => ~cancelled
    BY <1>3 DEF Begin
  <2>2. /\ at[w] = "taken"
        /\ UNCHANGED <<progress, chunk, queue, rows, leftover, stage, watch, signals, locked>>
    BY <1>3 DEF Begin
  <2>. QED
    BY <1>0, <2>1, <2>2
<1>13. CASE BeginPut(w)
  <2>1. chunk' \in [Actor -> 0 .. Chunks]
    BY <1>0, <1>13, StallAssumption DEF BeginPut
  <2>2. CASE at'[w] = "begun"
    BY <1>0, <1>13, <2>1, <2>2 DEF BeginPut
  <2>3. CASE at'[w] = "out"
    BY <1>0, <1>13, <2>1, <2>3 DEF BeginPut
  <2>4. CASE at'[w] = "ready"
    BY <1>0, <1>13, <2>1, <2>4 DEF BeginPut
  <2>. QED
    BY <1>0, <1>13, <2>2, <2>3, <2>4 DEF BeginPut
<1>4. CASE UploadCall(w)
  BY <1>0, <1>4 DEF UploadCall, Ask, Enter
<1>5. CASE Beat(w)
  <2>1. at[w] = "uploading" /\ Moves(w, "between")
    BY <1>5 DEF Beat
  <2>2. WorkerStep(w, "between")
    BY <1>0, <1>5, <2>1 DEF Beat
  <2>. QED
    BY <2>2
<1>6. CASE UploadError(w)
  <2>1. at[w] = "uploading" /\ Moves(w, "failing")
    BY <1>6 DEF UploadError, Exit
  <2>2. WorkerStep(w, "failing")
    BY <1>0, <1>6, <2>1 DEF UploadError
  <2>. QED
    BY <2>2
<1>7. CASE NextChunk(w)
  <2>1. chunk' \in [Actor -> 0 .. Chunks]
    <3>1. chunk' = chunk \/ (chunk[w] > 0 /\ chunk' = [chunk EXCEPT ![w] = chunk[w] - 1])
      BY <1>7 DEF NextChunk
    <3>2. chunk[w] > 0 => chunk[w] - 1 \in 0 .. Chunks
      BY <1>0, StallAssumption
    <3>. QED
      BY <1>0, <3>1, <3>2
  <2>2. \E s \in {"closing", "uploading"} : at' = [at EXCEPT ![w] = s] /\ at[w] = "between"
    BY <1>7 DEF NextChunk
  <2>. QED
    BY <1>0, <1>7, <2>1, <2>2 DEF NextChunk
<1>8. CASE UploadEnds(w)
  BY <1>0, <1>8 DEF UploadEnds, Answer, Exit
<1>9. CASE Rename(w)
  <2>1. CASE Ask(w, "uploaded", "renaming", "failing")
    BY <1>0, <1>9, <2>1 DEF Rename, Ask, Enter
  <2>2. CASE Answer(w, "renaming", "renamed", "failing")
    BY <1>0, <1>9, <2>2 DEF Rename, Answer, Exit
  <2>. QED
    BY <1>9, <2>1, <2>2 DEF Rename
<1>10. CASE Check(w)
  <2>1. CASE Ask(w, "renamed", "checking", "failed")
    BY <1>0, <1>10, <2>1 DEF Check, Ask, Enter
  <2>2. CASE Answer(w, "checking", "verified", "failed")
    BY <1>0, <1>10, <2>2 DEF Check, Answer, Exit
  <2>. QED
    BY <1>10, <2>1, <2>2 DEF Check
<1>11. CASE Cleanup(w)
  <2>1. CASE at[w] = "failing" /\ Enter(w, "removing")
    <3>1. Moves(w, "removing")
      BY <2>1 DEF Enter
    <3>2. WorkerStep(w, "removing")
      BY <1>0, <1>11, <2>1, <3>1 DEF Cleanup
    <3>. QED
      BY <3>2
  <2>2. CASE Answer(w, "removing", "failed", "failed")
    BY <1>0, <1>11, <2>2 DEF Cleanup, Answer, Exit
  <2>. QED
    BY <1>11, <2>1, <2>2 DEF Cleanup
<1>12. CASE Record(w)
  <2>1. failed' \in BOOLEAN /\ verified' \in BOOLEAN
    BY <1>0, <1>12 DEF Record
  <2>2. \E s \in {"out", "ready"} : at' = [at EXCEPT ![w] = s] /\ (s = "out" => cancelled)
    BY <1>12 DEF Record
  <2>3. /\ at[w] \in {"failed", "verified"} /\ rows' = rows - 1
        /\ UNCHANGED <<progress, chunk, queue, leftover, command, main, pass, outcome,
                       watch, signals, locked>>
    BY <1>12 DEF Record
  <2>. QED
    BY <1>0, <2>1, <2>2, <2>3
<1>. QED
  BY <1>1, <1>2, <1>3, <1>4, <1>5, <1>6, <1>7, <1>8, <1>9, <1>10, <1>11, <1>12,
     <1>13 DEF Worked

\* A worker's step keeps the invariant.
LEMMA WorkerKeeps ==
  ASSUME SInv, NEW w \in Worker, Worked(w)
  PROVE  SInv'
<1>1. PICK s \in Place : WorkerStep(w, s)
  BY WorkerShape
<1>2. w \in Actor /\ w # Main /\ Main \in Actor /\ at \in [Actor -> Place]
  BY StallAssumption DEF SInv, TypeOK, Actor
<1>3. /\ at' = [at EXCEPT ![w] = s] /\ at[w] # "out" /\ main = "transfer"
      /\ UNCHANGED <<leftover, command, main, pass, outcome, watch, cancelled, stalled,
                     aborted, locked>>
  BY <1>1 DEF WorkerStep, Moves, SInv, PlaceInv, signals
<1>4. /\ at' \in [Actor -> Place] /\ inFlight' = Cardinality(Calls')
      /\ inFlight' \in 0 .. Cardinality(Actor)
      /\ idle' \in 0 .. Late /\ waited' \in [Actor -> 0 .. Late] /\ ClockInv'
  BY <1>1, <1>2, MovesKeep DEF WorkerStep
<1>5. rows' = Cardinality(OpenRows') /\ rows' \in 0 .. Cardinality(Worker)
  BY <1>1, <1>3, RowsKeep DEF WorkerStep
<1>6. TypeOK'
  BY <1>1, <1>3, <1>4, <1>5 DEF WorkerStep, SInv, TypeOK
<1>7. PlaceInv'
  BY <1>1, <1>2, <1>3 DEF WorkerStep, SInv, PlaceInv, Actor
<1>8. LeftInv'
  <2>1. outcome' = "none" /\ leftover' = 0 /\ locked'
    BY <1>3 DEF SInv, LeftInv
  <2>2. ASSUME ~cancelled, NEW v \in Worker, at'[v] = "out" PROVE queue' = 0
    <3>1. CASE v = w
      BY <1>1, <1>2, <1>3, <2>2, <3>1 DEF WorkerStep
    <3>2. CASE v # w
      BY <1>1, <1>2, <1>3, <2>2, <3>2 DEF WorkerStep, SInv, LeftInv, TypeOK, Actor
    <3>. QED
      BY <3>1, <3>2
  <2>. QED
    BY <1>3, <2>1, <2>2 DEF LeftInv
<1>9. CutInv'
  BY <1>3 DEF SInv, CutInv
<1>. QED
  BY <1>4, <1>5, <1>6, <1>7, <1>8, <1>9 DEF SInv, CountInv
-----------------------------------------------------------------------------
\* A step in which no goroutine moves and no time passes leaves the counts alone.
LEMMA StillKeeps ==
  ASSUME SInv, UNCHANGED <<at, progress, rows>>
  PROVE  CountInv' /\ ClockInv'
<1>1. Calls' = Calls /\ OpenRows' = OpenRows
  BY DEF Calls, OpenRows
<1>. QED
  BY <1>1 DEF SInv, CountInv, ClockInv, progress

\* The main goroutine's calls, all of them in the recovery.
LEMMA RecoveryKeeps ==
  ASSUME SInv, RecoverCall \/ RecoverAnswer \/ RecoverRow
  PROVE  SInv'
<1>0. /\ Main \in Actor /\ Main \notin Worker /\ at \in [Actor -> Place]
      /\ leftover \in 0 .. Leftovers /\ OpenRows' \subseteq Worker
  BY StallAssumption DEF SInv, TypeOK, Actor, OpenRows
<1>1. PICK s \in {"recovering", "failed", "recovered", "ready"} :
        /\ Moves(Main, s) /\ main = "recover"
        /\ s \in {"recovering", "recovered"} => leftover' > 0
  <2>. USE <1>0 DEF Moves, InCall, Blocked, progress
  <2>1. CASE RecoverCall
    <3>1. CASE cancelled
      BY <2>1, <3>1 DEF RecoverCall, Ask
    <3>2. CASE ~cancelled
      <4>1. Moves(Main, "recovering") /\ leftover' > 0 /\ main = "recover"
        BY <2>1, <3>2 DEF RecoverCall, Ask, Enter
      <4>. QED
        BY <4>1
    <3>. QED
      BY <3>1, <3>2
  <2>2. CASE RecoverAnswer
    <3>1. main = "recover" /\ leftover > 0 /\ leftover' = leftover
      BY <2>2 DEF RecoverAnswer, Answer, SInv, PlaceInv
    <3>2. Moves(Main, "recovered") \/ Moves(Main, "failed")
      BY <2>2 DEF RecoverAnswer, Answer, Exit
    <3>. QED
      BY <3>1, <3>2
  <2>3. CASE RecoverRow
    <3>1. main = "recover" /\ Moves(Main, "ready")
      BY <2>3 DEF RecoverRow, SInv, PlaceInv
    <3>. QED
      BY <3>1
  <2>. QED
    BY <2>1, <2>2, <2>3
<1>2. leftover' \in 0 .. Leftovers
  <2>1. CASE RecoverRow
    <3>1. leftover > 0 /\ leftover' = leftover - 1
      BY <2>1 DEF RecoverRow, SInv, PlaceInv
    <3>. QED
      BY <1>0, <3>1, StallAssumption
  <2>2. CASE RecoverCall \/ RecoverAnswer
    BY <1>0, <2>2 DEF RecoverCall, RecoverAnswer
  <2>. QED
    BY <2>1, <2>2
<1>3. /\ at' = [at EXCEPT ![Main] = s]
      /\ UNCHANGED <<chunk, queue, rows, stage, watch, signals, locked>>
  BY <1>1 DEF Moves, RecoverCall, RecoverAnswer, RecoverRow
<1>4. /\ at' \in [Actor -> Place] /\ inFlight' = Cardinality(Calls')
      /\ inFlight' \in 0 .. Cardinality(Actor)
      /\ idle' \in 0 .. Late /\ waited' \in [Actor -> 0 .. Late] /\ ClockInv'
  <2>1. s \in Place
    BY DEF Place, Begun
  <2>. QED
    BY <1>0, <1>1, <2>1, MovesKeep
<1>5. \A w \in Worker : at'[w] = at[w]
  BY <1>0, <1>3 DEF Actor
<1>6. rows' = Cardinality(OpenRows')
  <2>1. OpenRows' = OpenRows
    BY <1>5 DEF OpenRows
  <2>. QED
    BY <1>3, <2>1 DEF SInv, CountInv
<1>7. TypeOK'
  BY <1>2, <1>3, <1>4 DEF SInv, TypeOK, stage, signals
<1>8. PlaceInv'
  BY <1>0, <1>1, <1>3, <1>5 DEF SInv, PlaceInv, stage
<1>9. LeftInv' /\ CutInv'
  BY <1>1, <1>3 DEF SInv, LeftInv, CutInv, stage, signals
<1>. QED
  BY <1>4, <1>6, <1>7, <1>8, <1>9 DEF SInv, CountInv

\* The rest of what the main goroutine does, up to its last deferred call.
LEMMA StagesKeep ==
  ASSUME SInv, RecoverEnds \/ TransferEnds \/ Decide \/ Release \/ StopWatch \/ Close
  PROVE  SInv'
<1>. USE DEF RecoverEnds, TransferEnds, Decide, Release, StopWatch, Close, Leave, signals
<1>1. UNCHANGED <<work, progress, watch, stalled, aborted>>
  OBVIOUS
<1>2. CountInv' /\ ClockInv'
  BY <1>1, StillKeeps DEF work
<1>3. TypeOK'
  <2>1. /\ main' \in {"recover", "scan", "transfer", "decide", "leaving",
                     "unlocked", "joining", "closing", "ended"}
        /\ outcome' \in {"none", "ok", "error"} /\ pass' \in 1 .. 2
        /\ UNCHANGED <<command, failed, verified>>
    BY DEF SInv, TypeOK
  <2>2. cancelled' \in BOOLEAN /\ locked' \in BOOLEAN
    BY DEF SInv, TypeOK
  <2>. QED
    BY <1>1, <2>1, <2>2 DEF SInv, TypeOK, work, progress
<1>4. PlaceInv'
  BY <1>1 DEF SInv, PlaceInv, work
<1>5. LeftInv'
  <2>1. CASE TransferEnds
    <3>1. \E w \in Worker : at[w] = "out"
      BY <2>1, StallAssumption
    <3>. QED
      BY <1>1, <2>1, <3>1 DEF SInv, LeftInv, work
  <2>2. CASE RecoverEnds \/ Decide
    BY <1>1, <2>2 DEF SInv, LeftInv, work
  <2>3. CASE Release \/ StopWatch \/ Close
    BY <1>1, <2>3 DEF SInv, LeftInv, work, LockFirst
  <2>. QED
    BY <2>1, <2>2, <2>3
<1>6. CutInv'
  BY <1>1 DEF SInv, CutInv
<1>. QED
  BY <1>2, <1>3, <1>4, <1>5, <1>6 DEF SInv

\* A pool starts with all its workers ready, or there is nothing to send.
LEMMA ScanKeeps ==
  ASSUME SInv, Scan
  PROVE  SInv'
<1>. USE DEF Scan, signals
<1>0. /\ \A w \in Worker : at[w] = "out" /\ w \in Actor /\ w # Main
      /\ at \in [Actor -> Place] /\ Main \in Actor
      /\ UNCHANGED <<progress, rows>>
  BY StallAssumption DEF SInv, PlaceInv, TypeOK, Actor
<1>1. CASE UNCHANGED at
  <2>1. CountInv' /\ ClockInv'
    BY <1>0, <1>1, StillKeeps
  <2>2. TypeOK'
    BY <1>0, <1>1, StallAssumption DEF SInv, TypeOK, progress, Leave
  <2>3. PlaceInv'
    BY <1>0, <1>1 DEF SInv, PlaceInv, Leave
  <2>4. LeftInv' /\ CutInv'
    BY <1>0, <1>1 DEF SInv, LeftInv, CutInv, Leave
  <2>. QED
    BY <2>1, <2>2, <2>3, <2>4 DEF SInv
<1>2. CASE /\ main' = "transfer" /\ queue' \in 1 .. Files /\ UNCHANGED outcome
           /\ at' = [a \in Actor |-> IF a \in Worker THEN "ready" ELSE at[a]]
  <2>1. \A w \in Worker : at'[w] = "ready"
    BY <1>0, <1>2
  <2>2. at'[Main] = at[Main]
    BY <1>0, <1>2, StallAssumption
  <2>3. at' \in [Actor -> Place]
    BY <1>0, <1>2 DEF Place
  <2>4. Calls' = Calls /\ OpenRows' = OpenRows
    BY <1>0, <1>2, <2>1, <2>2 DEF Calls, OpenRows, Actor, InCall, Blocked, Begun
  <2>5. CountInv' /\ ClockInv'
    BY <1>0, <2>4 DEF SInv, CountInv, ClockInv, progress
  <2>6. queue' \in 0 .. Files
    BY <1>2, StallAssumption
  <2>7. TypeOK'
    BY <1>0, <1>2, <2>3, <2>6 DEF SInv, TypeOK, progress
  <2>8. PlaceInv'
    BY <1>2, <2>1, <2>2 DEF SInv, PlaceInv
  <2>9. LeftInv' /\ CutInv'
    BY <1>2, <2>1 DEF SInv, LeftInv, CutInv
  <2>. QED
    BY <2>5, <2>7, <2>8, <2>9 DEF SInv
<1>. QED
  BY <1>1, <1>2

\* The watchdog and the operator cancel before anyone cuts.
LEMMA SignalsKeep ==
  ASSUME SInv, Watch \/ Interrupt
  PROVE  SInv'
<1>. USE DEF Watch, Poll, OnStall, WatchStops, WatchEnds, Interrupt, signals
<1>1. UNCHANGED <<work, progress, stage, locked>>
  OBVIOUS
<1>2. CountInv' /\ ClockInv'
  BY <1>1, StillKeeps DEF work
<1>3. TypeOK'
  <2>1. watch' \in {"polling", "judged", "marked", "cutting", "returned", "done"}
    BY DEF SInv, TypeOK
  <2>2. cancelled' \in BOOLEAN /\ stalled' \in BOOLEAN /\ aborted' \in BOOLEAN
    BY DEF SInv, TypeOK
  <2>. QED
    BY <1>1, <2>1, <2>2 DEF SInv, TypeOK, work, progress, stage
<1>4. PlaceInv'
  BY <1>1 DEF SInv, PlaceInv, work, stage
<1>5. CutInv'
  BY DEF SInv, CutInv
<1>6. LeftInv'
  <2>1. cancelled => cancelled'
    OBVIOUS
  <2>. QED
    BY <1>1, <2>1 DEF SInv, LeftInv, work, stage
<1>. QED
  BY <1>2, <1>3, <1>4, <1>5, <1>6 DEF SInv

\* Time passes for the clock and for every call that is out alike.
LEMMA TickKeeps ==
  ASSUME SInv, Tick
  PROVE  SInv'
<1>1. /\ idle' = (IF idle < Late THEN idle + 1 ELSE idle)
      /\ waited' = [a \in Actor |-> IF at[a] \in InCall /\ waited[a] < Late
                                    THEN waited[a] + 1 ELSE waited[a]]
      /\ UNCHANGED <<inFlight, work, stage, watch, signals, locked>>
  BY DEF Tick
<1>2. idle \in 0 .. Late /\ waited \in [Actor -> 0 .. Late] /\ Late \in Nat
  BY StallAssumption DEF SInv, TypeOK, Late
<1>3. idle' \in 0 .. Late /\ waited' \in [Actor -> 0 .. Late]
  BY <1>1, <1>2
<1>4. Calls' = Calls /\ OpenRows' = OpenRows
  BY <1>1 DEF Calls, OpenRows, work
<1>5. CountInv'
  BY <1>1, <1>4 DEF SInv, CountInv, work
<1>6. ClockInv'
  <2>. SUFFICES ASSUME Calls # {} PROVE \E a \in Calls : waited'[a] >= idle'
    BY <1>4 DEF ClockInv
  <2>1. PICK a \in Calls : waited[a] >= idle
    BY DEF SInv, ClockInv
  <2>2. a \in Actor /\ at[a] \in InCall /\ waited[a] \in 0 .. Late
    BY <1>2 DEF Calls
  <2>3. waited'[a] = IF waited[a] < Late THEN waited[a] + 1 ELSE waited[a]
    BY <1>1, <2>2
  <2>4. waited'[a] >= idle'
    BY <1>1, <1>2, <2>1, <2>2, <2>3
  <2>. QED
    BY <2>4
<1>7. TypeOK'
  BY <1>1, <1>3 DEF SInv, TypeOK, work, stage, signals
<1>8. PlaceInv' /\ LeftInv' /\ CutInv'
  BY <1>1 DEF SInv, PlaceInv, LeftInv, CutInv, work, stage, signals
<1>. QED
  BY <1>5, <1>6, <1>7, <1>8 DEF SInv

\* A run starts in the invariant.
LEMMA SInvInit == Init => SInv
<1>. SUFFICES ASSUME Init PROVE SInv
  OBVIOUS
<1>. USE StallAssumption DEF Init
<1>1. Calls = {} /\ OpenRows = {}
  BY DEF Calls, OpenRows, InCall, Blocked, Begun, Actor
<1>2. Cardinality(Actor) \in Nat /\ Cardinality(Worker) \in Nat
  BY FiniteCounts, FS_CardinalityType
<1>3. CountInv /\ ClockInv
  BY <1>1, FS_EmptySet DEF CountInv, ClockInv
<1>4. at \in [Actor -> Place]
  BY DEF Place
<1>5. TypeOK
  <2>1. pass \in 1 .. 2 /\ chunk \in [Actor -> 0 .. Chunks] /\ leftover \in 0 .. Leftovers
    BY DEF LockFirst
  <2>2. /\ inFlight \in 0 .. Cardinality(Actor) /\ rows \in 0 .. Cardinality(Worker)
        /\ idle \in 0 .. Late /\ waited \in [Actor -> 0 .. Late] /\ queue \in 0 .. Files
    BY <1>2 DEF Late
  <2>. QED
    BY <1>4, <2>1, <2>2 DEF TypeOK
<1>6. PlaceInv /\ LeftInv /\ CutInv
  BY DEF PlaceInv, LeftInv, CutInv, Actor
<1>. QED
  BY <1>3, <1>5, <1>6 DEF SInv

\* Every step of a run keeps the invariant.
LEMMA SInvNext == SInv /\ [Next]_vars => SInv'
<1>1. ASSUME SInv, Next PROVE SInv'
  <2>1. CASE \E w \in Worker : Worked(w)
    BY <1>1, <2>1, WorkerKeeps
  <2>2. CASE Coordinate
    BY <1>1, <2>2, RecoveryKeeps, StagesKeep, ScanKeeps DEF Coordinate
  <2>3. CASE Watch \/ Interrupt
    BY <1>1, <2>3, SignalsKeep
  <2>4. CASE Tick
    BY <1>1, <2>4, TickKeeps
  <2>5. CASE UNCHANGED vars
    BY <1>1, <2>5, StillKeeps
       DEF SInv, TypeOK, PlaceInv, LeftInv, CutInv, vars, progress, work, stage, signals
  <2>. QED
    BY <1>1, <2>1, <2>2, <2>3, <2>4, <2>5 DEF Next, Ended
<1>2. ASSUME SInv, UNCHANGED vars PROVE SInv'
  BY <1>2, StillKeeps
     DEF SInv, TypeOK, PlaceInv, LeftInv, CutInv, vars, progress, work, stage, signals
<1>. QED
  BY <1>1, <1>2

\* The invariant holds in every reachable state.
LEMMA SInvAlways == Spec => []SInv
  BY SInvInit, SInvNext, PTL DEF Spec
-----------------------------------------------------------------------------
\* The types, and that the progress counter never leaks a call or loses one.
THEOREM CountersAreRight == Spec => []TypeOK
<1>. SInv => TypeOK
  BY DEF SInv
<1>. QED
  BY SInvAlways, PTL

\* A run that reports success has nothing left over (Transfer's last look at
\* its context, run).
THEOREM CleanExitComplete == Spec => []CleanExitIsComplete
<1>1. ASSUME SInv PROVE CleanExitIsComplete
  <2>. SUFFICES ASSUME outcome = "ok" PROVE
                  /\ queue = 0 /\ rows = 0 /\ leftover = 0
                  /\ \A w \in Worker : at[w] = "out"
    BY DEF CleanExitIsComplete
  <2>1. queue = 0 /\ leftover = 0 /\ main # "transfer"
    BY <1>1 DEF SInv, LeftInv
  <2>2. \A w \in Worker : at[w] = "out"
    BY <1>1, <2>1 DEF SInv, PlaceInv
  <2>3. OpenRows = {}
    BY <2>2 DEF OpenRows, Begun, InCall, Blocked
  <2>. QED
    BY <1>1, <2>1, <2>2, <2>3, FS_EmptySet DEF SInv, CountInv
<1>. QED
  BY <1>1, SInvAlways, PTL

\* The lock is given up with no call out and no row half done (wg.Wait,
\* failOne, the deferred calls).
THEOREM SettledBeforeRelease == Spec => []ReleasedAfterSettled
<1>1. ASSUME SInv PROVE ReleasedAfterSettled
  <2>. SUFFICES ASSUME ~locked PROVE inFlight = 0 /\ rows = 0
    BY DEF ReleasedAfterSettled
  <2>1. main \notin {"recover", "transfer"}
    BY <1>1 DEF SInv, LeftInv
  <2>2. /\ \A w \in Worker : at[w] = "out"
        /\ at[Main] \in {"ready", "failed"}
    BY <1>1, <2>1 DEF SInv, PlaceInv
  <2>3. Calls = {} /\ OpenRows = {}
    BY <2>2 DEF Calls, OpenRows, Actor, Begun, InCall, Blocked
  <2>. QED
    BY <1>1, <2>3, FS_EmptySet DEF SInv, CountInv
<1>. QED
  BY <1>1, SInvAlways, PTL

\* The watchdog fires only over a call that has been silent for longer than
\* the limit (WatchStall, progress.enter).
THEOREM FiresOnSilence == Spec => FireMeansSilence
<1> DEFINE Silent == watch = "polling" /\ watch' = "judged" =>
                       \E a \in Actor : at[a] \in InCall /\ waited[a] > Timeout
<1>1. ASSUME SInv, Next PROVE Silent
  <2>. SUFFICES ASSUME watch = "polling", watch' = "judged"
                PROVE  \E a \in Actor : at[a] \in InCall /\ waited[a] > Timeout
    OBVIOUS
  <2>1. watch' # watch
    OBVIOUS
  <2>2. ASSUME NEW w \in Worker, Worked(w) PROVE watch' = watch
    BY <1>1, <2>2, WorkerShape DEF WorkerStep
  <2>3. Watch
    BY <1>1, <2>1, <2>2
       DEF Next, Coordinate, RecoverCall, RecoverAnswer, RecoverRow, RecoverEnds, Scan,
           TransferEnds, Decide, Release, StopWatch, Close, Interrupt, Tick, Ended, vars
  <2>4. inFlight > 0 /\ idle > Timeout
    BY <2>3 DEF Watch, Poll, OnStall, WatchStops, WatchEnds
  <2>5. Calls # {}
    BY <1>1, <2>4, FS_EmptySet DEF SInv, CountInv
  <2>6. PICK a \in Calls : waited[a] >= idle
    BY <1>1, <2>5 DEF SInv, ClockInv
  <2>7. a \in Actor /\ at[a] \in InCall /\ waited[a] \in 0 .. Late /\ idle \in 0 .. Late
    BY <1>1 DEF Calls, SInv, TypeOK
  <2>8. waited[a] > Timeout
    BY <2>4, <2>6, <2>7, StallAssumption DEF Late
  <2>. QED
    BY <2>7, <2>8
<1>2. SInv /\ [Next]_vars => [Silent]_vars
  BY <1>1
<1>. QED
  BY <1>2, SInvAlways, PTL DEF Spec, FireMeansSilence

\* No row's begin is started on a connection this process has cut (the order of
\* onStall).
THEOREM NoBeginAfterCut == Spec => NoBeginOnDeadLink
<1> DEFINE Alive == \A w \in Worker : at[w] = "taken" /\ at'[w] = "beginning" => ~aborted
<1>1. ASSUME SInv, Next PROVE Alive
  <2>. SUFFICES ASSUME NEW w \in Worker, at[w] = "taken", at'[w] = "beginning"
                PROVE  ~cancelled
    BY <1>1 DEF SInv, CutInv
  <2>0. w \in Actor /\ w # Main /\ at \in [Actor -> Place] /\ at'[w] # at[w]
    BY <1>1, StallAssumption DEF SInv, TypeOK, Actor
  <2>1. CASE \E v \in Worker : Worked(v)
    <3>1. PICK v \in Worker, s \in Place : WorkerStep(v, s)
      BY <1>1, <2>1, WorkerShape
    <3>2. at' = [at EXCEPT ![v] = s]
      BY <3>1 DEF WorkerStep, Moves
    <3>3. v = w /\ s = "beginning"
      BY <2>0, <3>2 DEF Actor
    <3>. QED
      BY <3>1, <3>3 DEF WorkerStep
  <2>2. CASE ~ \E v \in Worker : Worked(v)
    <3>1. ~ Scan
      BY <2>0 DEF Scan
    <3>2. CASE RecoverCall \/ RecoverAnswer \/ RecoverRow
      BY <2>0, <3>2 DEF RecoverCall, RecoverAnswer, RecoverRow, Ask, Answer, Enter, Exit
    <3>. QED
      BY <1>1, <2>0, <2>2, <3>1, <3>2
         DEF Next, Coordinate, RecoverEnds, TransferEnds, Decide, Release, StopWatch, Close,
             Watch, Poll, OnStall, WatchStops, WatchEnds, Interrupt, Tick, Ended, vars, work
  <2>. QED
    BY <2>1, <2>2
<1>2. SInv /\ [Next]_vars => [Alive]_vars
  BY <1>1
<1>. QED
  BY <1>2, SInvAlways, PTL DEF Spec, NoBeginOnDeadLink
=============================================================================
