--------------------------- MODULE DirLockProofs ---------------------------
(***************************************************************************)
(* The process lock for any number of processes: what a contender removes  *)
(* is stale, a live owner within staleAfter keeps its marker, and, when no *)
(* process dies or sleeps while its lock directory is empty, two processes *)
(* never hold the lock.                                                    *)
(***************************************************************************)
EXTENDS DirLock, FiniteSetTheorems, TLAPS

\* The steps a process takes on its own account.
Step(p) == \/ Start(p) \/ Mkdir(p) \/ Mark(p) \/ Write(p) \/ MarkFails(p)
           \/ Unwrite(p) \/ Look(p) \/ Stat(p) \/ Read(p) \/ Unmark(p)
           \/ Rmdir(p) \/ Release(p) \/ Unlink(p) \/ Die(p) \/ AgeMarker(p)

\* A directory that exists is told from none.
LEMMA FreshIsDir == \A S \in SUBSET Proc : Fresh(S) # NoDir /\ Fresh(S).owners = S
<1> TAKE S \in SUBSET Proc
<1>1. Fresh(S) \in [owners : SUBSET Proc, aged : BOOLEAN] /\ Fresh(S).owners = S
  BY DEF Fresh
<1> QED BY <1>1, LockAssumption

LEMMA NextCases ==
    ASSUME [Next]_vars
    PROVE  AgeDir \/ UNCHANGED vars \/ \E p \in Proc : Step(p)
BY DEF Next, Acquire, Step

\* A directory that grows old keeps its markers.
LEMMA AgeKeepsMarkers ==
    ASSUME TypeOK, AgeDir
    PROVE  Owners' = Owners /\ dir' # NoDir /\ UNCHANGED <<old, pc, try, seen, faults>>
<1>1. dir \in [owners : SUBSET Proc, aged : BOOLEAN]
  BY DEF TypeOK, AgeDir
<1>2. dir' = [dir EXCEPT !.aged = TRUE]
  BY DEF AgeDir
<1>3. dir' \in [owners : SUBSET Proc, aged : BOOLEAN] /\ dir'.owners = dir.owners
  BY <1>1, <1>2
<1> QED BY <1>1, <1>3, LockAssumption DEF Owners, AgeDir

\* The type of the directory survives every step.
LEMMA TypeInductive == TypeOK /\ [Next]_vars => TypeOK'
<1> SUFFICES ASSUME TypeOK, [Next]_vars PROVE TypeOK'
  OBVIOUS
<1> DEFINE Dirs == {NoDir} \cup [owners : SUBSET Proc, aged : BOOLEAN]
<1>0. Cardinality({}) = 0
  BY FS_EmptySet
<1>a. Owners \in SUBSET Proc
  BY DEF TypeOK, Owners
<1>b. \A S \in SUBSET Proc : Fresh(S) \in Dirs
  BY DEF Fresh
<1> USE DEF TypeOK, PC, Goto, Retry
<1>1. CASE AgeDir
  BY <1>1 DEF AgeDir
<1>2. CASE UNCHANGED vars
  BY <1>2 DEF vars
<1>3. ASSUME NEW p \in Proc, Step(p) PROVE TypeOK'
  <2>1. CASE Start(p)
    BY <2>1 DEF Start
  <2>2. CASE Mkdir(p)
    BY <2>2, <1>b DEF Mkdir
  <2>3. CASE Mark(p)
    BY <2>3, <1>a, <1>b DEF Mark
  <2>4. CASE MarkFails(p)
    BY <2>4, LockAssumption DEF MarkFails
  <2>5. CASE Look(p)
    BY <2>5, <1>0, <1>a DEF Look
  <2>6. CASE Unmark(p)
    <3>1. dir' \in Dirs /\ old' \subseteq Proc
      BY <2>6, <1>a, <1>b DEF Unmark
    <3>2. pc' \in [Proc -> PC] /\ try' \in [Proc -> {"first", "retry", "takeover"}]
      BY <2>6 DEF Unmark
    <3>3. /\ seen' \in [Proc -> SUBSET Proc]
          /\ \A q \in Proc : Cardinality(seen'[q]) <= 1
      BY <2>6, <1>0 DEF Unmark
    <3>4. \A q \in Proc : seen'[q] # {} => pc'[q] \in {"read", "unmark", "dead"}
      BY <2>6 DEF Unmark
    <3> QED BY <2>6, <3>1, <3>2, <3>3, <3>4 DEF Unmark
  <2>7. CASE Rmdir(p)
    BY <2>7 DEF Rmdir
  <2>8. CASE Release(p)
    <3>1. dir' \in Dirs /\ old' \subseteq Proc
      BY <2>8, <1>a, <1>b DEF Release
    <3> QED BY <2>8, <3>1 DEF Release
  <2>9. CASE Unlink(p)
    BY <2>9 DEF Unlink
  <2>10. CASE Die(p)
    BY <2>10 DEF Die
  <2>11. CASE AgeMarker(p)
    BY <2>11 DEF AgeMarker
  <2>12. CASE Write(p)
    BY <2>12 DEF Write
  <2>13. CASE Unwrite(p)
    BY <2>13, <1>a, <1>b DEF Unwrite
  <2>14. CASE Stat(p)
    BY <2>14 DEF Stat
  <2>15. CASE Read(p)
    <3>1. \/ seen' = seen /\ pc' = [pc EXCEPT ![p] = "unmark"] /\ try' = try
          \/ /\ seen' = [seen EXCEPT ![p] = {}]
             /\ \/ pc' = [pc EXCEPT ![p] = "idle"] /\ try' = try
                \/ /\ pc' = [pc EXCEPT ![p] = "mkdir"]
                   /\ try' = [try EXCEPT ![p] = "retry"]
      BY <2>15 DEF Read
    <3>2. UNCHANGED <<dir, old, faults>>
      BY <2>15 DEF Read
    <3>3. pc' \in [Proc -> PC] /\ try' \in [Proc -> {"first", "retry", "takeover"}]
      BY <3>1
    <3>4. seen' \in [Proc -> SUBSET Proc]
      BY <3>1
    <3>5. \A q \in Proc : Cardinality(seen'[q]) <= 1
      <4> TAKE q \in Proc
      <4>1. CASE seen'[q] = seen[q]
        <5> HIDE DEF TypeOK
        <5>1. Cardinality(seen[q]) <= 1
          BY DEF TypeOK
        <5> QED BY <4>1, <5>1
      <4>2. CASE seen'[q] = {}
        BY <4>2, <1>0, 0 <= 1
      <4> QED BY <3>1, <4>1, <4>2
    <3>6. \A q \in Proc : seen'[q] # {} => pc'[q] \in {"read", "unmark", "dead"}
      BY <3>1
    <3> QED BY <3>2, <3>3, <3>4, <3>5, <3>6
  <2> QED BY <1>3, <2>1, <2>2, <2>3, <2>4, <2>5, <2>6, <2>7, <2>8, <2>9,
             <2>10, <2>11, <2>12, <2>13, <2>14, <2>15 DEF Step
<1> QED BY <1>1, <1>2, <1>3, NextCases

\* Type correctness, and that a snapshot is of one marker and is forgotten
\* with the takeover it was made for.
THEOREM TypeCorrect == Spec => []TypeOK
<1>1. Init => TypeOK
  BY FS_EmptySet, LockAssumption DEF Init, TypeOK, PC
<1> QED BY <1>1, TypeInductive, PTL DEF Spec
-----------------------------------------------------------------------------
\* Owners within staleAfter: an old marker, and one a contender is about to
\* remove, is a dead process's; a process has its marker from its creation on.
DeadProcs  == {p \in Proc : pc[p] = "dead"}
OldAreDead == /\ old \subseteq DeadProcs
              /\ \A q \in Proc : pc[q] = "unmark" => seen[q] \subseteq DeadProcs
WithinHasMarker == \A p \in Proc : pc[p] \in {"write", "held"} => p \in Owners
Marked     == TypeOK /\ OldAreDead /\ WithinHasMarker

LEMMA MarkedInductive ==
    ASSUME ~ Overruns, Marked, [Next]_vars
    PROVE  OldAreDead' /\ WithinHasMarker'
<1> USE DEF Marked, TypeOK, PC, OldAreDead, DeadProcs, WithinHasMarker,
            Owners, Fresh, Goto, Retry
<1>1. CASE AgeDir
  BY <1>1, AgeKeepsMarkers
<1>2. CASE UNCHANGED vars
  BY <1>2 DEF vars
<1>3. ASSUME NEW p \in Proc, Step(p) PROVE OldAreDead' /\ WithinHasMarker'
  <2>1. CASE Start(p)
    BY <2>1 DEF Start
  <2>2. CASE Mkdir(p)
    BY <2>2 DEF Mkdir
  <2>3. CASE Mark(p)
    <3>1. OldAreDead'
      BY <2>3 DEF Mark
    <3>2. Owners' = IF dir = NoDir THEN {} ELSE Owners \cup {p}
      <4>1. CASE dir = NoDir
        BY <2>3, <4>1 DEF Mark
      <4>2. CASE dir # NoDir
        <5>1. dir' = Fresh(Owners \cup {p}) /\ Owners \cup {p} \in SUBSET Proc
          BY <2>3, <4>2 DEF Mark
        <5> QED BY <4>2, <5>1, FreshIsDir
      <4> QED BY <4>1, <4>2
    <3>3. WithinHasMarker'
      BY <2>3, <3>2 DEF Mark
    <3> QED BY <3>1, <3>3
  <2>4. CASE MarkFails(p)
    BY <2>4 DEF MarkFails
  <2>5. CASE Look(p)
    BY <2>5 DEF Look
  <2>6. CASE Unmark(p)
    <3>1. OldAreDead'
      BY <2>6 DEF Unmark
    <3>2. \A q \in Proc : pc'[q] \in {"write", "held"} =>
                pc[q] \in {"write", "held"} /\ q \notin seen[p]
      BY <2>6 DEF Unmark
    <3>3. Owners' = Owners \/ Owners' = Owners \ seen[p]
      BY <2>6, FreshIsDir DEF Unmark
    <3>4. WithinHasMarker'
      BY <3>2, <3>3
    <3> QED BY <3>1, <3>4
  <2>7. CASE Rmdir(p)
    BY <2>7 DEF Rmdir
  <2>8. CASE Release(p)
    <3>1. OldAreDead'
      BY <2>8 DEF Release
    <3>2. Owners' = Owners \/ Owners' = Owners \ {p}
      BY <2>8, FreshIsDir DEF Release
    <3>3. \A q \in Proc : pc'[q] \in {"write", "held"} =>
                pc[q] \in {"write", "held"} /\ q # p
      BY <2>8 DEF Release
    <3>4. WithinHasMarker'
      BY <3>2, <3>3
    <3> QED BY <3>1, <3>4
  <2>9. CASE Unlink(p)
    BY <2>9 DEF Unlink
  <2>10. CASE Die(p)
    BY <2>10 DEF Die
  <2>11. CASE AgeMarker(p)
    BY <2>11 DEF AgeMarker
  <2>12. CASE Write(p)
    BY <2>12 DEF Write
  <2>13. CASE Unwrite(p)
    BY <2>13, FreshIsDir DEF Unwrite
  <2>14. CASE Stat(p)
    BY <2>14 DEF Stat
  <2>15. CASE Read(p)
    BY <2>15 DEF Read
  <2> QED BY <1>3, <2>1, <2>2, <2>3, <2>4, <2>5, <2>6, <2>7, <2>8, <2>9,
             <2>10, <2>11, <2>12, <2>13, <2>14, <2>15 DEF Step
<1> QED BY <1>1, <1>2, <1>3, NextCases

\* However many contenders, deaths and pauses: as long as live owners keep
\* within staleAfter, whoever has the lock has its marker in the directory.
THEOREM HolderStaysMarked ==
    ASSUME ~ Overruns
    PROVE  Spec => []HolderIsMarked
<1>1. Init => Marked
  BY FS_EmptySet, LockAssumption
  DEF Init, Marked, TypeOK, PC, OldAreDead, DeadProcs, WithinHasMarker
<1>2. Marked /\ [Next]_vars => Marked'
  BY MarkedInductive, TypeInductive DEF Marked
<1>3. Marked => HolderIsMarked
  BY DEF Marked, WithinHasMarker, HolderIsMarked
<1> QED BY <1>1, <1>2, <1>3, PTL DEF Spec
-----------------------------------------------------------------------------
\* A marker in the directory is a holder's or a dead process's, and the one a
\* contender is about to remove is stale or gone for good: its process cannot
\* be on its way to write it again.
SnapshotsAreStale ==
    /\ \A p \in Owners : pc[p] \in Within \cup {"dead"}
    /\ \A q \in Proc : pc[q] = "unmark" =>
         \A p \in seen[q] : /\ pc[p] \in Within \cup {"dead", "idle", "unlink"}
                            /\ p \in Owners => p \in old

LEMMA SnapshotsInductive ==
    ASSUME TypeOK, SnapshotsAreStale, [Next]_vars
    PROVE  SnapshotsAreStale'
<1> USE DEF TypeOK, PC, SnapshotsAreStale, Within, Owners, Fresh, Goto, Retry
<1>1. CASE AgeDir
  BY <1>1, AgeKeepsMarkers
<1>2. CASE UNCHANGED vars
  BY <1>2 DEF vars
<1>3. ASSUME NEW p \in Proc, Step(p) PROVE SnapshotsAreStale'
  <2>1. CASE Start(p)
    BY <2>1 DEF Start
  <2>2. CASE Mkdir(p)
    BY <2>2 DEF Mkdir
  <2>3. CASE Mark(p)
    BY <2>3 DEF Mark
  <2>4. CASE MarkFails(p)
    BY <2>4 DEF MarkFails
  <2>5. CASE Look(p)
    BY <2>5 DEF Look
  <2>6. CASE Unmark(p)
    BY <2>6 DEF Unmark
  <2>7. CASE Rmdir(p)
    BY <2>7 DEF Rmdir
  <2>8. CASE Release(p)
    BY <2>8 DEF Release
  <2>9. CASE Unlink(p)
    BY <2>9 DEF Unlink
  <2>10. CASE Die(p)
    BY <2>10 DEF Die
  <2>11. CASE AgeMarker(p)
    BY <2>11 DEF AgeMarker
  <2>12. CASE Write(p)
    BY <2>12 DEF Write
  <2>13. CASE Unwrite(p)
    BY <2>13, FreshIsDir DEF Unwrite
  <2>14. CASE Stat(p)
    BY <2>14 DEF Stat
  <2>15. CASE Read(p)
    BY <2>15 DEF Read
  <2> QED BY <1>3, <2>1, <2>2, <2>3, <2>4, <2>5, <2>6, <2>7, <2>8, <2>9,
             <2>10, <2>11, <2>12, <2>13, <2>14, <2>15 DEF Step
<1> QED BY <1>1, <1>2, <1>3, NextCases

\* Only the owner itself and a takeover of an old marker remove a marker,
\* also when live owners overrun staleAfter and processes sleep or die anywhere.
THEOREM OnlyStaleTaken == Spec => OnlyStaleIsTaken
<1> DEFINE Taken(p) == p \in old \/ (pc[p] \in Within /\ pc'[p] = "unlink")
<1>1. Init => SnapshotsAreStale
  BY DEF Init, SnapshotsAreStale, Owners
<1>2. ASSUME TypeOK, SnapshotsAreStale, [Next]_vars
      PROVE  \A p \in Owners \ Owners' : Taken(p)
  <2> USE DEF TypeOK, PC, SnapshotsAreStale, Within, Owners, Fresh, Goto, Retry
  <2>1. CASE AgeDir
    BY <1>2, <2>1, AgeKeepsMarkers
  <2>2. CASE UNCHANGED vars
    BY <2>2 DEF vars
  <2>3. ASSUME NEW p \in Proc, Step(p) PROVE \A q \in Owners \ Owners' : Taken(q)
    <3>1. CASE \/ Start(p) \/ Look(p) \/ Stat(p) \/ Read(p) \/ Write(p)
                \/ Die(p) \/ AgeMarker(p)
      BY <3>1 DEF Start, Look, Stat, Read, Write, Die, AgeMarker
    <3>2. CASE \/ Mkdir(p) \/ MarkFails(p) \/ Rmdir(p) \/ Unlink(p)
      BY <3>2 DEF Mkdir, MarkFails, Rmdir, Unlink
    <3>3. CASE Mark(p)
      BY <3>3, <1>2, FreshIsDir DEF Mark
    <3>4. CASE Unmark(p)
      BY <3>4, <1>2, FreshIsDir DEF Unmark
    <3>5. CASE Release(p)
      BY <3>5, <1>2, FreshIsDir DEF Release
    <3>6. CASE Unwrite(p)
      BY <3>6, <1>2, FreshIsDir DEF Unwrite
    <3> QED BY <2>3, <3>1, <3>2, <3>3, <3>4, <3>5, <3>6 DEF Step
  <2> QED BY <1>2, <2>1, <2>2, <2>3, NextCases
<1>3. TypeOK /\ SnapshotsAreStale /\ [Next]_vars => SnapshotsAreStale'
  BY SnapshotsInductive
<1>4. TypeOK /\ SnapshotsAreStale /\ [Next]_vars
        => [\A p \in Owners \ Owners' : Taken(p)]_vars
  BY <1>2
<1> QED BY <1>1, <1>3, <1>4, TypeCorrect, PTL DEF Spec, OnlyStaleIsTaken
-----------------------------------------------------------------------------
(* Mutual exclusion, for as many processes as one likes, without the gap.  *)

Inside(p) == pc[p] \in Gap \cup Within

\* One process at most is between mkdir and the last rmdir; the directory is
\* as that process left it, or nobody is there and it is gone or holds the
\* marker of a dead process.
OneInside ==
    /\ \A p, q \in Proc : Inside(p) /\ Inside(q) => p = q
    /\ \A p \in Proc : /\ pc[p] \in Gap => dir # NoDir /\ Owners = {}
                       /\ pc[p] \in Within => Owners = {p}
                       /\ pc[p] = "stat" => dir = NoDir \/ ~ dir.aged
    /\ dir # NoDir /\ Owners = {} => ~ dir.aged /\ \E p \in Proc : pc[p] \in Gap
    /\ \A p \in Proc : pc[p] \in {"read", "unmark"} => seen[p] # {}
    /\ \A p, q \in Owners : p = q

Excluded == Marked /\ OneInside

LEMMA OneInsideInductive ==
    ASSUME ~ Overruns, ~ Pauses, DieAt \cap Gap = {}, Excluded, [Next]_vars
    PROVE  OneInside'
<1> USE DEF Excluded, Marked, TypeOK, PC, Gap, Within, OldAreDead, DeadProcs, OneInside,
            Inside, Goto, Retry
<1>0. Cardinality({}) = 0
  BY FS_EmptySet
<1>a. \A S \in SUBSET Proc : Fresh(S).owners = S /\ Fresh(S) # NoDir /\ Fresh(S).aged = FALSE
  BY FreshIsDir DEF Fresh
<1>1. CASE AgeDir
  BY <1>1 DEF AgeDir, Owners
<1>2. CASE UNCHANGED vars
  BY <1>2 DEF vars, Owners
<1>3. ASSUME NEW p \in Proc, Step(p) PROVE OneInside'
  <2>1. CASE Start(p)
    BY <2>1 DEF Start, Owners
  <2>2. CASE Mkdir(p)
    BY <2>2, <1>a DEF Mkdir, Owners
  <2>3. CASE Mark(p)
    <3>1. dir # NoDir /\ Owners = {} /\ \A q \in Proc : Inside(q) => q = p
      BY <2>3 DEF Mark
    <3>2. /\ Owners' = {p} /\ dir' # NoDir /\ dir'.aged = FALSE
          /\ pc' = [pc EXCEPT ![p] = "write"]
      BY <2>3, <3>1, <1>a DEF Mark, Owners
    <3>3. seen' = seen
      BY <2>3 DEF Mark
    <3> QED BY <3>1, <3>2, <3>3
  <2>4. CASE MarkFails(p)
    BY <2>4 DEF MarkFails, Owners
  <2>5. CASE Look(p)
    <3>1. dir' = dir /\ Owners' = Owners
      BY <2>5 DEF Look, Owners
    <3>2. pc' \in [Proc -> PC] /\ \A q \in Proc \ {p} : pc'[q] = pc[q]
      BY <2>5 DEF Look
    <3>3. /\ pc'[p] \in {"mkdir", "stat", "read", "idle"} /\ pc[p] = "look"
          /\ pc'[p] = "stat" => dir # NoDir /\ Owners = {}
      BY <2>5 DEF Look
    <3>4. \A q \in Proc : pc'[q] \in {"read", "unmark"} => seen'[q] # {}
      <4>1. \A q \in Proc \ {p} : seen'[q] = seen[q]
        BY <2>5 DEF Look
      <4>2. ASSUME pc'[p] = "read"
            PROVE  Cardinality(Owners) = 1 /\ seen' = [seen EXCEPT ![p] = Owners]
        BY <2>5, <4>2 DEF Look
      <4>3. pc'[p] = "read" => seen'[p] # {}
        BY <4>2, <1>0
      <4> QED BY <3>2, <3>3, <4>1, <4>3
    <3> QED BY <3>1, <3>2, <3>3, <3>4
  <2>6. CASE Unmark(p)
    <3>1. CASE seen[p] \subseteq Owners
      <4>1. \A q \in Proc : ~ Inside(q)
        BY <2>6, <3>1 DEF Unmark
      <4>2. Owners' = {} /\ dir' # NoDir /\ dir'.aged = FALSE
        <5>1. Owners \ seen[p] = {}
          BY <2>6, <3>1 DEF Unmark
        <5>2. dir' = Fresh({})
          BY <2>6, <3>1, <5>1 DEF Unmark
        <5> QED BY <5>2, <1>a DEF Owners
      <4>3. pc' = [pc EXCEPT ![p] = "rmdir"] /\ seen' = [seen EXCEPT ![p] = {}]
        BY <2>6, <3>1 DEF Unmark
      <4> QED BY <4>1, <4>2, <4>3
    <3>2. CASE ~ (seen[p] \subseteq Owners)
      <4>1. /\ dir' = dir /\ Owners' = Owners /\ pc[p] = "unmark"
            /\ pc' = [pc EXCEPT ![p] = "mkdir"] /\ seen' = [seen EXCEPT ![p] = {}]
        BY <2>6, <3>2 DEF Unmark, Owners
      <4> QED BY <4>1
    <3> QED BY <3>1, <3>2
  <2>7. CASE Rmdir(p)
    BY <2>7 DEF Rmdir, Owners
  <2>8. CASE Release(p)
    <3>1. Owners = {p} /\ \A q \in Proc : Inside(q) => q = p
      BY <2>8 DEF Release
    <3>2. pc' = [pc EXCEPT ![p] = "unlink"] /\ dir' = Fresh({}) /\ seen' = seen
      <4>1. p \in Owners /\ Owners \ {p} = {}
        BY <3>1
      <4> QED BY <2>8, <4>1 DEF Release
    <3>3. Owners' = {} /\ dir' # NoDir /\ dir'.aged = FALSE
      BY <3>2, <1>a DEF Owners
    <3> QED BY <3>1, <3>2, <3>3
  <2>9. CASE Unlink(p)
    BY <2>9 DEF Unlink, Owners
  <2>10. CASE Die(p)
    BY <2>10 DEF Die, Owners
  <2>11. CASE AgeMarker(p)
    BY <2>11 DEF AgeMarker, Owners
  <2>12. CASE Write(p)
    BY <2>12 DEF Write, Owners
  <2>13. CASE Unwrite(p)
    <3>1. Owners = {p} /\ \A q \in Proc : Inside(q) => q = p
      BY <2>13 DEF Unwrite
    <3>2. pc' = [pc EXCEPT ![p] = "unlink"] /\ dir' = Fresh({}) /\ seen' = seen
      BY <2>13, <3>1 DEF Unwrite
    <3>3. Owners' = {} /\ dir' # NoDir /\ dir'.aged = FALSE
      BY <3>2, <1>a DEF Owners
    <3> QED BY <3>1, <3>2, <3>3
  <2>14. CASE Stat(p)
    BY <2>14 DEF Stat, Owners
  <2>15. CASE Read(p)
    BY <2>15 DEF Read, Owners
  <2> QED BY <1>3, <2>1, <2>2, <2>3, <2>4, <2>5, <2>6, <2>7, <2>8, <2>9,
             <2>10, <2>11, <2>12, <2>13, <2>14, <2>15 DEF Step
<1> QED BY <1>1, <1>2, <1>3, NextCases

\* The package's promise, under what it needs: live owners within staleAfter
\* and no death or sleep past noOwnerGrace while the directory is empty.
THEOREM Exclusion ==
    ASSUME ~ Overruns, ~ Pauses, DieAt \cap Gap = {}
    PROVE  Spec => []MutualExclusion
<1>1. Init => Excluded
  BY FS_EmptySet, LockAssumption
  DEF Init, Excluded, Marked, TypeOK, PC, OldAreDead, DeadProcs,
      WithinHasMarker, OneInside, Inside, Gap, Within, Owners
<1>2. Excluded /\ [Next]_vars => Excluded'
  BY OneInsideInductive, MarkedInductive, TypeInductive DEF Excluded, Marked
<1>3. Excluded => MutualExclusion
  BY DEF Excluded, OneInside, Inside, Within, MutualExclusion
<1> QED BY <1>1, <1>2, <1>3, PTL DEF Spec
=============================================================================
