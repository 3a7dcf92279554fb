------------------------------ MODULE DirLock ------------------------------
(***************************************************************************)
(* The process lock (internal/lock/lock.go): a directory holding one       *)
(* owner-<token> file.  One action per file system call of Acquire and     *)
(* Release, because everything between two calls can interleave.           *)
(***************************************************************************)
EXTENDS Naturals, FiniteSets

CONSTANTS
    Proc,        \* processes; a process stands for its token as well
    NoDir,       \* there is no lock directory
    DieAt,       \* the places where a process may die
    Pauses,      \* may a process sleep past noOwnerGrace between two calls?
    Overruns,    \* may a live owner outlive staleAfter?
    MaxDeaths,
    MaxFaults    \* bounds: deaths, markers that cannot be made or written

PC == {"idle", "mkdir", "mark", "write", "unwrite", "look", "stat", "read",
       "unmark", "rmdir", "held", "unlink", "dead"}
Gap    == {"mark", "rmdir", "unlink"}   \* p may have left the directory empty
Within == {"write", "held", "unwrite"}  \* p has made its marker

ASSUME LockAssumption ==
    /\ IsFiniteSet(Proc) /\ NoDir \notin [owners : SUBSET Proc, aged : BOOLEAN]
    /\ DieAt \subseteq PC \ {"idle", "dead"}
    /\ Pauses \in BOOLEAN /\ Overruns \in BOOLEAN
    /\ MaxDeaths \in Nat /\ MaxFaults \in Nat

VARIABLES
    dir,     \* NoDir, or the owner markers and whether its mtime is old
    old,     \* the markers older than staleAfter
    pc,      \* the next call of each process
    try,     \* which tryCreate of Acquire a process is at
    seen,    \* the marker of its snapshot: a set of at most one process
    faults

vars == <<dir, old, pc, try, seen, faults>>

TypeOK ==
    /\ dir \in {NoDir} \cup [owners : SUBSET Proc, aged : BOOLEAN]
    /\ old \subseteq Proc
    /\ pc \in [Proc -> PC]
    /\ try \in [Proc -> {"first", "retry", "takeover"}]
    /\ seen \in [Proc -> SUBSET Proc]
    /\ \A p \in Proc : /\ Cardinality(seen[p]) <= 1
                       /\ seen[p] # {} => pc[p] \in {"read", "unmark", "dead"}
    /\ faults \in 0 .. MaxFaults

Init ==
    /\ dir = NoDir /\ old = {} /\ faults = 0
    /\ pc = [p \in Proc |-> "idle"]
    /\ try = [p \in Proc |-> "first"]
    /\ seen = [p \in Proc |-> {}]

Owners    == IF dir = NoDir THEN {} ELSE dir.owners
Fresh(S)  == [owners |-> S, aged |-> FALSE]   \* any change renews the mtime
Goto(p, l) == pc' = [pc EXCEPT ![p] = l]
-----------------------------------------------------------------------------
(* Acquire.                                                                *)

\* A token is fresh: no marker and no pending snapshot has it.
Start(p) ==
    /\ pc[p] = "idle" /\ p \notin Owners
    /\ \A q \in Proc : pc[q] \in {"read", "unmark"} => p \notin seen[q]
    /\ Goto(p, "mkdir") /\ try' = [try EXCEPT ![p] = "first"]
    /\ UNCHANGED <<dir, old, seen, faults>>

\* Slip: os.MkdirAll, which is content with a directory that is there.
MkdirAll(p) ==
    /\ pc[p] = "mkdir"
    /\ dir' = IF dir = NoDir THEN Fresh({}) ELSE dir
    /\ Goto(p, "mark")
    /\ UNCHANGED <<old, try, seen, faults>>

\* os.Mkdir decides between two creators; a loser looks at what is there the
\* first time and reports ErrHeld the other times.
Mkdir(p) ==
    /\ pc[p] = "mkdir"
    /\ \/ /\ dir = NoDir
          /\ dir' = Fresh({}) /\ Goto(p, "mark")
       \/ /\ dir # NoDir /\ UNCHANGED dir
          /\ Goto(p, IF try[p] = "first" THEN "look" ELSE "idle")
    /\ UNCHANGED <<old, try, seen, faults>>

\* The owner file is created by path, in whatever directory has the name now.
\* If it cannot be, the directory of that name is removed if it is empty.
Mark(p) ==
    /\ pc[p] = "mark"
    /\ \/ /\ dir # NoDir
          /\ dir' = Fresh(Owners \cup {p}) /\ Goto(p, "write")
       \/ /\ dir = NoDir /\ UNCHANGED dir
          /\ Goto(p, "unlink")
    /\ UNCHANGED <<old, try, seen, faults>>

\* The text, by the open file.  (The age runs from the marker's creation: the
\* text's "started" is of the same instant, and without text its mtime counts.)
Write(p) ==
    /\ pc[p] = "write" /\ Goto(p, "held")
    /\ UNCHANGED <<dir, old, try, seen, faults>>

MarkFails(p) ==
    /\ faults < MaxFaults /\ faults' = faults + 1
    /\ \/ pc[p] = "mark" /\ Goto(p, "unlink")
       \/ pc[p] = "write" /\ Goto(p, "unwrite")
    /\ UNCHANGED <<dir, old, try, seen>>

\* A marker without its text is removed again, then the directory.
Unwrite(p) ==
    /\ pc[p] = "unwrite" /\ Goto(p, "unlink")
    /\ dir' = IF p \in Owners THEN Fresh(Owners \ {p}) ELSE dir
    /\ old' = old \ {p}
    /\ UNCHANGED <<try, seen, faults>>

\* Slip: whoever meets a directory reports ErrHeld; nothing is taken over.
LookNoTakeover(p) ==
    /\ pc[p] = "look"
    /\ Goto(p, "idle")
    /\ UNCHANGED <<dir, old, try, seen, faults>>

\* What was to be looked at is gone meanwhile: one more tryCreate.
Retry(p) == Goto(p, "mkdir") /\ try' = [try EXCEPT ![p] = "retry"]

\* readSnapshot: os.ReadDir.  Two markers are an error for the operator.
Look(p) ==
    /\ pc[p] = "look"
    /\ \/ dir = NoDir /\ Retry(p) /\ UNCHANGED seen
       \/ dir # NoDir /\ Owners = {} /\ Goto(p, "stat") /\ UNCHANGED <<try, seen>>
       \/ /\ Cardinality(Owners) = 1 /\ Goto(p, "read")
          /\ seen' = [seen EXCEPT ![p] = Owners] /\ UNCHANGED try
       \/ Cardinality(Owners) > 1 /\ Goto(p, "idle") /\ UNCHANGED <<try, seen>>
    /\ UNCHANGED <<dir, old, faults>>

\* No marker was seen: os.Stat of the directory that has the name now, and
\* the age test against noOwnerGrace.
Stat(p) ==
    /\ pc[p] = "stat"
    /\ \/ dir = NoDir /\ Retry(p)
       \/ /\ dir # NoDir
          /\ Goto(p, IF dir.aged THEN "rmdir" ELSE "idle") /\ UNCHANGED try
    /\ UNCHANGED <<dir, old, seen, faults>>

\* Slip: a marker is taken for stale whatever its age.
ReadNoAge(p) ==
    /\ pc[p] = "read" /\ Goto(p, "unmark")
    /\ UNCHANGED <<dir, old, try, seen, faults>>

\* One marker was seen: its text is read (without one its mtime asked, which
\* fails alike if the marker is gone by then), and the age test.
Read(p) ==
    /\ pc[p] = "read"
    /\ \/ /\ seen[p] \subseteq Owners \cap old
          /\ Goto(p, "unmark") /\ UNCHANGED <<try, seen>>
       \/ /\ seen[p] \subseteq Owners \ old
          /\ Goto(p, "idle") /\ seen' = [seen EXCEPT ![p] = {}] /\ UNCHANGED try
       \/ /\ ~ (seen[p] \subseteq Owners)
          /\ Retry(p) /\ seen' = [seen EXCEPT ![p] = {}]
    /\ UNCHANGED <<dir, old, faults>>

\* Slip: the directory is emptied by name, whoever's marker is in it now.
UnmarkAny(p) ==
    /\ pc[p] = "unmark" /\ dir # NoDir
    /\ dir' = Fresh({}) /\ old' = old \ Owners /\ Goto(p, "rmdir")
    /\ seen' = [seen EXCEPT ![p] = {}]
    /\ UNCHANGED <<try, faults>>

\* Slip: the snapshot outlives the takeover it was made for.
UnmarkKeepsSeen(p) ==
    /\ pc[p] = "unmark" /\ seen[p] \subseteq Owners
    /\ dir' = Fresh(Owners \ seen[p]) /\ old' = old \ seen[p]
    /\ Goto(p, "rmdir")
    /\ UNCHANGED <<try, seen, faults>>

\* clearStale: only the marker that was seen; who finds it gone leaves the
\* directory alone.
Unmark(p) ==
    /\ pc[p] = "unmark"
    /\ \/ /\ seen[p] \subseteq Owners
          /\ dir' = Fresh(Owners \ seen[p]) /\ old' = old \ seen[p]
          /\ Goto(p, "rmdir") /\ UNCHANGED try
       \/ /\ ~ (seen[p] \subseteq Owners) /\ UNCHANGED <<dir, old>>
          /\ Goto(p, "mkdir") /\ try' = [try EXCEPT ![p] = "takeover"]
    /\ seen' = [seen EXCEPT ![p] = {}]
    /\ UNCHANGED faults

\* Slip: the taken-over directory is left for the creator to find.
RmdirForgotten(p) ==
    /\ pc[p] = "rmdir"
    /\ Goto(p, "mkdir") /\ try' = [try EXCEPT ![p] = "takeover"]
    /\ UNCHANGED <<dir, old, seen, faults>>

\* os.Remove takes the directory of that name if it is empty.
Rmdir(p) ==
    /\ pc[p] = "rmdir"
    /\ \/ /\ Owners = {}
          /\ dir' = NoDir
          /\ Goto(p, "mkdir") /\ try' = [try EXCEPT ![p] = "takeover"]
       \/ /\ Owners # {} /\ Goto(p, "idle") /\ UNCHANGED <<dir, try>>
    /\ UNCHANGED <<old, seen, faults>>
-----------------------------------------------------------------------------
(* Release: the own marker, then the empty directory.  (The removal of the *)
(* directory is also what a failed tryCreate ends with.)                   *)

Release(p) ==
    /\ pc[p] = "held"
    /\ \/ /\ p \in Owners
          /\ dir' = Fresh(Owners \ {p}) /\ old' = old \ {p}
          /\ Goto(p, "unlink")
       \/ /\ p \notin Owners /\ UNCHANGED <<dir, old>>    \* ErrLost
          /\ Goto(p, "idle")
    /\ UNCHANGED <<try, seen, faults>>

Unlink(p) ==
    /\ pc[p] = "unlink"
    /\ dir' = IF Owners = {} THEN NoDir ELSE dir
    /\ Goto(p, "idle")
    /\ UNCHANGED <<old, try, seen, faults>>
-----------------------------------------------------------------------------
(* Deaths and the passing of time.                                         *)

Die(p) ==
    /\ pc[p] \in DieAt
    /\ Cardinality({q \in Proc : pc[q] = "dead"}) < MaxDeaths
    /\ Goto(p, "dead")
    /\ UNCHANGED <<dir, old, try, seen, faults>>

AgeMarker(p) ==
    /\ p \in Owners \ old /\ (pc[p] = "dead" \/ Overruns)
    /\ old' = old \cup {p}
    /\ UNCHANGED <<dir, pc, try, seen, faults>>

\* A directory grows older than noOwnerGrace; of one with a marker only who
\* is at os.Stat would know.
AgeDir ==
    /\ dir # NoDir /\ ~ dir.aged
    /\ Owners = {} \/ \E p \in Proc : pc[p] = "stat"
    /\ Pauses \/ \A p \in Proc : pc[p] \notin Gap \cup {"stat"}
    /\ dir' = [dir EXCEPT !.aged = TRUE]
    /\ UNCHANGED <<old, pc, try, seen, faults>>
-----------------------------------------------------------------------------
Acquire(p) ==
    \/ Mkdir(p) \/ Mark(p) \/ Write(p) \/ Unwrite(p)
    \/ Look(p) \/ Stat(p) \/ Read(p) \/ Unmark(p) \/ Rmdir(p)

Next ==
    \/ AgeDir
    \/ \E p \in Proc : \/ Start(p) \/ Acquire(p) \/ MarkFails(p)
                       \/ Release(p) \/ Unlink(p) \/ Die(p) \/ AgeMarker(p)

Spec == Init /\ [][Next]_vars

\* Live processes go on and end their runs, cron keeps starting them, and
\* time passes.
FairSpec ==
    /\ Spec /\ WF_vars(AgeDir)
    /\ \A p \in Proc : /\ WF_vars(Acquire(p)) /\ WF_vars(Release(p) \/ Unlink(p))
                       /\ WF_vars(Start(p)) /\ WF_vars(AgeMarker(p))
-----------------------------------------------------------------------------
\* The package's purpose ("keeps a second process from starting the work at
\* all"): two processes never hold the lock together.
MutualExclusion == \A p, q \in Proc : pc[p] = "held" /\ pc[q] = "held" => p = q

\* Whoever has the lock has its marker in the directory until it releases it
\* itself: no contender, however late, removes a live owner's marker or the
\* directory around it.  (For owners that keep within staleAfter.)
HolderIsMarked == \A p \in Proc : pc[p] = "held" => p \in Owners

\* A marker disappears only by its owner (Release, or an Acquire that failed)
\* or for being older than staleAfter, also when live owners overrun that age
\* and lose the lock.
OnlyStaleIsTaken ==
    [][\A p \in Owners \ Owners' :
          p \in old \/ (pc[p] \in Within /\ pc'[p] = "unlink")]_vars

\* A marker left behind by a dead process is cleared by a later run ...
LeftoverIsCleared ==
    \A p \in Proc : pc[p] = "dead" /\ p \in Owners ~> p \notin Owners

\* ... and the scheduled runs get the lock again and again.
AlwaysAcquiredAgain == []<>(\E p \in Proc : pc[p] = "held")
=============================================================================
