--------------------------- MODULE DownloadProofs ---------------------------
(***************************************************************************)
(* The downloads, for any remote files, destinations, workers, faults and  *)
(* visitors.  DInv says who owns a destination, what its .part holds at    *)
(* each step of a fetch and where a .part without an owner comes from; the *)
(* safety properties follow from it.                                       *)
(***************************************************************************)
EXTENDS Download, TLAPS

\* No file is in work whose directory the run has not been to, and none at
\* all without a run.
PhaseInv ==
    /\ phase # "scanning" => listed = 0 /\ \A d \in Dest : claimed[d] = None
    /\ \A r \in Remote : DirOf[r] > listed => job[r] = "idle" /\ entry[r] = 0

\* A destination belongs to the first file planned for it, whatever becomes of
\* that file, and every later one is a duplicate of an owned destination.
ClaimInv ==
    /\ \A r \in Remote : job[r] \in Busy \cup {"there", "done", "failed"}
                           => claimed[DestOf[r]] = r
    /\ \A d \in Dest : claimed[d] # None =>
         /\ claimed[d] \in Remote /\ DestOf[claimed[d]] = d
         /\ job[claimed[d]] \notin {"idle", "skipped"}
    /\ \A r \in Remote : job[r] = "skipped" => claimed[DestOf[r]] # None

\* What was listed was at rest; the server's versions only go up.
EntryInv ==
    \A r \in Remote :
      /\ entry[r] > 0 => entry[r] \in offered[r] /\ entry[r] <= remote[r]
      /\ r \in quiet => remote[r] \in offered[r]
      /\ job[r] # "idle" => entry[r] > 0

\* A .part that may become a final file: a version at rest, or the yield of a
\* file rewritten since the listing.
Good(r) ==
    /\ part[DestOf[r]] \in Version \cup {Mixed}
    /\ part[DestOf[r]] \in offered[r] \/ remote[r] > entry[r]

PartInv ==
    \A r \in Remote :
      /\ job[r] = "copying" => part[DestOf[r]] = Short
      /\ job[r] = "copied"  => part[DestOf[r]] = Short \/ Good(r)
      /\ job[r] \in {"sized", "clear"} => Good(r)

\* A .part is the work of a busy file or an orphan.
AtPart == {"copying", "copied", "sized", "clear", "taken", "failing"}
LeftInv ==
    \A d \in Dest : \/ part[d] \in {None, Odd} \/ d \in orphan
                    \/ \E r \in Remote : DestOf[r] = d /\ job[r] \in AtPart

\* The last look at a destination still holds when the rename goes out.
FinalInv ==
    \A r \in Remote :
      /\ job[r] = "clear" => final[DestOf[r]] = None
      /\ job[r] \in {"taken", "there", "done"} => final[DestOf[r]] # None

\* What the exit code rests on.
ReportInv ==
    \A r \in Remote : /\ job[r] = "failed"  => bad
                      /\ job[r] = "stopped" => cancelled

DInv ==
    /\ TypeOK /\ PhaseInv /\ ClaimInv /\ EntryInv /\ PartInv /\ LeftInv
    /\ FinalInv /\ ReportInv /\ FinalIsComplete

\* Without a run nothing is listed and nothing in work.
LEMMA IdleIsEmpty ==
    ASSUME DInv, phase # "scanning"
    PROVE  \A r \in Remote : job[r] = "idle" /\ entry[r] = 0
<1> SUFFICES ASSUME NEW r \in Remote PROVE DirOf[r] > listed
  BY DEF DInv, PhaseInv
<1>1. listed = 0 /\ DirOf[r] \in 1 .. Dirs
  BY DownloadAssumption DEF DInv, PhaseInv
<1> QED BY <1>1, DownloadAssumption

\* The downloads start in the invariant.
LEMMA DInvInit == Init => DInv
<1>. SUFFICES ASSUME Init PROVE DInv
  OBVIOUS
<1>. USE DownloadAssumption DEF Init
<1>1. TypeOK
  <2>1. 1 \in Version
    BY DEF Version
  <2>2. /\ remote \in [Remote -> Version] /\ quiet \subseteq Remote
        /\ offered \in [Remote -> SUBSET Version]
    BY <2>1
  <2>3. entry \in [Remote -> 0 .. MaxVersion] /\ job \in [Remote -> Step \ Busy]
    BY DEF Step, Busy
  <2>4. faults \in 0 .. MaxFaults /\ stops \in 0 .. MaxStops /\ visits \in 0 .. MaxVisits
    OBVIOUS
  <2>5. final \in [Dest -> Content \cup {None}] /\ part \in [Dest -> Content \cup {None}]
    BY DEF Content
  <2>6. listed \in 0 .. Dirs
    OBVIOUS
  <2>. QED
    BY <2>2, <2>3, <2>4, <2>5, <2>6 DEF TypeOK
<1>2. PhaseInv /\ ClaimInv /\ EntryInv /\ PartInv /\ LeftInv /\ FinalInv /\ ReportInv
  BY DEF PhaseInv, ClaimInv, EntryInv, PartInv, LeftInv, FinalInv, ReportInv, Busy
<1>3. FinalIsComplete
  BY DEF FinalIsComplete
<1>. QED
  BY <1>1, <1>2, <1>3 DEF DInv

\* A file rewritten since its listing is excused from then on.
LEMMA WriteKeeps ==
  ASSUME DInv, NEW r \in Remote, Write(r)
  PROVE  DInv'
<1>. USE DownloadAssumption DEF Write, disk, run, bounds, DInv
<1>0. /\ \A q \in Remote : /\ remote[q] \in Nat /\ remote'[q] \in Nat
                          /\ remote[q] <= remote'[q] /\ entry[q] \in Nat
      /\ remote' = [remote EXCEPT ![r] = remote[r] + 1] /\ remote \in [Remote -> Version]
      /\ offered' = offered /\ offered \in [Remote -> SUBSET Version] /\ Version \subseteq Nat
  <2>1. Version \subseteq Nat
    BY DEF Version
  <2>2. /\ remote' = [remote EXCEPT ![r] = remote[r] + 1] /\ remote \in [Remote -> Version]
        /\ offered' = offered /\ offered \in [Remote -> SUBSET Version]
        /\ entry \in [Remote -> 0 .. MaxVersion]
    BY DEF TypeOK
  <2>3. \A q \in Remote : remote[q] \in Nat /\ entry[q] \in Nat
    <3>1. \A q \in Remote : remote[q] \in Version /\ entry[q] \in 0 .. MaxVersion
      BY <2>2
    <3>2. \A i \in 0 .. MaxVersion : i \in Nat
      OBVIOUS
    <3>. QED
      BY <2>1, <3>1, <3>2
  <2>4. \A q \in Remote : remote'[q] = IF q = r THEN remote[r] + 1 ELSE remote[q]
    BY <2>2
  <2>5. \A q \in Remote : remote'[q] \in Nat /\ remote[q] <= remote'[q]
    BY <2>3, <2>4
  <2>. QED
    BY <2>1, <2>2, <2>3, <2>5
<1>1. ClaimInv'
  BY DEF ClaimInv, TypeOK, Busy, PhaseInv
<1>2. TypeOK'
  <2>1. remote[r] + 1 \in Version
    BY DEF TypeOK, Version
  <2>. QED
    BY <1>1, <2>1 DEF TypeOK, ClaimInv, Content, Step, Busy
<1>3. PhaseInv'
  BY DEF PhaseInv, TypeOK
<1>4. EntryInv'
  BY <1>0 DEF EntryInv
<1>5. PartInv'
  BY <1>0 DEF PartInv, Good
<1>6. LeftInv'
  BY DEF LeftInv, TypeOK, AtPart, ClaimInv, Busy
<1>7. FinalInv'
  BY DEF FinalInv, TypeOK, ClaimInv, Busy
<1>8. ReportInv'
  BY DEF ReportInv, TypeOK
<1>9. FinalIsComplete'
  <2>. SUFFICES ASSUME NEW d \in Dest, final[d] \notin {None, Other, Odd}
                PROVE  /\ final[d] # Short
                       /\ \E q \in Remote :
                            /\ DestOf[q] = d
                            /\ final[d] \in offered[q] \/ \E v \in offered[q] : remote'[q] > v
    BY DEF FinalIsComplete
  <2>1. PICK q \in Remote : /\ DestOf[q] = d
                            /\ final[d] \in offered[q] \/ \E v \in offered[q] : remote[q] > v
    BY DEF FinalIsComplete
  <2>2. final[d] # Short
    BY DEF FinalIsComplete
  <2>3. \A v \in offered[q] : remote[q] > v => remote'[q] > v
    BY <1>0
  <2>. QED
    BY <2>1, <2>2, <2>3
<1>. QED
  BY <1>1, <1>2, <1>3, <1>4, <1>5, <1>6, <1>7, <1>8, <1>9

\* A version at rest is one the server offers.
LEMMA SettleKeeps ==
  ASSUME DInv, NEW r \in Remote, Settle(r)
  PROVE  DInv'
<1>. USE DownloadAssumption DEF Settle, disk, run, bounds, DInv
<1>1. ClaimInv'
  BY DEF ClaimInv, TypeOK, Busy, PhaseInv
<1>2. TypeOK'
  BY <1>1 DEF TypeOK, ClaimInv, Content, Step, Busy
<1>3. PhaseInv'
  BY DEF PhaseInv, TypeOK
<1>4. EntryInv'
  BY DEF EntryInv, TypeOK
<1>5. PartInv'
  BY DEF PartInv, Good, TypeOK, Busy, ClaimInv, PhaseInv
<1>6. LeftInv'
  BY DEF LeftInv, TypeOK, AtPart, ClaimInv, Busy
<1>7. FinalInv'
  BY DEF FinalInv, TypeOK, ClaimInv, Busy
<1>8. ReportInv'
  BY DEF ReportInv, TypeOK
<1>9. FinalIsComplete'
  BY DEF FinalIsComplete, TypeOK, PartInv, Good, EntryInv
<1>. QED
  BY <1>1, <1>2, <1>3, <1>4, <1>5, <1>6, <1>7, <1>8, <1>9

\* A visitor takes a free destination, never one about to be renamed to.
LEMMA VisitKeeps ==
  ASSUME DInv, NEW d \in Dest, Visit(d)
  PROVE  DInv'
<1>. USE DownloadAssumption DEF Visit, world, run, DInv
<1>1. ClaimInv'
  BY DEF ClaimInv, TypeOK, Busy, PhaseInv
<1>2. TypeOK'
  BY <1>1 DEF TypeOK, ClaimInv, Content, Step, Busy
<1>3. PhaseInv'
  BY DEF PhaseInv, TypeOK
<1>4. EntryInv'
  BY DEF EntryInv, TypeOK
<1>5. PartInv'
  BY DEF PartInv, Good, TypeOK, Busy, ClaimInv, PhaseInv
<1>6. LeftInv'
  BY DEF LeftInv, TypeOK, AtPart, ClaimInv, Busy
<1>7. FinalInv'
  BY DEF FinalInv, TypeOK, ClaimInv, Busy
<1>8. ReportInv'
  BY DEF ReportInv, TypeOK
<1>9. FinalIsComplete'
  BY DEF FinalIsComplete, TypeOK, PartInv, Good, EntryInv
<1>. QED
  BY <1>1, <1>2, <1>3, <1>4, <1>5, <1>6, <1>7, <1>8, <1>9

\* A run starts with nothing planned.
LEMMA StartRunKeeps ==
  ASSUME DInv, StartRun
  PROVE  DInv'
<1>. USE DownloadAssumption DEF StartRun, world, disk, bounds, DInv
<1>1. ClaimInv'
  BY DEF ClaimInv, TypeOK, Busy, PhaseInv
<1>2. TypeOK'
  BY <1>1 DEF TypeOK, ClaimInv, Content, Step, Busy
<1>3. PhaseInv'
  BY DEF PhaseInv, TypeOK
<1>4. EntryInv'
  BY DEF EntryInv, TypeOK
<1>5. PartInv'
  BY DEF PartInv, Good, TypeOK, Busy, ClaimInv, PhaseInv
<1>6. LeftInv'
  BY DEF LeftInv, TypeOK, AtPart, ClaimInv, Busy
<1>7. FinalInv'
  BY DEF FinalInv, TypeOK, ClaimInv, Busy
<1>8. ReportInv'
  BY DEF ReportInv, TypeOK
<1>9. FinalIsComplete'
  BY DEF FinalIsComplete, TypeOK, PartInv, Good, EntryInv
<1>. QED
  BY <1>1, <1>2, <1>3, <1>4, <1>5, <1>6, <1>7, <1>8, <1>9

\* The listing notes versions at rest only.
LEMMA ListKeeps ==
  ASSUME DInv, List
  PROVE  DInv'
<1>. USE DownloadAssumption DEF List, world, disk, bounds, DInv
<1>0. NextDirectory
  OBVIOUS
<1>a. listed' \in 0 .. Dirs /\ listed' > listed /\ phase = "scanning"
  BY <1>0 DEF NextDirectory, TypeOK
<1>b. \A r \in Remote : entry'[r] # entry[r] =>
        job[r] = "idle" /\ r \in quiet /\ entry'[r] = remote[r]
  <2>. SUFFICES ASSUME NEW r \in Remote, entry'[r] # entry[r]
                PROVE  job[r] = "idle" /\ r \in quiet /\ entry'[r] = remote[r]
    OBVIOUS
  <2>1. DirOf[r] = listed' /\ r \in quiet /\ entry'[r] = remote[r]
    BY DEF TypeOK
  <2>2. DirOf[r] > listed
    BY <1>a, <2>1 DEF TypeOK
  <2>. QED
    BY <2>1, <2>2 DEF PhaseInv
<1>c. \A r \in Remote : DirOf[r] > listed' => job[r] = "idle" /\ entry'[r] = 0
  <2>. SUFFICES ASSUME NEW r \in Remote, DirOf[r] > listed'
                PROVE  job[r] = "idle" /\ entry'[r] = 0
    OBVIOUS
  <2>1. DirOf[r] > listed /\ DirOf[r] # listed'
    BY <1>a DEF TypeOK
  <2>. QED
    BY <2>1 DEF PhaseInv
<1>1. ClaimInv'
  BY DEF ClaimInv
<1>2. TypeOK'
  <2>1. entry' \in [Remote -> 0 .. MaxVersion]
    <3>1. \A r \in Remote : remote[r] \in 0 .. MaxVersion /\ entry[r] \in 0 .. MaxVersion
      BY DEF TypeOK, Version
    <3>. QED
      BY <3>1
  <2>. QED
    BY <1>a, <1>1, <2>1 DEF TypeOK
<1>3. PhaseInv'
  BY <1>a, <1>c DEF PhaseInv
<1>4. EntryInv'
  <2>. SUFFICES ASSUME NEW r \in Remote
                PROVE  /\ entry'[r] > 0 => entry'[r] \in offered[r] /\ entry'[r] <= remote[r]
                       /\ job[r] # "idle" => entry'[r] > 0
    BY DEF EntryInv
  <2>1. CASE entry'[r] = entry[r]
    BY <2>1 DEF EntryInv
  <2>2. CASE entry'[r] # entry[r]
    <3>1. remote[r] \in Int
      BY DEF TypeOK, Version
    <3>. QED
      BY <1>b, <2>2, <3>1 DEF EntryInv
  <2>. QED
    BY <2>1, <2>2
<1>5. PartInv'
  BY <1>b DEF PartInv, Good
<1>6. LeftInv'
  BY DEF LeftInv
<1>7. FinalInv'
  BY DEF FinalInv
<1>8. ReportInv'
  BY DEF ReportInv
<1>9. FinalIsComplete'
  BY DEF FinalIsComplete
<1>. QED
  BY <1>1, <1>2, <1>3, <1>4, <1>5, <1>6, <1>7, <1>8, <1>9

\* A failed listing is in the report.
LEMMA ListFailsKeeps ==
  ASSUME DInv, ListFails
  PROVE  DInv'
<1>. USE DownloadAssumption DEF ListFails, NextDirectory, Fault, world, disk, DInv
<1>a. listed' \in 0 .. Dirs /\ \A r \in Remote : DirOf[r] > listed' => DirOf[r] > listed
  <2>1. listed \in 0 .. Dirs /\ listed' = listed + 1 /\ listed < Dirs
    BY DEF TypeOK
  <2>. QED
    BY <2>1
<1>1. ClaimInv'
  BY DEF ClaimInv, TypeOK, Busy, PhaseInv
<1>2. TypeOK'
  BY <1>a, <1>1 DEF TypeOK, ClaimInv, Content, Step, Busy
<1>3. PhaseInv'
  BY <1>a DEF PhaseInv
<1>4. EntryInv'
  BY DEF EntryInv, TypeOK
<1>5. PartInv'
  BY DEF PartInv, Good, TypeOK, Busy, ClaimInv, PhaseInv
<1>6. LeftInv'
  BY DEF LeftInv, TypeOK, AtPart, ClaimInv, Busy
<1>7. FinalInv'
  BY DEF FinalInv, TypeOK, ClaimInv, Busy
<1>8. ReportInv'
  BY DEF ReportInv, TypeOK
<1>9. FinalIsComplete'
  BY DEF FinalIsComplete, TypeOK, PartInv, Good, EntryInv
<1>. QED
  BY <1>1, <1>2, <1>3, <1>4, <1>5, <1>6, <1>7, <1>8, <1>9

\* A file is given a free destination or is a duplicate of an owned one.
LEMMA PlanKeeps ==
  ASSUME DInv, NEW r \in Remote, Plan(r)
  PROVE  DInv'
<1>. USE DownloadAssumption DEF Plan, To, world, disk, bounds, First, Pending, DInv
<1>1. ClaimInv'
  BY DEF ClaimInv, TypeOK, Busy, PhaseInv
<1>2. TypeOK'
  BY <1>1 DEF TypeOK, ClaimInv, Content, Step, Busy
<1>3. PhaseInv'
  BY DEF PhaseInv, TypeOK
<1>4. EntryInv'
  BY DEF EntryInv, TypeOK
<1>5. PartInv'
  BY DEF PartInv, Good, TypeOK, Busy, ClaimInv, PhaseInv
<1>6. LeftInv'
  BY DEF LeftInv, TypeOK, AtPart, ClaimInv, Busy
<1>7. FinalInv'
  BY DEF FinalInv, TypeOK, ClaimInv, Busy
<1>8. ReportInv'
  BY DEF ReportInv, TypeOK
<1>9. FinalIsComplete'
  BY DEF FinalIsComplete, TypeOK, PartInv, Good, EntryInv
<1>. QED
  BY <1>1, <1>2, <1>3, <1>4, <1>5, <1>6, <1>7, <1>8, <1>9

\* A scan that stops early does so on a cancellation.
LEMMA PlanStopsKeeps ==
  ASSUME DInv, NEW r \in Remote, PlanStops(r)
  PROVE  DInv'
<1>. USE DownloadAssumption DEF PlanStops, world, disk, run, bounds, First, Pending, DInv
<1>1. ClaimInv'
  BY DEF ClaimInv, TypeOK, Busy, PhaseInv
<1>2. TypeOK'
  BY <1>1 DEF TypeOK, ClaimInv, Content, Step, Busy
<1>3. PhaseInv'
  BY DEF PhaseInv, TypeOK
<1>4. EntryInv'
  BY DEF EntryInv, TypeOK
<1>5. PartInv'
  BY DEF PartInv, Good, TypeOK, Busy, ClaimInv, PhaseInv
<1>6. LeftInv'
  BY DEF LeftInv, TypeOK, AtPart, ClaimInv, Busy
<1>7. FinalInv'
  BY DEF FinalInv, TypeOK, ClaimInv, Busy
<1>8. ReportInv'
  BY DEF ReportInv, TypeOK
<1>9. FinalIsComplete'
  BY DEF FinalIsComplete, TypeOK, PartInv, Good, EntryInv
<1>. QED
  BY <1>1, <1>2, <1>3, <1>4, <1>5, <1>6, <1>7, <1>8, <1>9

\* The first look at a destination.
LEMMA JudgeKeeps ==
  ASSUME DInv, NEW r \in Remote, Judge(r)
  PROVE  DInv'
<1>. USE DownloadAssumption DEF Judge, To, Fails, Fault, world, disk, bounds, DInv
<1>1. ClaimInv'
  BY DEF ClaimInv, TypeOK, Busy, PhaseInv
<1>2. TypeOK'
  <2>1. \E s \in Step : job' = [job EXCEPT ![r] = s]
    BY DEF Step, Busy
  <2>5. bad' \in BOOLEAN
    BY DEF TypeOK
  <2>2. faults' \in 0 .. MaxFaults /\ UNCHANGED <<stops, visits>>
    BY DEF TypeOK
  <2>. QED
    BY <1>1, <2>1, <2>2, <2>5 DEF TypeOK, ClaimInv
<1>3. PhaseInv'
  BY DEF PhaseInv, TypeOK
<1>4. EntryInv'
  BY DEF EntryInv, TypeOK
<1>5. PartInv'
  BY DEF PartInv, Good, TypeOK, Busy, ClaimInv, PhaseInv
<1>6. LeftInv'
  BY DEF LeftInv, TypeOK, AtPart, ClaimInv, Busy
<1>7. FinalInv'
  BY DEF FinalInv, TypeOK, ClaimInv, Busy
<1>8. ReportInv'
  BY DEF ReportInv, TypeOK
<1>9. FinalIsComplete'
  BY DEF FinalIsComplete, TypeOK, PartInv, Good, EntryInv
<1>. QED
  BY <1>1, <1>2, <1>3, <1>4, <1>5, <1>6, <1>7, <1>8, <1>9

\* The .part has an owner from its creation on.
LEMMA StartCopyKeeps ==
  ASSUME DInv, NEW r \in Remote, StartCopy(r)
  PROVE  DInv'
<1>. USE DownloadAssumption DEF StartCopy, To, Fails, Fault, world, bounds, DInv
<1>1. ClaimInv'
  BY DEF ClaimInv, TypeOK, Busy, PhaseInv
<1>2. TypeOK'
  <2>1. \E s \in Step : job' = [job EXCEPT ![r] = s]
    BY DEF Step, Busy
  <2>5. bad' \in BOOLEAN
    BY DEF TypeOK
  <2>2. faults' \in 0 .. MaxFaults /\ UNCHANGED <<stops, visits>>
    BY DEF TypeOK
  <2>3. part' \in [Dest -> Content \cup {None}] /\ orphan' \subseteq Dest
    BY DEF TypeOK, Content
  <2>. QED
    BY <1>1, <2>1, <2>2, <2>5, <2>3 DEF TypeOK, ClaimInv
<1>3. PhaseInv'
  BY DEF PhaseInv, TypeOK
<1>4. EntryInv'
  BY DEF EntryInv, TypeOK
<1>5. PartInv'
  BY DEF PartInv, Good, TypeOK, Busy, ClaimInv, PhaseInv
<1>6. LeftInv'
  BY DEF LeftInv, TypeOK, AtPart, ClaimInv, Busy
<1>7. FinalInv'
  BY DEF FinalInv, TypeOK, ClaimInv, Busy
<1>8. ReportInv'
  BY DEF ReportInv, TypeOK
<1>9. FinalIsComplete'
  BY DEF FinalIsComplete, TypeOK, PartInv, Good, EntryInv
<1>. QED
  BY <1>1, <1>2, <1>3, <1>4, <1>5, <1>6, <1>7, <1>8, <1>9

\* What a copy yields: the version listed, a later one, or less.
LEMMA EndCopyKeeps ==
  ASSUME DInv, NEW r \in Remote, EndCopy(r)
  PROVE  DInv'
<1>. USE DownloadAssumption DEF EndCopy, To, Fails, Fault, world, run, bounds, DInv
<1>1. ClaimInv'
  BY DEF ClaimInv, TypeOK, Busy, PhaseInv
<1>2. TypeOK'
  BY <1>1 DEF TypeOK, ClaimInv, Content, Step, Busy
<1>3. PhaseInv'
  BY DEF PhaseInv, TypeOK
<1>4. EntryInv'
  BY DEF EntryInv, TypeOK
<1>5. PartInv'
  <2>1. /\ \A q \in Remote : remote[q] \in Version /\ entry[q] \in Int /\ remote[q] \in Int
        /\ entry[r] > 0 /\ entry[r] <= remote[r] /\ entry[r] \in offered[r]
        /\ r \in quiet => remote[r] \in offered[r]
    BY DEF TypeOK, Version, EntryInv
  <2>2. part' = part \/ \E c \in {remote[r], Mixed} :
            /\ c = Mixed => remote[r] # entry[r]
            /\ c # Mixed => remote[r] = entry[r] \/ r \in quiet
            /\ part' = [part EXCEPT ![DestOf[r]] = c]
    OBVIOUS
  <2>3. part[DestOf[r]] = Short
    BY DEF PartInv
  <2>4. part'[DestOf[r]] = Short \/ Good(r)'
    BY <2>1, <2>2, <2>3 DEF Good, TypeOK
  <2>5. \A q \in Remote : job[q] \in Busy /\ DestOf[q] = DestOf[r] => q = r
    BY DEF ClaimInv, Busy
  <2>. QED
    BY <2>2, <2>4, <2>5 DEF PartInv, Good, TypeOK, Busy
<1>6. LeftInv'
  BY DEF LeftInv, TypeOK, AtPart, ClaimInv, Busy
<1>7. FinalInv'
  BY DEF FinalInv, TypeOK, ClaimInv, Busy
<1>8. ReportInv'
  BY DEF ReportInv, TypeOK
<1>9. FinalIsComplete'
  BY DEF FinalIsComplete, TypeOK, PartInv, Good, EntryInv
<1>. QED
  BY <1>1, <1>2, <1>3, <1>4, <1>5, <1>6, <1>7, <1>8, <1>9

\* Nothing cut short passes the size check.
LEMMA MeasureKeeps ==
  ASSUME DInv, NEW r \in Remote, Measure(r)
  PROVE  DInv'
<1>. USE DownloadAssumption DEF Measure, To, Fails, Fault, world, disk, run, bounds, Measures, DInv
<1>1. ClaimInv'
  BY DEF ClaimInv, TypeOK, Busy, PhaseInv
<1>2. TypeOK'
  BY <1>1 DEF TypeOK, ClaimInv, Content, Step, Busy
<1>3. PhaseInv'
  BY DEF PhaseInv, TypeOK
<1>4. EntryInv'
  BY DEF EntryInv, TypeOK
<1>5. PartInv'
  BY DEF PartInv, Good, TypeOK, Busy, ClaimInv, PhaseInv
<1>6. LeftInv'
  BY DEF LeftInv, TypeOK, AtPart, ClaimInv, Busy
<1>7. FinalInv'
  BY DEF FinalInv, TypeOK, ClaimInv, Busy
<1>8. ReportInv'
  BY DEF ReportInv, TypeOK
<1>9. FinalIsComplete'
  BY DEF FinalIsComplete, TypeOK, PartInv, Good, EntryInv
<1>. QED
  BY <1>1, <1>2, <1>3, <1>4, <1>5, <1>6, <1>7, <1>8, <1>9

\* The second look at a destination.
LEMMA RecheckKeeps ==
  ASSUME DInv, NEW r \in Remote, Recheck(r)
  PROVE  DInv'
<1>. USE DownloadAssumption DEF Recheck, To, Fails, Fault, world, disk, run, bounds, DInv
<1>1. ClaimInv'
  BY DEF ClaimInv, TypeOK, Busy, PhaseInv
<1>2. TypeOK'
  BY <1>1 DEF TypeOK, ClaimInv, Content, Step, Busy
<1>3. PhaseInv'
  BY DEF PhaseInv, TypeOK
<1>4. EntryInv'
  BY DEF EntryInv, TypeOK
<1>5. PartInv'
  BY DEF PartInv, Good, TypeOK, Busy, ClaimInv, PhaseInv
<1>6. LeftInv'
  BY DEF LeftInv, TypeOK, AtPart, ClaimInv, Busy
<1>7. FinalInv'
  BY DEF FinalInv, TypeOK, ClaimInv, Busy
<1>8. ReportInv'
  BY DEF ReportInv, TypeOK
<1>9. FinalIsComplete'
  BY DEF FinalIsComplete, TypeOK, PartInv, Good, EntryInv
<1>. QED
  BY <1>1, <1>2, <1>3, <1>4, <1>5, <1>6, <1>7, <1>8, <1>9

\* The rename takes a good .part to a free destination.
LEMMA RenameKeeps ==
  ASSUME DInv, NEW r \in Remote, Rename(r)
  PROVE  DInv'
<1>. USE DownloadAssumption DEF Rename, To, Fails, Fault, world, run, bounds, DInv
<1>1. ClaimInv'
  BY DEF ClaimInv, TypeOK, Busy, PhaseInv
<1>2. TypeOK'
  BY <1>1 DEF TypeOK, ClaimInv, Content, Step, Busy
<1>3. PhaseInv'
  BY DEF PhaseInv, TypeOK
<1>4. EntryInv'
  BY DEF EntryInv, TypeOK
<1>5. PartInv'
  BY DEF PartInv, Good, TypeOK, Busy, ClaimInv, PhaseInv
<1>6. LeftInv'
  BY DEF LeftInv, TypeOK, AtPart, ClaimInv, Busy
<1>7. FinalInv'
  <2>1. part[DestOf[r]] # None /\ final \in [Dest -> Content \cup {None}] /\ DestOf[r] \in Dest
    BY DEF PartInv, Good, TypeOK
  <2>. QED
    BY <2>1 DEF FinalInv, TypeOK, ClaimInv, Busy
<1>8. ReportInv'
  BY DEF ReportInv, TypeOK
<1>9. FinalIsComplete'
  BY DEF FinalIsComplete, TypeOK, PartInv, Good, EntryInv
<1>. QED
  BY <1>1, <1>2, <1>3, <1>4, <1>5, <1>6, <1>7, <1>8, <1>9

\* A .part goes with its owner, or becomes an orphan.
LEMMA CleanupKeeps ==
  ASSUME DInv, NEW r \in Remote, Cleanup(r)
  PROVE  DInv'
<1>. USE DownloadAssumption DEF Cleanup, To, Fault, world, bounds, DInv
<1>1. ClaimInv'
  BY DEF ClaimInv, TypeOK, Busy, PhaseInv
<1>2. TypeOK'
  <2>1. \E s \in Step : job' = [job EXCEPT ![r] = s]
    BY DEF Step, Busy
  <2>5. bad' \in BOOLEAN
    BY DEF TypeOK
  <2>2. faults' \in 0 .. MaxFaults /\ UNCHANGED <<stops, visits>>
    BY DEF TypeOK
  <2>3. part' \in [Dest -> Content \cup {None}] /\ orphan' \subseteq Dest
    BY DEF TypeOK, Content
  <2>. QED
    BY <1>1, <2>1, <2>2, <2>5, <2>3 DEF TypeOK, ClaimInv
<1>3. PhaseInv'
  BY DEF PhaseInv, TypeOK
<1>4. EntryInv'
  BY DEF EntryInv, TypeOK
<1>5. PartInv'
  BY DEF PartInv, Good, TypeOK, Busy, ClaimInv, PhaseInv
<1>6. LeftInv'
  BY DEF LeftInv, TypeOK, AtPart, ClaimInv, Busy
<1>7. FinalInv'
  BY DEF FinalInv, TypeOK, ClaimInv, Busy
<1>8. ReportInv'
  <2>1. bad => bad'
    BY DEF TypeOK
  <2>2. job'[r] = "failed" => bad'
    BY DEF TypeOK
  <2>. QED
    BY <2>1, <2>2 DEF ReportInv, TypeOK
<1>9. FinalIsComplete'
  BY DEF FinalIsComplete, TypeOK, PartInv, Good, EntryInv
<1>. QED
  BY <1>1, <1>2, <1>3, <1>4, <1>5, <1>6, <1>7, <1>8, <1>9

\* At the end of a run no file owns a .part.
LEMMA EndRunKeeps ==
  ASSUME DInv, EndRun
  PROVE  DInv'
<1>. USE DownloadAssumption DEF EndRun, NoRun, world, disk, bounds, Pending, DInv
<1>1. ClaimInv'
  BY DEF ClaimInv, TypeOK, Busy, PhaseInv
<1>2. TypeOK'
  <2>1. job' \in [Remote -> Step \ Busy]
    BY DEF Step, Busy
  <2>2. entry' \in [Remote -> 0 .. MaxVersion] /\ claimed' \in [Dest -> Remote \cup {None}]
    OBVIOUS
  <2>3. listed' \in 0 .. Dirs /\ \A r \in Remote : job'[r] \notin Busy
    BY <2>1
  <2>. QED
    BY <2>1, <2>2, <2>3 DEF TypeOK
<1>3. PhaseInv'
  BY DEF PhaseInv, TypeOK
<1>4. EntryInv'
  BY DEF EntryInv, TypeOK
<1>5. PartInv'
  BY DEF PartInv, Good, TypeOK, Busy, ClaimInv, PhaseInv
<1>6. LeftInv'
  BY DEF LeftInv, AtPart, Busy, PhaseInv
<1>7. FinalInv'
  BY DEF FinalInv, TypeOK, ClaimInv, Busy
<1>8. ReportInv'
  BY DEF ReportInv, TypeOK
<1>9. FinalIsComplete'
  BY DEF FinalIsComplete, TypeOK, PartInv, Good, EntryInv
<1>. QED
  BY <1>1, <1>2, <1>3, <1>4, <1>5, <1>6, <1>7, <1>8, <1>9

\* A cancellation touches nothing on the disk.
LEMMA CancelKeeps ==
  ASSUME DInv, Cancel
  PROVE  DInv'
<1>. USE DownloadAssumption DEF Cancel, Stop, world, disk, DInv
<1>1. ClaimInv'
  BY DEF ClaimInv, TypeOK, Busy, PhaseInv
<1>2. TypeOK'
  BY <1>1 DEF TypeOK, ClaimInv, Content, Step, Busy
<1>3. PhaseInv'
  BY DEF PhaseInv, TypeOK
<1>4. EntryInv'
  BY DEF EntryInv, TypeOK
<1>5. PartInv'
  BY DEF PartInv, Good, TypeOK, Busy, ClaimInv, PhaseInv
<1>6. LeftInv'
  BY DEF LeftInv, TypeOK, AtPart, ClaimInv, Busy
<1>7. FinalInv'
  BY DEF FinalInv, TypeOK, ClaimInv, Busy
<1>8. ReportInv'
  BY DEF ReportInv, TypeOK
<1>9. FinalIsComplete'
  BY DEF FinalIsComplete, TypeOK, PartInv, Good, EntryInv
<1>. QED
  BY <1>1, <1>2, <1>3, <1>4, <1>5, <1>6, <1>7, <1>8, <1>9

\* A death makes orphans of the .part files it leaves.
LEMMA DieKeeps ==
  ASSUME DInv, Die
  PROVE  DInv'
<1>. USE DownloadAssumption DEF Die, Stop, NoRun, world, DInv
<1>1. ClaimInv'
  BY DEF ClaimInv, TypeOK, Busy, PhaseInv
<1>2. TypeOK'
  <2>1. job' \in [Remote -> Step \ Busy]
    BY DEF Step, Busy
  <2>2. entry' \in [Remote -> 0 .. MaxVersion] /\ claimed' \in [Dest -> Remote \cup {None}]
    OBVIOUS
  <2>3. stops' \in 0 .. MaxStops /\ orphan' \subseteq Dest /\ phase' = "idle"
        /\ exit' = "none" /\ bad' = FALSE /\ cancelled' = FALSE
        /\ UNCHANGED <<remote, quiet, offered, final, part, faults, visits>>
    BY DEF TypeOK
  <2>4. listed' \in 0 .. Dirs /\ \A r \in Remote : job'[r] \notin Busy
    BY <2>1
  <2>. QED
    BY <2>1, <2>2, <2>3, <2>4 DEF TypeOK
<1>3. PhaseInv'
  BY DEF PhaseInv, TypeOK
<1>4. EntryInv'
  BY DEF EntryInv, TypeOK
<1>5. PartInv'
  BY DEF PartInv, Good, TypeOK, Busy, ClaimInv, PhaseInv
<1>6. LeftInv'
  BY DEF LeftInv, TypeOK, AtPart, ClaimInv, Busy
<1>7. FinalInv'
  BY DEF FinalInv, TypeOK, ClaimInv, Busy
<1>8. ReportInv'
  BY DEF ReportInv, TypeOK
<1>9. FinalIsComplete'
  BY DEF FinalIsComplete, TypeOK, PartInv, Good, EntryInv
<1>. QED
  BY <1>1, <1>2, <1>3, <1>4, <1>5, <1>6, <1>7, <1>8, <1>9

\* Every step of the downloads keeps the invariant.
LEMMA DInvNext == DInv /\ [Next]_vars => DInv'
<1>1. ASSUME DInv, Next PROVE DInv'
  <2>1. CASE Run
    <3>1. ASSUME NEW r \in Remote, Work(r) PROVE DInv'
      BY <1>1, <3>1, PlanKeeps, PlanStopsKeeps, JudgeKeeps, StartCopyKeeps, EndCopyKeeps,
         MeasureKeeps, RecheckKeeps, RenameKeeps, CleanupKeeps DEF Work
    <3>. QED
      BY <1>1, <2>1, <3>1, StartRunKeeps, ListKeeps, ListFailsKeeps, EndRunKeeps DEF Run
  <2>2. CASE Environment
    BY <1>1, <2>2, WriteKeeps, SettleKeeps, VisitKeeps, CancelKeeps, DieKeeps DEF Environment
  <2>. QED
    BY <1>1, <2>1, <2>2 DEF Next
<1>2. ASSUME DInv, UNCHANGED vars PROVE DInv'
  BY <1>2 DEF DInv, TypeOK, PhaseInv, ClaimInv, EntryInv, PartInv, Good, LeftInv, FinalInv,
              ReportInv, FinalIsComplete, vars, world, disk, run, bounds
<1>. QED
  BY <1>1, <1>2

\* The invariant holds in every reachable state.
LEMMA DInvAlways == Spec => []DInv
  BY DInvInit, DInvNext, PTL DEF Spec

\* Every variable keeps its type, and a file with a worker owns its destination
\* and so its .part: no two goroutines ever write the same local file.
THEOREM OwnersAreUnique == Spec => []TypeOK
<1>. DInv => TypeOK
  BY DEF DInv
<1>. QED
  BY DInvAlways, PTL

\* A file under its final name is a whole version the server offered at rest,
\* or one rewritten since its listing; never one cut short (fetch).
THEOREM FinalsAreComplete == Spec => []FinalIsComplete
<1>. DInv => FinalIsComplete
  BY DEF DInv
<1>. QED
  BY DInvAlways, PTL

\* Between runs the only .part files are those of a death or of a removal that
\* failed (failClean, cleanup).
THEOREM NoPartStays == Spec => []NoPartLeft
<1>. DInv => NoPartLeft
  BY IdleIsEmpty DEF DInv, NoPartLeft, LeftInv, AtPart
<1>. QED
  BY DInvAlways, PTL

\* No step of this program or of the others replaces a file that has its final
\* name (judgeTarget twice, destSet).
THEOREM TargetsStay == Spec => TargetsNeverReplaced
<1> DEFINE Kept == \A d \in Dest : final[d] # None => final'[d] = final[d]
<1>1. ASSUME DInv, Next PROVE Kept
  <2>1. CASE UNCHANGED final
    BY <2>1
  <2>2. ASSUME NEW d \in Dest, Visit(d) PROVE Kept
    BY <1>1, <2>2 DEF Visit, DInv, TypeOK
  <2>3. ASSUME NEW r \in Remote, Rename(r) PROVE Kept
    BY <1>1, <2>3, DownloadAssumption DEF Rename, DInv, TypeOK, FinalInv
  <2>4. CASE Run
    BY <2>1, <2>3, <2>4
       DEF Run, Work, StartRun, List, ListFails, EndRun, Plan, PlanStops, Judge, StartCopy,
           EndCopy, Measure, Recheck, Cleanup, disk
  <2>5. CASE Environment
    BY <2>1, <2>2, <2>5 DEF Environment, Write, Settle, Cancel, Die, disk
  <2>. QED
    BY <1>1, <2>4, <2>5 DEF Next
<1>2. DInv /\ [Next]_vars => [Kept]_vars
  BY <1>1
<1>. QED
  BY <1>2, DInvAlways, PTL DEF Spec, TargetsNeverReplaced

\* A run ends well only when every file it listed has a file at its
\* destination (runCategory, Report.Failed).
THEOREM CleanExitIsPresent == Spec => CleanExitMeansPresent
<1> DEFINE Present == phase = "scanning" /\ phase' = "idle" /\ exit' = "ok" =>
                        \A r \in Remote : entry[r] > 0 => final[DestOf[r]] # None
<1>1. ASSUME DInv, EndRun PROVE Present
  <2>. SUFFICES ASSUME phase = "scanning", exit' = "ok", NEW r \in Remote, entry[r] > 0
                PROVE  final[DestOf[r]] # None
    OBVIOUS
  <2>1. ~cancelled /\ ~bad /\ Pending = {} /\ \A q \in Remote : job[q] \notin Busy
    BY <1>1 DEF EndRun, DInv, TypeOK
  <2>2. \A q \in Remote : job[q] \notin {"idle", "failed", "stopped"} \/ entry[q] = 0
    BY <1>1, <2>1, DownloadAssumption DEF DInv, ReportInv, Pending, TypeOK
  <2>3. \A q \in Remote : entry[q] > 0 => job[q] \in {"skipped", "there", "done"}
    BY <1>1, <2>1, <2>2 DEF DInv, TypeOK, Step
  <2>4. CASE job[r] \in {"there", "done"}
    BY <1>1, <2>4 DEF DInv, FinalInv
  <2>5. CASE job[r] = "skipped"
    <3> DEFINE q == claimed[DestOf[r]]
    <3>1. q \in Remote /\ DestOf[q] = DestOf[r] /\ job[q] \notin {"idle", "skipped"}
      BY <1>1, <2>5, DownloadAssumption DEF DInv, ClaimInv
    <3>2. entry[q] > 0
      BY <1>1, <3>1 DEF DInv, EntryInv
    <3>3. job[q] \in {"there", "done"}
      BY <2>3, <3>1, <3>2
    <3>. QED
      BY <1>1, <3>1, <3>3 DEF DInv, FinalInv
  <2>. QED
    BY <2>3, <2>4, <2>5
<1>2. ASSUME DInv, Next PROVE Present
  <2>1. CASE EndRun
    BY <1>1, <1>2, <2>1
  <2>2. CASE Die
    BY <2>2 DEF Die
  <2>3. CASE Run
    BY <2>1, <2>3
       DEF Run, Work, StartRun, List, ListFails, Plan, PlanStops, Judge, StartCopy,
           EndCopy, Measure, Recheck, Rename, Cleanup, run
  <2>4. CASE Environment
    BY <2>2, <2>4 DEF Environment, Write, Settle, Visit, Cancel, run
  <2>. QED
    BY <1>2, <2>3, <2>4 DEF Next
<1>3. DInv /\ [Next]_vars => [Present]_vars
  BY <1>2
<1>. QED
  BY <1>3, DInvAlways, PTL DEF Spec, CleanExitMeansPresent
=============================================================================
