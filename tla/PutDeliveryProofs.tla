------------------------- MODULE PutDeliveryProofs -------------------------
(***************************************************************************)
(* What a run of PutRun has done to the server and what its ledger says of *)
(* it, for any files, contents, workers, faults and deaths: the second     *)
(* half of the inductive invariant IInv, the theorems about deliveries,    *)
(* and those about a run as a whole: nothing is passed over, the pool is   *)
(* never stuck, and a run that ends leaves no row open.                    *)
(***************************************************************************)
EXTENDS PutRunProofs, WellFoundedInduction

\* The conjuncts about contents.
Contents == PrintInv /\ OpenedInv /\ SentInv
-----------------------------------------------------------------------------
\* Types the proofs below share.
LEMMA ContentTypes ==
    ASSUME CoreInv
    PROVE  /\ local \in [File -> LocalFile] /\ common \in [File -> CommonRow]
           /\ final \in [File -> RemoteFile \cup {NoFile}]
           /\ part \in [File -> RemoteFile \cup {NoFile}]
           /\ job \in [File -> Job] /\ row \in [Key -> Ledger!Rows]
           /\ \A f \in File : local[f].body \in Body /\ local[f].body \in Nat
           /\ \A f \in File : local[f].mtime \in Nat /\ common[f].mtime \in Nat
           /\ \A f \in File : common[f].mtime <= local[f].mtime
<1>1. TypeOK /\ FactsInv
  BY DEF CoreInv, TypeInv
<1>2. \A f \in File : local[f].body \in Body /\ local[f].mtime \in 1 .. MaxMTime
  BY <1>1 DEF TypeOK, LocalFile
<1>3. \A f \in File : common[f].mtime \in 0 .. MaxMTime
  BY <1>1 DEF TypeOK, CommonRow
<1>4. 1 .. MaxMTime \subseteq Nat /\ 0 .. MaxMTime \subseteq Nat /\ Body \subseteq Nat
  BY BodyAssumption, BoundAssumption
<1>5. row \in [Key -> Ledger!Rows]
  BY <1>1 DEF TypeOK, Ledger!TypeOK
<1>6. /\ local \in [File -> LocalFile] /\ common \in [File -> CommonRow]
      /\ final \in [File -> RemoteFile \cup {NoFile}]
      /\ part \in [File -> RemoteFile \cup {NoFile}]
      /\ job \in [File -> Job]
  BY <1>1 DEF TypeOK
<1>7. \A f \in File : common[f].mtime <= local[f].mtime
  BY <1>1 DEF FactsInv
<1> QED BY <1>2, <1>3, <1>4, <1>5, <1>6, <1>7

\* A step that moves no content: the server, the files and common_ledger stay,
\* no row becomes VERIFIED, and no transfer enters the middle of its way.
LEMMA ContentsKept ==
    ASSUME CoreInv, Contents, UNCHANGED <<local, final, part, common>>,
           \A f \in File : \/ job'[f] = job[f]
                           \/ job'[f].step \notin {"uploading", "uploaded", "checked",
                                                   "renamed", "confirmed"},
           \A k \in Key : row'[k].status = "VERIFIED" => row[k].status = "VERIFIED",
           \A k \in Key : row[k].status \in {"IN_PROGRESS", "FAILED"}
                            => row'[k].status \in {"IN_PROGRESS", "FAILED"}
    PROVE  Contents'
<1>1. PrintInv'
  BY DEF Contents, PrintInv
<1>2. OpenedInv'
  BY DEF Contents, OpenedInv, Faithful
<1>3. \A f \in File : common[f].rev # 0 => Current(f) \in Key
  BY KeyOf DEF CoreInv, TypeInv
<1>4. \A f \in File, r \in Rev : <<f, r>> \in Key
  BY DEF Key
<1>6. SentInv'
  <2> SUFFICES ASSUME NEW f \in File
      PROVE  /\ job'[f].step \in {"uploaded", "checked"} =>
                  part'[f] # NoFile /\ Faithful(f, part[f].body)'
             /\ job'[f].step \in {"renamed", "confirmed"} => Delivered(f, job[f].size)'
             /\ common'[f].rev # 0 /\ row'[Current(f)'].status = "VERIFIED" =>
                  Delivered(f, common[f].size)'
             /\ part'[f] # NoFile =>
                  \E r \in Rev : row'[<<f, r>>].status \in {"IN_PROGRESS", "FAILED"}
    BY DEF SentInv
  <2>1. Current(f)' = Current(f) /\ part' = part /\ common' = common
    BY DEF Current
  <2>2. job'[f].step \in {"uploaded", "checked"} =>
                  part'[f] # NoFile /\ Faithful(f, part[f].body)'
    BY <2>1 DEF Contents, SentInv, Faithful
  <2>3. job'[f].step \in {"renamed", "confirmed"} => Delivered(f, job[f].size)'
    BY <2>1 DEF Contents, SentInv, Delivered, Faithful
  <2>4. common'[f].rev # 0 /\ row'[Current(f)'].status = "VERIFIED" =>
                  Delivered(f, common[f].size)'
    BY <1>3, <2>1 DEF Contents, SentInv, Delivered, Faithful
  <2>5. part'[f] # NoFile =>
                  \E r \in Rev : row'[<<f, r>>].status \in {"IN_PROGRESS", "FAILED"}
    BY <1>4, <2>1 DEF Contents, SentInv
  <2> QED BY <2>2, <2>3, <2>4, <2>5
<1> QED BY <1>1, <1>2, <1>6 DEF Contents

\* The producer: an edit is newer than what the ledger knows, and without
\* reverts only an edit that keeps the content keeps the fingerprint's.
LEMMA ContentsEdit ==
    ASSUME CoreInv, Contents, NEW f \in File, Edit(f) PROVE Contents'
<1>1. /\ UNCHANGED <<final, part, common, row, job>>
      /\ \A g \in File \ {f} : local'[g] = local[g]
      /\ local'[f].mtime = local[f].mtime + 1
      /\ Reverts \/ local'[f].body >= local[f].body
      /\ local'[f].body \in Nat
  <2>1. PICK b \in Body, there \in BOOLEAN :
          /\ Reverts \/ b >= local[f].body
          /\ local' = [local EXCEPT ![f] = [there |-> there, body |-> b,
                                            mtime |-> local[f].mtime + 1]]
    BY DEF Edit
  <2> QED BY <2>1, ContentTypes, BodyAssumption DEF Edit, ledgers
<1>2. /\ local[f].mtime \in Nat /\ common[f].mtime \in Nat /\ local[f].body \in Nat
      /\ common[f].mtime <= local[f].mtime
      /\ common[f].hash # NoHash => common[f].hash \in Nat
  BY ContentTypes, BodyAssumption DEF CommonRow
<1>3. common'[f].mtime # local'[f].mtime
  BY <1>1, <1>2
<1>4. PrintInv'
  <2> SUFFICES ASSUME NEW g \in File, common[g].hash # NoHash
               PROVE  /\ common[g].mtime = local'[g].mtime => common[g].hash = local'[g].body
                      /\ ~ Reverts => common[g].hash <= local'[g].body
    BY <1>1 DEF PrintInv
  <2>1. CASE g = f
    BY <1>1, <1>2, <1>3, <2>1 DEF Contents, PrintInv
  <2>2. CASE g # f
    BY <1>1, <2>2 DEF Contents, PrintInv
  <2> QED BY <2>1, <2>2
<1>5. ASSUME NEW g \in File, NEW c, Faithful(g, c)
      PROVE  /\ common'[g].mtime = local'[g].mtime
                    /\ (~ Reverts \/ common'[g].hash = NoHash) => c = local'[g].body
             /\ ~ Reverts /\ common'[g].hash # NoHash
                    /\ common'[g].hash = local'[g].body => c = local'[g].body
  <2>1. CASE g # f
    BY <1>1, <1>5, <2>1 DEF Faithful
  <2>2. CASE g = f
    <3> SUFFICES ASSUME ~ Reverts, common[f].hash # NoHash, common[f].hash = local'[f].body
                 PROVE  c = local'[f].body
      BY <1>1, <1>3, <2>2
    <3>1. common[f].hash <= local[f].body
      BY DEF Contents, PrintInv
    <3>2. local[f].body = local'[f].body
      BY <1>1, <1>2, <3>1
    <3> QED BY <1>5, <2>2, <3>2 DEF Faithful
  <2> QED BY <2>1, <2>2
<1>6. OpenedInv'
  <2> SUFFICES ASSUME NEW g \in File, job[g].step = "uploading"
               PROVE  /\ common'[g].mtime <= job[g].src.mtime
                      /\ job[g].src.mtime <= local'[g].mtime
                      /\ job[g].src.mtime = local'[g].mtime => job[g].src.body = local'[g].body
                      /\ Faithful(g, job[g].src.body)'
    BY <1>1 DEF OpenedInv
  <2>1. /\ common[g].mtime <= job[g].src.mtime /\ job[g].src.mtime <= local[g].mtime
        /\ job[g].src.mtime = local[g].mtime => job[g].src.body = local[g].body
        /\ Faithful(g, job[g].src.body)
    BY DEF Contents, OpenedInv
  <2>2. Faithful(g, job[g].src.body)'
    BY <1>1, <1>5, <2>1 DEF Faithful
  <2>3. job[g].src.mtime \in Nat
    BY BoundAssumption DEF CoreInv, TypeInv, SrcKnown, LocalFile
  <2> QED BY <1>1, <1>2, <2>1, <2>2, <2>3
<1>7. SentInv'
  <2> SUFFICES ASSUME NEW g \in File
      PROVE  /\ job[g].step \in {"uploaded", "checked"} =>
                  part[g] # NoFile /\ Faithful(g, part[g].body)'
             /\ job[g].step \in {"renamed", "confirmed"} => Delivered(g, job[g].size)'
             /\ common[g].rev # 0 /\ row[Current(g)].status = "VERIFIED" =>
                  Delivered(g, common[g].size)'
             /\ part[g] # NoFile =>
                  \E r \in Rev : row[<<g, r>>].status \in {"IN_PROGRESS", "FAILED"}
    BY <1>1 DEF SentInv, Current
  <2>2. Faithful(g, part[g].body) => Faithful(g, part[g].body)'
    BY <1>1, <1>5 DEF Faithful
  <2>3. Faithful(g, final[g].body) => Faithful(g, final[g].body)'
    BY <1>1, <1>5 DEF Faithful
  <2> QED BY <1>1, <2>2, <2>3 DEF Contents, SentInv, Delivered
<1> QED BY <1>4, <1>6, <1>7 DEF Contents

\* A judgement rewrites the row of one file, for which no transfer runs: what was
\* delivered for the revision on record still passes for the file.
LEMMA ContentsJudged ==
    ASSUME CoreInv, Contents, phase = "scan", NEW f \in File,
           UNCHANGED <<world, row, job>>,
           \A g \in File \ {f} : common'[g] = common[g],
           common'[f].hash # NoHash =>
               /\ common'[f].mtime = local[f].mtime => common'[f].hash = local[f].body
               /\ ~ Reverts => common'[f].hash <= local[f].body,
           common'[f].rev # 0 /\ row[<<f, common'[f].rev>>].status = "VERIFIED" =>
               /\ common[f].rev # 0 /\ common'[f].rev = common[f].rev
               /\ common'[f].size = common[f].size
               /\ \A c : Faithful(f, c) => Faithful(f, c)'
    PROVE  Contents'
<1>1. \A g \in File : job[g].step = "none"
  BY DEF CoreInv, JobInv
<1>2. UNCHANGED <<local, final, part, row, job>>
  BY DEF world
<1>3. PrintInv'
  BY <1>2 DEF Contents, PrintInv
<1>4. OpenedInv'
  BY <1>1, <1>2 DEF OpenedInv
<1>5. ASSUME NEW g \in File, common'[g].rev # 0, row[<<g, common'[g].rev>>].status = "VERIFIED"
      PROVE  Delivered(g, common[g].size)'
  <2>1. CASE g = f
    <3>1. Delivered(f, common[f].size) /\ common'[f].size = common[f].size
      BY <1>5, <2>1 DEF Contents, SentInv, Current
    <3>2. Faithful(f, final[f].body) => Faithful(f, final[f].body)'
      BY <1>2, <1>5, <2>1
    <3> QED BY <1>2, <2>1, <3>1, <3>2 DEF Delivered
  <2>2. CASE g # f
    BY <1>2, <1>5, <2>2 DEF Contents, SentInv, Current, Delivered, Faithful
  <2> QED BY <2>1, <2>2
<1>6. SentInv'
  <2>1. \A g \in File : part[g] # NoFile =>
           \E r \in Rev : row[<<g, r>>].status \in {"IN_PROGRESS", "FAILED"}
    BY DEF Contents, SentInv
  <2> QED BY <1>1, <1>2, <1>5, <2>1 DEF SentInv, Current
<1> QED BY <1>3, <1>4, <1>6 DEF Contents

\* Each judgement is of that kind: a new revision starts without a row, a
\* fingerprint is taken of an unedited file, and a touched file still has the
\* fingerprint it had.
LEMMA ContentsJudging ==
    ASSUME CoreInv, Contents, NEW f \in File, Judging(f) PROVE Contents'
<1>1. /\ stage[f] = "listed" /\ phase = "scan" /\ UNCHANGED <<world, row, job>>
  BY DEF CoreInv, StageInv, Judging, JudgeKnown, JudgeUnhashed, JudgeTouched, JudgeChanged,
         JudgeUnstable, JudgeRejected, Classify, Judged
<1>2. /\ common \in [File -> CommonRow] /\ common[f] \in CommonRow
      /\ entry[f] \in Facts /\ common[f].mtime <= local[f].mtime
      /\ local[f].body \in Nat /\ local[f].body \in Body
      /\ common[f].rev \in Nat /\ common[f].mtime \in Nat
  BY <1>1, ContentTypes, BoundAssumption DEF CoreInv, TypeInv, FactsInv, CommonRow
<1>3. ASSUME NEW h \in Body \cup {NoHash}, HashRead(f, h), h # NoHash
      PROVE  h = local[f].body /\ entry[f].mtime = local[f].mtime
  BY <1>3 DEF HashRead, FactsOf
<1>4. CASE JudgeKnown(f) \/ JudgeUnstable(f) \/ JudgeRejected(f)
  <2>1. common' = common /\ UNCHANGED <<local, final, part>>
    BY <1>1, <1>4 DEF JudgeKnown, JudgeUnstable, JudgeRejected, world
  <2> QED BY <1>1, <2>1, ContentsKept
<1>5. CASE JudgeUnhashed(f)
  <2> PICK h \in Body \cup {NoHash} : HashRead(f, h) /\ SetContentHash(f, h)
    BY <1>5 DEF JudgeUnhashed
  <2>1. /\ common'[f].hash = h /\ common'[f].rev = common[f].rev
        /\ common'[f].size = common[f].size /\ common'[f].mtime = common[f].mtime
        /\ \A g \in File \ {f} : common'[g] = common[g]
    BY <1>2 DEF SetContentHash, CommonRow
  <2>2. common[f].hash = NoHash /\ common[f].rev # 0 /\ common[f].mtime = entry[f].mtime
    BY <1>5 DEF JudgeUnhashed, MayHash, SameFacts
  <2>3. \A c : Faithful(f, c) => Faithful(f, c)'
    BY <1>1, <1>3, <2>1, <2>2 DEF Faithful, world
  <2>4. common'[f].hash # NoHash =>
               /\ common'[f].mtime = local[f].mtime => common'[f].hash = local[f].body
               /\ ~ Reverts => common'[f].hash <= local[f].body
    BY <1>2, <1>3, <2>1
  <2> QED BY <1>1, <2>1, <2>2, <2>3, <2>4, ContentsJudged
<1>6. CASE JudgeTouched(f)
  <2>1. /\ common'[f].hash = common[f].hash /\ common'[f].rev = common[f].rev
        /\ common'[f].size = common[f].size /\ common'[f].mtime = entry[f].mtime
        /\ \A g \in File \ {f} : common'[g] = common[g]
    BY <1>2, <1>6 DEF JudgeTouched, TouchCommonMTime, CommonRow
  <2>2. common[f].hash # NoHash /\ common[f].rev # 0
    BY <1>6 DEF JudgeTouched, Drifted
  <2>3. common[f].hash = local[f].body
    BY <1>2, <1>3, <1>6, <2>2 DEF JudgeTouched, CommonRow
  <2>4. \A c : Faithful(f, c) => Faithful(f, c)'
    BY <1>1, <2>1, <2>2, <2>3 DEF Faithful, world
  <2>5. common'[f].hash = local[f].body /\ common'[f].hash <= local[f].body
    BY <1>2, <2>1, <2>3
  <2> QED BY <1>1, <2>1, <2>2, <2>4, <2>5, ContentsJudged
<1>7. CASE JudgeChanged(f)
  <2> PICK h \in Body \cup {NoHash} : HashRead(f, h) /\ UpsertCommon(f, h)
    BY <1>7 DEF JudgeChanged
  <2>1. /\ common'[f].hash = h /\ common'[f].rev = common[f].rev + 1
        /\ common'[f].mtime = entry[f].mtime
        /\ \A g \in File \ {f} : common'[g] = common[g]
    BY <1>2 DEF UpsertCommon
  <2>2. common'[f].rev \in Rev
    <3>1. common'[f] \in CommonRow
      BY TypeJudging DEF CoreInv, TypeInv, TypeOK
    <3> QED BY <1>2, <2>1, <3>1, BoundAssumption DEF CommonRow, Rev
  <2>3. row[<<f, common'[f].rev>>].status # "VERIFIED"
    BY <1>2, <2>1, <2>2 DEF CoreInv, RowsInv, Ledger!NoRow
  <2>4. common'[f].hash # NoHash =>
               /\ common'[f].mtime = local[f].mtime => common'[f].hash = local[f].body
               /\ ~ Reverts => common'[f].hash <= local[f].body
    BY <1>2, <1>3, <2>1
  <2> QED BY <1>1, <2>1, <2>3, <2>4, ContentsJudged
<1> QED BY <1>4, <1>5, <1>6, <1>7 DEF Judging

\* Recovery removes a .part and fails a row: no content of a delivered file.
LEMMA ContentsRecovering ==
    ASSUME CoreInv, Contents, Recovering PROVE Contents'
<1>1. CASE RecoverDone
  BY <1>1, ContentsKept DEF RecoverDone, world, ledgers
<1>2. ASSUME NEW k \in Key, RemoveLeftover(k) PROVE Contents'
  <2>1. /\ phase = "recover" /\ UNCHANGED <<local, final, common, row, job>>
        /\ k[1] \in File
        /\ \A f \in File : part'[f] = part[f] \/ part'[f] = NoFile
    BY <1>2, ContentTypes DEF RemoveLeftover, ledgers, Key
  <2>2. \A f \in File : job[f].step = "none"
    BY <2>1 DEF CoreInv, JobInv
  <2>3. PrintInv' /\ OpenedInv'
    BY <2>1, <2>2 DEF Contents, PrintInv, OpenedInv
  <2>4. SentInv'
    BY <2>1, <2>2 DEF Contents, SentInv, Current, Delivered, Faithful
  <2> QED BY <2>3, <2>4 DEF Contents
<1>3. ASSUME NEW k \in Key, FailLeftover(k) PROVE Contents'
  <2>1. UNCHANGED <<local, final, part, common, job>>
    BY <1>3 DEF FailLeftover, world
  <2>2. /\ row'[k].status = "FAILED" /\ \A i \in Key \ {k} : row'[i] = row[i]
    BY <1>3, ContentTypes DEF FailLeftover, Ledger!Rows, Ledger!FailPut
  <2> QED BY <2>1, <2>2, ContentsKept
<1> QED BY <1>1, <1>2, <1>3 DEF Recovering

\* The plan inserts PENDING rows and queues transfers.
LEMMA ContentsPlan ==
    ASSUME CoreInv, Contents, PlanRun PROVE Contents'
<1>1. UNCHANGED <<local, final, part, common>>
  BY DEF PlanRun, world
<1>2. \A f \in File : job'[f].step \in {"none", "queued"}
  BY DEF PlanRun, JobFor, NoJob
<1>3. \A k \in Key : \/ row'[k] = row[k]
                     \/ row[k].status = "NONE" /\ row'[k].status = "PENDING"
  BY DEF PlanRun, Ledger!InsertPendingBatch, Ledger!NoRow
<1> QED BY <1>1, <1>2, <1>3, ContentsKept

\* The start, the listing and the end of a run move no content.
LEMMA ContentsStages ==
    ASSUME CoreInv, Contents,
           \/ \E k \in Kinds : StartRun(k)
           \/ \E d \in Dir : ListDir(d) \/ SkipDir(d)
           \/ EndRun \/ RunDies \/ Cancel \/ Abort \/ Disconnect
    PROVE  Contents'
<1>1. UNCHANGED <<local, final, part, common, row>>
  BY DEF StartRun, ListDir, SkipDir, EndRun, RunDies, Cancel, Abort, Disconnect, Rest,
         world, ledgers
<1>2. \A f \in File : job'[f] = job[f] \/ job'[f].step = "none"
  BY DEF StartRun, ListDir, SkipDir, EndRun, RunDies, Cancel, Abort, Disconnect, Forget, NoJob
<1> QED BY <1>1, <1>2, ContentsKept
-----------------------------------------------------------------------------
\* A step of the transfer of f: whatever it does must be right for f itself.
LEMMA ContentsOfOne ==
    ASSUME CoreInv, Contents, UNCHANGED <<local, common>>, NEW f \in File,
           job[f].rev # 0, job[f].rev = common[f].rev,
           \A g \in File \ {f} : /\ job'[g] = job[g] /\ part'[g] = part[g]
                                 /\ final'[g] = final[g],
           \A k \in Key : k # <<f, job[f].rev>> => row'[k] = row[k],
           job'[f].step = "uploading" => job'[f].src = local[f],
           job'[f].step \in {"uploaded", "checked"} =>
               part'[f] # NoFile /\ Faithful(f, part'[f].body),
           job'[f].step \in {"renamed", "confirmed"}
             \/ row'[Current(f)].status = "VERIFIED" =>
               /\ part'[f] = NoFile /\ final'[f] # NoFile
               /\ final'[f].size = common[f].size /\ Faithful(f, final'[f].body),
           job'[f].step \in {"renamed", "confirmed"} => job'[f].size = common[f].size,
           part'[f] # NoFile => row'[Current(f)].status \in {"IN_PROGRESS", "FAILED"}
                                \/ (part[f] # NoFile /\ row' = row)
    PROVE  Contents'
<1>1. /\ Current(f) = <<f, job[f].rev>> /\ Current(f) \in Key /\ common[f].rev \in Rev
      /\ \A g \in File : common[g].rev # 0 => Current(g) \in Key
  BY KeyOf DEF CoreInv, TypeInv, Current
<1>2. \A g \in File \ {f} : Current(g) # Current(f)
  BY DEF Current
<1>3. \A g \in File : \A c : Faithful(g, c) => Faithful(g, c)'
  BY DEF Faithful
<1>4. PrintInv'
  BY DEF Contents, PrintInv
<1>5. OpenedInv'
  <2>1. /\ common[f].mtime <= local[f].mtime /\ local[f].mtime <= local[f].mtime
        /\ Faithful(f, local[f].body)
    BY ContentTypes DEF Faithful
  <2> QED BY <2>1 DEF Contents, OpenedInv, Faithful
<1>6. SentInv'
  <2> SUFFICES ASSUME NEW g \in File
      PROVE  /\ job'[g].step \in {"uploaded", "checked"} =>
                  part'[g] # NoFile /\ Faithful(g, part[g].body)'
             /\ job'[g].step \in {"renamed", "confirmed"} => Delivered(g, job[g].size)'
             /\ common[g].rev # 0 /\ row'[Current(g)].status = "VERIFIED" =>
                  Delivered(g, common[g].size)'
             /\ part'[g] # NoFile =>
                  \E r \in Rev : row'[<<g, r>>].status \in {"IN_PROGRESS", "FAILED"}
    BY DEF SentInv, Current
  <2>1. CASE g = f
    <3>1. \A c : Faithful(f, c) <=> Faithful(f, c)'
      BY DEF Faithful
    <3>2. part'[f] # NoFile =>
            \E r \in Rev : row'[<<f, r>>].status \in {"IN_PROGRESS", "FAILED"}
      BY <1>1 DEF Contents, SentInv, Current
    <3>3. Faithful(f, part[f].body)' <=> Faithful(f, part'[f].body)
      BY DEF Faithful
    <3>4. Faithful(f, final[f].body)' <=> Faithful(f, final'[f].body)
      BY DEF Faithful
    <3> QED BY <2>1, <3>2, <3>3, <3>4 DEF Delivered
  <2>2. CASE g # f
    <3>1. /\ job'[g] = job[g] /\ part'[g] = part[g] /\ final'[g] = final[g]
          /\ common'[g] = common[g] /\ local'[g] = local[g]
      BY <2>2
    <3>2. common[g].rev # 0 => row'[Current(g)] = row[Current(g)]
      BY <1>1, <1>2, <2>2
    <3>3. \A r \in Rev : row'[<<g, r>>] = row[<<g, r>>]
      BY <2>2 DEF Key
    <3> QED BY <3>1, <3>2, <3>3 DEF Contents, SentInv, Delivered, Faithful
  <2> QED BY <2>1, <2>2
<1> QED BY <1>4, <1>5, <1>6 DEF Contents

\* What is copied passes for the file: it is the opened file or the file now,
\* and only a file edited since its listing is torn.
LEMMA CopyIsFaithful ==
    ASSUME CoreInv, Contents, NEW f \in File, job[f].step = "uploading",
           NEW c \in Copied(f)
    PROVE  Faithful(f, c.body) /\ c # NoFile
<1> DEFINE src == job[f].src
<1>1. /\ common[f].mtime <= src.mtime /\ src.mtime <= local[f].mtime
      /\ src.mtime = local[f].mtime => src.body = local[f].body
      /\ Faithful(f, src.body)
  BY DEF Contents, OpenedInv
<1>2. /\ local[f] \in LocalFile /\ src \in LocalFile
      /\ common[f].mtime \in Nat /\ src.mtime \in Nat /\ local[f].mtime \in Nat
  BY ContentTypes, BoundAssumption DEF CoreInv, TypeInv, SrcKnown, LocalFile
<1>3. ASSUME c.body = src.body \/ c.body = local[f].body
      PROVE  Faithful(f, c.body)
  BY <1>1, <1>3 DEF Faithful
<1>4. ASSUME c.body = Mixed,
             src.body # local[f].body \/ (Reverts /\ local[f].mtime > src.mtime + 1)
      PROVE  Faithful(f, c.body)
  <2>1. src.mtime # local[f].mtime
    BY <1>1, <1>2, <1>4
  <2>2. common[f].mtime # local[f].mtime
    BY <1>1, <1>2, <2>1
  <2>3. ~ Reverts => src.body # local[f].body
    BY <1>4
  <2> QED BY <1>1, <2>2, <2>3 DEF Faithful
<1>5. c \in RemoteFile
  <2>1. src.body \in Body /\ local[f].body \in Body
    BY <1>2 DEF LocalFile
  <2>2. \A b \in Body : [body |-> b, size |-> SizeOf[b]] \in RemoteFile
    BY SizesAreNat DEF RemoteFile
  <2>3. [body : {Mixed}, size : Sizes] \subseteq RemoteFile
    BY DEF RemoteFile
  <2> QED BY <2>1, <2>2, <2>3 DEF Copied
<1>6. c # NoFile
  BY <1>5, FileAssumption
<1>7. \/ c.body = src.body \/ c.body = local[f].body
      \/ /\ c.body = Mixed
         /\ src.body # local[f].body \/ (Reverts /\ local[f].mtime > src.mtime + 1)
  BY DEF Copied
<1> QED BY <1>3, <1>4, <1>6, <1>7

\* The steps of a transfer that fail it, or begin it, move no content.
LEMMA ContentsFailing ==
    ASSUME CoreInv, Contents, NEW f \in File,
           \/ SkipVanished(f) \/ SkipStale(f) \/ BeginPut(f) \/ RemoteError(f)
           \/ CleanupError(f) \/ FailPut(f) \/ LedgerError(f)
    PROVE  Contents'
<1> DEFINE k == <<f, job[f].rev>>
<1>1. Sending(f)
  BY DEF Sending
<1>2. UNCHANGED <<local, final, part, common>>
  BY DEF SkipVanished, SkipStale, BeginPut, RemoteError, CleanupError, FailPut, LedgerError, Rest
<1>3. /\ job \in [File -> Job] /\ row \in [Key -> Ledger!Rows]
      /\ \A g \in File \ {f} : job'[g] = job[g]
      /\ \A i \in Key : i # k => row'[i] = row[i]
  BY <1>1, ContentTypes, SendingShape DEF CoreInv
<1>4. job'[f].step \in {"done", "begun", "failing", "failed", "lost"}
  BY <1>3, DoneTyped
  DEF SkipVanished, SkipStale, BeginPut, RemoteError, CleanupError, FailPut, LedgerError,
      Over, To, Job
<1>5. \/ row' = row
      \/ Ledger!FailPut(k) \/ Ledger!BeginPut(k, job[f].bound)
  BY DEF SkipVanished, SkipStale, BeginPut, RemoteError, CleanupError, FailPut, LedgerError
<1>6. k \in Key => row' = row \/ row'[k].status \in {"IN_PROGRESS", "FAILED"}
  BY <1>3, <1>5 DEF Ledger!FailPut, Ledger!BeginPut, Ledger!Rows
<1> QED BY <1>2, <1>3, <1>4, <1>6, ContentsKept

\* Every step of a transfer: what it copies is the file's, what it moves into
\* place was checked, and only what was moved there is recorded as VERIFIED.
LEMMA ContentsSending ==
    ASSUME CoreInv, Contents, NEW f \in File, Sending(f) PROVE Contents'
<1> DEFINE k == <<f, job[f].rev>>
<1>1. /\ job \in [File -> Job] /\ row \in [Key -> Ledger!Rows]
      /\ part \in [File -> RemoteFile \cup {NoFile}]
      /\ final \in [File -> RemoteFile \cup {NoFile}]
      /\ local[f] \in LocalFile
  BY ContentTypes
<1>2. /\ \A g \in File \ {f} : job'[g] = job[g] /\ part'[g] = part[g]
      /\ \A i \in Key : i # k => row'[i] = row[i]
      /\ UNCHANGED <<local, common>>
      /\ job[f].rev # 0 /\ job[f].rev = common[f].rev /\ job[f].size = common[f].size
      /\ k = Current(f) /\ k \in Key
      /\ job[f].step \in Active => row[k].status = "IN_PROGRESS"
  BY SendingShape, SendingIsRest, KeyOf DEF CoreInv, TypeInv, JobInv, Rest, Current
<1>3. \A g \in File \ {f} : final'[g] = final[g]
  BY <1>1 DEF Sending, SkipVanished, SkipStale, BeginPut, OpenPart, CopyPart, CheckPart, Rename,
      ConfirmFinal, FinishPut, RemoteError, RenameLost, RemovePart, CleanupError, FailPut,
      LedgerError, MovePart
<1>4. /\ part[f] # NoFile =>
           \E r \in Rev : row[<<f, r>>].status \in {"IN_PROGRESS", "FAILED"}
      /\ job[f].step \in {"uploaded", "checked"} => part[f] # NoFile /\ Faithful(f, part[f].body)
      /\ job[f].step \in {"renamed", "confirmed"} => Delivered(f, job[f].size)
  BY DEF Contents, SentInv
<1>5. CASE OpenPart(f)
  <2>1. /\ row' = row /\ job[f].step = "begun" /\ job'[f].src = local[f]
        /\ job'[f].step = "uploading"
    BY <1>1, <1>5 DEF OpenPart, Job
  <2>2. row'[Current(f)].status = "IN_PROGRESS"
    BY <1>2, <2>1 DEF Active
  <2> QED BY <1>2, <1>3, <2>1, <2>2, ContentsOfOne
<1>6. CASE CopyPart(f)
  <2>1. /\ row' = row /\ job[f].step = "uploading" /\ job'[f].step = "uploaded"
        /\ part'[f] \in Copied(f)
    BY <1>1, <1>6 DEF CopyPart, Job
  <2>2. row'[Current(f)].status = "IN_PROGRESS"
    BY <1>2, <2>1 DEF Active
  <2>3. part'[f] # NoFile /\ Faithful(f, part'[f].body)
    BY <2>1, CopyIsFaithful
  <2> QED BY <1>2, <1>3, <2>1, <2>2, <2>3, ContentsOfOne
<1>7. CASE CheckPart(f)
  <2>1. /\ row' = row /\ part' = part /\ job[f].step = "uploaded"
        /\ job'[f].step \in {"checked", "failing"}
    BY <1>1, <1>7 DEF CheckPart, To, Job
  <2>2. row'[Current(f)].status = "IN_PROGRESS"
    BY <1>2, <2>1 DEF Active
  <2> QED BY <1>2, <1>3, <1>4, <2>1, <2>2, ContentsOfOne
<1>8. CASE Rename(f) \/ RenameLost(f)
  <2>1. /\ row' = row /\ part'[f] = NoFile /\ final'[f] = part[f]
        /\ job[f].step = "checked" /\ job'[f].step \in {"renamed", "failing"}
        /\ job'[f].size = job[f].size
    BY <1>1, <1>8 DEF Rename, RenameLost, MovePart, To, Job
  <2>2. row'[Current(f)].status = "IN_PROGRESS"
    BY <1>2, <2>1 DEF Active
  <2>3. /\ final'[f] # NoFile /\ Faithful(f, final'[f].body)
        /\ final'[f].size = common[f].size
    BY <1>2, <1>4, <2>1 DEF CoreInv, JobInv
  <2> QED BY <1>2, <1>3, <2>1, <2>2, <2>3, ContentsOfOne
<1>9. CASE ConfirmFinal(f)
  <2>1. /\ row' = row /\ part' = part /\ final' = final /\ job[f].step = "renamed"
        /\ job'[f].step \in {"confirmed", "failed"} /\ job'[f].size = job[f].size
    BY <1>1, <1>9 DEF ConfirmFinal, To, Job
  <2>2. row'[Current(f)].status = "IN_PROGRESS"
    BY <1>2, <2>1 DEF Active
  <2> QED BY <1>2, <1>3, <1>4, <2>1, <2>2, ContentsOfOne DEF Delivered
<1>10. CASE FinishPut(f)
  <2>1. /\ part' = part /\ final' = final /\ job[f].step = "confirmed"
        /\ job'[f].step = "done"
    BY <1>1, <1>10, DoneTyped DEF FinishPut, Over
  <2> QED BY <1>2, <1>3, <1>4, <2>1, ContentsOfOne DEF Delivered
<1>11. CASE RemovePart(f)
  <2>1. /\ row' = row /\ part'[f] = NoFile /\ final' = final /\ job[f].step = "failing"
        /\ job'[f].step = "failed"
    BY <1>1, <1>11 DEF RemovePart, To, Job
  <2>2. row'[Current(f)].status = "IN_PROGRESS"
    BY <1>2, <2>1 DEF Active
  <2> QED BY <1>2, <1>3, <2>1, <2>2, ContentsOfOne
<1>12. CASE SkipVanished(f) \/ SkipStale(f) \/ BeginPut(f) \/ RemoteError(f)
              \/ CleanupError(f) \/ FailPut(f) \/ LedgerError(f)
  BY <1>12, ContentsFailing
<1> QED BY <1>5, <1>6, <1>7, <1>8, <1>9, <1>10, <1>11, <1>12 DEF Sending

\* Initially nothing is on the server and no row is there.
LEMMA ContentsInit == Init => Contents
<1> SUFFICES ASSUME Init PROVE Contents
  OBVIOUS
<1>1. /\ \A f \in File : common[f].rev = 0 /\ common[f].hash = NoHash
      /\ \A f \in File : part[f] = NoFile /\ job[f].step = "none"
  BY DEF Init, NoJob
<1> QED BY <1>1 DEF Contents, PrintInv, OpenedInv, SentInv

\* Every step keeps what is known of the contents.
LEMMA ContentsNext ==
    ASSUME CoreInv, Contents, [Next]_vars PROVE Contents'
<1>1. CASE UNCHANGED vars
  <2>1. UNCHANGED <<local, final, part, common, row, job>>
    BY <1>1 DEF vars, world, ledgers
  <2> QED BY <2>1, ContentsKept
<1>2. CASE \E f \in File : Edit(f)
  BY <1>2, ContentsEdit
<1>3. CASE Recovering
  BY <1>3, ContentsRecovering
<1>4. CASE \E f \in File : Judging(f)
  BY <1>4, ContentsJudging
<1>5. CASE PlanRun
  BY <1>5, ContentsPlan
<1>6. CASE Transferring
  BY <1>6, ContentsSending DEF Transferring, Sending
<1>7. CASE \/ \E k \in Kinds : StartRun(k)
           \/ \E d \in Dir : ListDir(d) \/ SkipDir(d)
           \/ EndRun \/ RunDies \/ Cancel \/ Abort \/ Disconnect
  BY <1>7, ContentsStages
<1> QED BY <1>1, <1>2, <1>3, <1>4, <1>5, <1>6, <1>7 DEF Next, RunStep, Scanning, Judging
-----------------------------------------------------------------------------
\* A judgement leaves a file out when its row is VERIFIED, or when its facts are
\* on no record: the mtime of the listing is not the one it has now, or the row
\* holds other facts.
LEMMA SeenJudging ==
    ASSUME CoreInv, CoreInv', SeenInv, NEW f \in File, Judging(f) PROVE SeenInv'
<1>1. /\ stage[f] = "listed" /\ phase = "scan" /\ UNCHANGED <<local, row>>
      /\ \A g \in File \ {f} : stage'[g] = stage[g] /\ common'[g] = common[g]
  BY DEF CoreInv, StageInv, TypeInv, TypeOK, Judging, JudgeKnown, JudgeUnhashed, JudgeTouched,
         JudgeChanged, JudgeUnstable, JudgeRejected, Classify, Judged, SetContentHash,
         TouchCommonMTime, UpsertCommon, world
<1>2. ASSUME NEW g \in File \ {f}, stage'[g] = "out", Recorded(g)'
      PROVE  row'[Current(g)'].status = "VERIFIED"
  BY <1>1, <1>2 DEF SeenInv, Recorded, FactsOf, Current
<1>3. ASSUME stage'[f] = "out", Recorded(f)'
      PROVE  row'[Current(f)'].status = "VERIFIED"
  <2>1. CASE f \in observed'
    BY <1>3, <2>1 DEF CoreInv, StageInv
  <2>2. CASE JudgeUnstable(f) \/ JudgeRejected(f)
    <3>1. /\ common' = common /\ Recorded(f) /\ entry[f] \in Facts
          /\ \/ FactsOf(f) # entry[f] /\ (SameFacts(f) \/ ~ SameFacts(f))
             \/ ~ SameFacts(f)
      BY <1>1, <1>3, <2>2
      DEF JudgeUnstable, JudgeRejected, Recorded, FactsOf, CoreInv, TypeInv, FactsInv
    <3>2. /\ common[f].rev # 0 /\ common[f].size = SizeOf[local[f].body]
          /\ common[f].mtime = local[f].mtime /\ local[f].mtime \in Nat
      BY <3>1, ContentTypes DEF Recorded, FactsOf, Rev
    <3>3. /\ common[f].mtime <= entry[f].mtime /\ entry[f].mtime <= local[f].mtime
          /\ entry[f].mtime = local[f].mtime => entry[f].size = SizeOf[local[f].body]
      BY <1>1 DEF CoreInv, TypeInv, FactsInv
    <3>4. entry[f].mtime \in Nat
      BY <3>1, BoundAssumption DEF Facts
    <3>5. entry[f].mtime = local[f].mtime /\ entry[f].size = SizeOf[local[f].body]
      BY <3>2, <3>3, <3>4
    <3>6. entry[f] = FactsOf(f)
      BY <3>1, <3>5 DEF Facts, FactsOf
    <3>7. SameFacts(f)
      BY <3>2, <3>5 DEF SameFacts
    <3> QED BY <3>1, <3>6, <3>7
  <2>3. f \in observed' \/ JudgeUnstable(f) \/ JudgeRejected(f)
    BY DEF Judging, JudgeKnown, JudgeUnhashed, JudgeTouched, JudgeChanged, Classify
  <2> QED BY <2>1, <2>2, <2>3
<1> QED BY <1>2, <1>3 DEF SeenInv

\* No other step makes a left out file look recorded: an edit takes the file's
\* facts off the record, and no row leaves VERIFIED during the scan.
LEMMA SeenNext ==
    ASSUME CoreInv, CoreInv', SeenInv, [Next]_vars PROVE SeenInv'
<1>1. ASSUME NEW f \in File, Edit(f) PROVE SeenInv'
  <2>1. /\ UNCHANGED <<phase, stage, common, row>>
        /\ \A g \in File \ {f} : local'[g] = local[g]
        /\ local'[f].mtime = local[f].mtime + 1
    BY <1>1, ContentTypes DEF Edit, scanned, ledgers
  <2>2. local[f].mtime \in Nat /\ common[f].mtime \in Nat /\ common[f].mtime <= local[f].mtime
    BY ContentTypes
  <2>3. ~ Recorded(f)'
    BY <2>1, <2>2 DEF Recorded, FactsOf
  <2>4. \A g \in File \ {f} : Recorded(g)' = Recorded(g)
    BY <2>1 DEF Recorded, FactsOf
  <2> QED BY <2>1, <2>3, <2>4 DEF SeenInv, Current
<1>2. CASE Recovering
  BY <1>2 DEF Recovering, RecoverDone, RemoveLeftover, FailLeftover, SeenInv, CoreInv,
              StageInv, scanned
<1>3. ASSUME NEW d \in Dir, ListDir(d) \/ SkipDir(d) PROVE SeenInv'
  <2>1. /\ UNCHANGED <<phase, local, common, row>>
        /\ \A f \in File : stage'[f] = "out" => stage[f] = "out"
    BY <1>3 DEF ListDir, SkipDir, ledgers, world
  <2> QED BY <2>1 DEF SeenInv, Recorded, FactsOf, Current
<1>4. ASSUME NEW f \in File, Judging(f) PROVE SeenInv'
  BY <1>4, SeenJudging
<1>5. ASSUME NEW f \in File, Sending(f) PROVE SeenInv'
  BY <1>5, SendingIsRest DEF CoreInv, Rest, SeenInv
<1>6. CASE \/ \E k \in Kinds : StartRun(k)
           \/ PlanRun \/ EndRun \/ RunDies \/ Cancel \/ Disconnect
  BY <1>6 DEF StartRun, PlanRun, EndRun, RunDies, Cancel, Disconnect, Forget, Rest, SeenInv
<1>7. CASE Abort \/ UNCHANGED vars
  <2>1. UNCHANGED <<phase, local, common, row, stage>>
    BY <1>7 DEF Abort, vars, world, ledgers, scanned
  <2> QED BY <2>1 DEF SeenInv, Recorded, FactsOf, Current
<1> QED BY <1>1, <1>2, <1>3, <1>4, <1>5, <1>6, <1>7
        DEF Next, RunStep, Scanning, Transferring, Judging, Sending
-----------------------------------------------------------------------------
\* A transfer starts by MayStart, and only a ledger error loses it.
LEMMA StartsAndLosses ==
    ASSUME CoreInv, NEW f \in File, Sending(f)
    PROVE  /\ job[f].step = "queued" => MayStart(f)
           /\ fatal => fatal'
           /\ job'[f].step = "lost" => fatal'
<1>1. job \in [File -> Job] /\ job[f] \in Job /\ fatal \in BOOLEAN
  BY DEF CoreInv, TypeInv, TypeOK
<1>2. job[f].step = "queued" => MayStart(f)
  BY DEF Sending, SkipVanished, SkipStale, BeginPut, OpenPart, CopyPart, CheckPart, Rename,
      ConfirmFinal, FinishPut, RemoteError, RenameLost, RemovePart, CleanupError, FailPut,
      LedgerError
<1>3. LedgerError(f) \/ (fatal' = fatal /\ job'[f].step # "lost")
  BY <1>1, DoneTyped
  DEF Sending, SkipVanished, SkipStale, BeginPut, OpenPart, CopyPart, CheckPart, Rename,
      ConfirmFinal, FinishPut, RemoteError, RenameLost, RemovePart, CleanupError, FailPut,
      To, Over, Job
<1> QED BY <1>1, <1>2, <1>3 DEF LedgerError

\* A step of the transfer of f takes at most the directories up to that of f,
\* and leaves no directory undone that was done with.
LEMMA SendingBatches ==
    ASSUME CoreInv, NEW f \in File, Sending(f)
    PROVE  \A d \in Dir : /\ Undone(d)' => Undone(d)
                          /\ Taken(d)' => Taken(d) \/ d <= DirOf[f]
<1>1. /\ \A g \in File \ {f} : job'[g] = job[g]
      /\ job[f].step \in Active \cup {"queued"}
      /\ job'[f].step \in Active \cup {"done", "lost"}
  BY SendingShape DEF CoreInv, Moves
<1>2. job[f].step # "none" /\ job'[f].step \notin {"none", "queued"}
  BY <1>1 DEF Active
<1>3. \A d \in Dir : Batch(d)' = Batch(d)
  BY <1>1, <1>2 DEF Batch
<1>4. ASSUME NEW d \in Dir, Undone(d)' PROVE Undone(d)
  <2>1. PICK g \in Batch(d) : job'[g].step \in Active \cup {"queued"}
    BY <1>3, <1>4 DEF Undone
  <2>2. g \in File /\ (g # f => job'[g] = job[g])
    BY <1>1, <2>1 DEF Batch
  <2>3. job[g].step \in Active \cup {"queued"}
    BY <1>1, <2>1, <2>2
  <2> QED BY <2>1, <2>3 DEF Undone
<1>5. ASSUME NEW d \in Dir, Taken(d)' PROVE Taken(d) \/ d <= DirOf[f]
  <2>1. PICK g \in File : job'[g].step \notin {"none", "queued"} /\ d <= DirOf[g]
    BY <1>5 DEF Taken
  <2> QED BY <1>1, <2>1 DEF Taken
<1> QED BY <1>4, <1>5

\* The workers are enough for the directories taken.
LEMMA PoolNext ==
    ASSUME CoreInv, PoolInv, [Next]_vars PROVE PoolInv'
<1> DEFINE Busy == {e \in Dir : Undone(e) /\ Taken(e)}
<1>1. ASSUME UNCHANGED <<job, fatal>> PROVE PoolInv'
  BY <1>1 DEF PoolInv, Undone, Taken, Batch
<1>2. ASSUME \A f \in File : job'[f].step \in {"none", "queued"} PROVE PoolInv'
  <2>1. Busy' = {}
    BY <1>2 DEF Taken
  <2>2. Cardinality(Busy') = 0
    BY <2>1, FS_EmptySet
  <2> QED BY <1>2, <2>2, BoundAssumption DEF PoolInv
<1>3. ASSUME NEW f \in File, Sending(f) PROVE PoolInv'
  <2>1. \A g \in File : job'[g].step = "lost" => fatal'
    BY <1>3, StartsAndLosses, SendingShape DEF CoreInv, PoolInv
  <2>2. Busy' \subseteq Held(DirOf[f])
    BY <1>3, SendingBatches DEF Held
  <2>3. Cardinality(Held(DirOf[f])) <= MaxWorkers
    <3>1. CASE job[f].step = "queued"
      BY <1>3, <3>1, StartsAndLosses DEF MayStart
    <3>2. CASE job[f].step # "queued"
      <4>1. job[f].step \notin {"none", "queued"}
        BY <1>3, <3>2, SendingShape DEF CoreInv, Moves, Active
      <4>2. \A e \in Dir : e <= DirOf[f] => Taken(e)
        BY <4>1 DEF Taken
      <4>3. Held(DirOf[f]) = Busy
        BY <4>2 DEF Held
      <4> QED BY <4>3 DEF PoolInv
    <3> QED BY <3>1, <3>2
  <2>4. IsFiniteSet(Held(DirOf[f]))
    BY DirAssumption, FS_Subset DEF Held
  <2>5. /\ Cardinality(Busy') <= Cardinality(Held(DirOf[f]))
        /\ Cardinality(Busy') \in Nat /\ Cardinality(Held(DirOf[f])) \in Nat
    BY <2>2, <2>4, FS_Subset, FS_CardinalityType
  <2>6. Cardinality(Busy') <= MaxWorkers
    BY <2>3, <2>5, BoundAssumption
  <2> QED BY <2>1, <2>6 DEF PoolInv
<1>4. CASE PlanRun \/ EndRun \/ RunDies
  <2>1. \A f \in File : job'[f].step \in {"none", "queued"}
    BY <1>4 DEF PlanRun, JobFor, EndRun, RunDies, Forget, NoJob
  <2> QED BY <1>2, <2>1
<1>5. CASE ~ (PlanRun \/ EndRun \/ RunDies \/ \E f \in File : Sending(f))
  <2>1. UNCHANGED <<job, fatal>>
    BY <1>5 DEF Next, RunStep, Edit, StartRun, Recovering, RecoverDone, RemoveLeftover,
       FailLeftover, Scanning, ListDir, SkipDir, JudgeKnown, JudgeUnhashed, JudgeTouched,
       JudgeChanged, JudgeUnstable, JudgeRejected, Classify, Judged, Transferring, Sending,
       Cancel, Abort, Disconnect, signals, vars
  <2> QED BY <1>1, <2>1
<1> QED BY <1>3, <1>4, <1>5
-----------------------------------------------------------------------------
\* The inductive invariant, in every reachable state.
THEOREM Invariant == Spec => []IInv
<1>1. Init => IInv
  <2> SUFFICES ASSUME Init PROVE IInv
    OBVIOUS
  <2>1. phase # "scan" /\ \A f \in File : job[f].step = "none"
    BY DEF Init, NoJob
  <2>2. SeenInv /\ PoolInv
    <3>1. {e \in Dir : Undone(e) /\ Taken(e)} = {}
      BY <2>1 DEF Taken
    <3>2. Cardinality({e \in Dir : Undone(e) /\ Taken(e)}) = 0
      BY <3>1, FS_EmptySet
    <3> QED BY <2>1, <3>2, BoundAssumption DEF SeenInv, PoolInv
  <2> QED BY <2>2, InvInit, ContentsInit DEF IInv, Contents
<1>2. IInv /\ [Next]_vars => IInv'
  <2> SUFFICES ASSUME IInv, [Next]_vars PROVE IInv'
    OBVIOUS
  <2>1. CoreInv /\ CoreInv'
    BY InvNext DEF IInv
  <2>2. Contents'
    BY <2>1, ContentsNext DEF IInv, Contents
  <2>3. SeenInv' /\ PoolInv'
    BY <2>1, SeenNext, PoolNext DEF IInv
  <2> QED BY <2>1, <2>2, <2>3 DEF IInv, Contents
<1> QED BY <1>1, <1>2, PTL DEF Spec
-----------------------------------------------------------------------------
\* No .part outlives the revision it was made for: one that a revision left
\* behind still has a row that recovery or a retry will reach.
THEOREM LeftoversReachable == Spec => []LeftoverIsUnfinished
<1>1. IInv => LeftoverIsUnfinished
  <2> SUFFICES ASSUME IInv, NEW f \in File, part[f] # NoFile
               PROVE  /\ \E r \in Rev : row[<<f, r>>].status \in {"IN_PROGRESS", "FAILED"}
                      /\ common[f].rev \in Rev => row[Current(f)].status # "VERIFIED"
    BY DEF LeftoverIsUnfinished
  <2> QED BY DEF IInv, SentInv, Delivered, Rev
<1> QED BY <1>1, Invariant, PTL

\* No silent omission: what the ledger calls VERIFIED, and the file still is,
\* is on the server as it is here, provided that no producer puts an older
\* content back.  (With reverts a touched file may pass by a stale fingerprint.)
THEOREM VerifiedDelivered == ~ Reverts => (Spec => []VerifiedIsDelivered)
<1> SUFFICES ASSUME ~ Reverts PROVE Spec => []VerifiedIsDelivered
  OBVIOUS
<1>1. IInv => VerifiedIsDelivered
  <2> SUFFICES ASSUME IInv, NEW f \in File, Recorded(f),
                      row[Current(f)].status = "VERIFIED"
               PROVE  final[f] # NoFile /\ final[f].body = local[f].body
    BY DEF VerifiedIsDelivered
  <2>1. common[f].rev # 0 /\ common[f].mtime = local[f].mtime
    BY DEF Recorded, FactsOf, Rev
  <2> QED BY <2>1 DEF IInv, SentInv, Delivered, Faithful
<1> QED BY <1>1, Invariant, PTL

\* What holds of a VERIFIED revision even if producers put old contents back:
\* it has no .part, the server has its size, and as long as the row's mtime is
\* the file's and no fingerprint stands in for it, the server has its content.
VerifiedIsPlaced ==
    \A f \in File : common[f].rev # 0 /\ row[Current(f)].status = "VERIFIED" =>
        /\ part[f] = NoFile /\ final[f] # NoFile /\ final[f].size = common[f].size
        /\ Recorded(f) /\ common[f].hash = NoHash => final[f].body = local[f].body

THEOREM VerifiedPlaced == Spec => []VerifiedIsPlaced
<1>1. IInv => VerifiedIsPlaced
  <2> SUFFICES ASSUME IInv, NEW f \in File, common[f].rev # 0,
                      row[Current(f)].status = "VERIFIED"
               PROVE  /\ part[f] = NoFile /\ final[f] # NoFile
                      /\ final[f].size = common[f].size
                      /\ Recorded(f) /\ common[f].hash = NoHash
                           => final[f].body = local[f].body
    BY DEF VerifiedIsPlaced
  <2>1. Delivered(f, common[f].size)
    BY DEF IInv, SentInv
  <2> QED BY <2>1 DEF Delivered, Faithful, Recorded, FactsOf
<1> QED BY <1>1, Invariant, PTL
-----------------------------------------------------------------------------
(* The run as a whole.                                                     *)

\* No cut without more candidates than the limit.
LEMMA NoExcessNoCut ==
    ASSUME NEW cands \in SUBSET File, NEW max \in Nat, Cardinality(cands) <= max
    PROVE  Kept(cands, max) = cands
<1>1. IsFiniteSet(cands) /\ Cardinality(cands) \in Nat
  BY RankAssumption, FS_Subset, FS_CardinalityType
<1>2. ASSUME NEW f \in cands, max # 0
      PROVE  Cardinality({g \in cands : Before(g, f)}) < max
  <2> DEFINE before == {g \in cands : Before(g, f)}
  <2>1. f \notin before
    BY RankAssumption DEF Before
  <2>2. IsFiniteSet(cands \ {f}) /\ Cardinality(cands \ {f}) = Cardinality(cands) - 1
    BY <1>1, FS_RemoveElement
  <2>3. before \subseteq cands \ {f}
    BY <2>1
  <2>4. Cardinality(before) <= Cardinality(cands \ {f}) /\ Cardinality(before) \in Nat
    BY <2>2, <2>3, FS_Subset, FS_CardinalityType
  <2> QED BY <1>1, <2>2, <2>4
<1>3. FirstN(cands, max) = cands
  BY <1>2 DEF FirstN
<1> QED BY <1>3 DEF Kept, SplitSets

\* The scan and the plan pass over nothing silently.
THEOREM NothingIsPassedOver == Spec => NothingPassedOver
<1> DEFINE Accounted(f) ==
             \/ row[Current(f)].status = "VERIFIED"
             \/ row[Current(f)].status = "FAILED" /\ ~ Retryable(f)
             \/ Holds(f, HoldKinds(Resend), observed)
             \/ FileCap[kind] # 0 /\ Cardinality(Candidates) > FileCap[kind]
           Sound == PlanRun =>
             \A f \in File : stage[f] # "unseen" /\ Recorded(f) /\ job'[f].step # "queued"
                => Accounted(f)
<1>1. IInv /\ [Next]_vars => [Sound]_vars
  <2> SUFFICES ASSUME IInv, PlanRun, NEW f \in File, stage[f] # "unseen", Recorded(f),
                      job'[f].step # "queued"
               PROVE  Accounted(f)
    OBVIOUS
  <2> DEFINE kept == Kept(Candidates, FileCap[kind])
  <2>1. f \notin kept
    BY DEF PlanRun, JobFor
  <2>2. Candidates \in SUBSET File /\ FileCap[kind] \in Nat /\ stage[f] \in {"cand", "failed", "out"}
    BY BoundAssumption DEF Candidates, PlanRun, IInv, CoreInv, TypeInv, TypeOK
  <2>3. CASE stage[f] = "out"
    BY <2>3 DEF IInv, SeenInv, PlanRun
  <2>4. CASE f \in Candidates
    <3>1. FileCap[kind] # 0
      BY <2>1, <2>2, <2>4, NoLimitNoCut
    <3>2. ~ (Cardinality(Candidates) <= FileCap[kind])
      BY <2>1, <2>2, <2>4, NoExcessNoCut
    <3>3. Cardinality(Candidates) \in Nat
      BY <2>2, RankAssumption, FS_Subset, FS_CardinalityType
    <3> QED BY <2>2, <3>1, <3>2, <3>3
  <2>5. CASE f \notin Candidates /\ stage[f] \in {"cand", "failed"}
    BY <2>5 DEF Candidates, IInv, CoreInv, StageInv
  <2> QED BY <2>2, <2>3, <2>4, <2>5
<1> QED BY <1>1, Invariant, PTL DEF Spec, NothingPassedOver

\* A run that ends by itself leaves recovery nothing to do, unless the ledger
\* failed it.
THEOREM EndsTidily == Spec => EndLeavesNoRowOpen
<1> DEFINE Tidy == EndRun /\ ~ fatal => Ledger!ListInProgress = {}
<1>1. IInv /\ [Next]_vars => [Tidy]_vars
  <2> SUFFICES ASSUME IInv, EndRun, ~ fatal, NEW k \in Ledger!ListInProgress PROVE FALSE
    OBVIOUS
  <2>1. k[1] \in File /\ job[k[1]].step \in Active \cup {"lost"}
    BY DEF IInv, CoreInv, JobInv, EndRun, Ledger!ListInProgress, Key
  <2>2. job[k[1]].step = "lost"
    BY <2>1 DEF EndRun
  <2> QED BY <2>1, <2>2 DEF IInv, PoolInv
<1> QED BY <1>1, Invariant, PTL DEF Spec, EndLeavesNoRowOpen
-----------------------------------------------------------------------------
\* Of some numbers one is the smallest.
LEMMA Smallest ==
    ASSUME NEW S \in SUBSET Nat, S # {}
    PROVE  \E m \in S : \A n \in S : m <= n
<1> DEFINE R == {p \in Nat \X Nat : p[1] < p[2]}
<1>1. IsWellFoundedOn(R, Nat)
  BY NatLessThanWellFounded DEF OpToRel
<1>2. PICK m \in S : \A n \in S : ~ (<<n, m>> \in R)
  <2> HIDE DEF R
  <2> QED BY <1>1, WFMin
<1>3. \A n \in S : ~ (n < m)
  BY <1>2
<1> QED BY <1>3

\* Of some files one is sent before the others.
LEMMA FirstOf ==
    ASSUME NEW fs \in SUBSET File, fs # {}
    PROVE  \E f \in fs : \A g \in fs \ {f} : Rank[f] < Rank[g]
<1> DEFINE ranks == {Rank[f] : f \in fs}
<1>1. ranks \in SUBSET Nat /\ ranks # {}
  BY RankAssumption
<1>2. PICK m \in ranks : \A n \in ranks : m <= n
  BY <1>1, Smallest
<1>3. PICK f \in fs : Rank[f] = m
  BY <1>2
<1>4. \A g \in fs \ {f} : Rank[f] # Rank[g] /\ Rank[f] <= Rank[g]
  BY <1>2, <1>3, RankAssumption
<1> QED BY <1>4, RankAssumption

\* The pool is never stuck on its own rules: the first waiting file of all may
\* start.  Its directory comes before every other one with waiting files.  If it
\* is taken already, its worker can go on (PoolInv); if not, no later one is
\* taken either, and every worker is free.
THEOREM PoolGoesOn == Spec => []PoolNeverStuck
<1>1. IInv => PoolNeverStuck
  <2> SUFFICES ASSUME IInv, phase = "transfer", ~ Stopping,
                      \E f \in File : job[f].step = "queued",
                      \A f \in File : job[f].step \notin Active
               PROVE  \E f \in File : MayStart(f)
    BY DEF PoolNeverStuck
  <2> DEFINE waiting == {f \in File : job[f].step = "queued"}
  <2>1. PICK f \in waiting : \A g \in waiting \ {f} : Rank[f] < Rank[g]
    BY FirstOf
  <2>2. DirOf[f] \in Dir /\ \A d \in Dir : d \in Nat
    BY DirAssumption
  <2>3. \A g \in waiting : ~ (DirOf[g] < DirOf[f])
    BY <2>1, DirAssumption, RankAssumption
  <2>4. \A e \in Held(DirOf[f]) : e = DirOf[f] \/ (DirOf[f] < e /\ Taken(e))
    <3> SUFFICES ASSUME NEW e \in Held(DirOf[f])
                 PROVE  e = DirOf[f] \/ (DirOf[f] < e /\ Taken(e))
      OBVIOUS
    <3>1. e \in Dir /\ Undone(e) /\ (e <= DirOf[f] \/ Taken(e))
      BY DEF Held
    <3>2. PICK g \in Batch(e) : job[g].step \in Active \cup {"queued"}
      BY <3>1 DEF Undone
    <3>3. g \in waiting /\ DirOf[g] = e
      BY <3>2 DEF Batch
    <3>4. ~ (e < DirOf[f])
      BY <2>3, <3>3
    <3> QED BY <2>2, <3>1, <3>4
  <2>5. Cardinality(Held(DirOf[f])) <= MaxWorkers
    <3>1. CASE Taken(DirOf[f])
      <4> DEFINE Busy == {e \in Dir : Undone(e) /\ Taken(e)}
      <4>1. Held(DirOf[f]) \subseteq Busy
        BY <2>4, <3>1 DEF Held
      <4>2. IsFiniteSet(Busy)
        BY DirAssumption, FS_Subset
      <4>3. /\ Cardinality(Held(DirOf[f])) <= Cardinality(Busy)
            /\ Cardinality(Held(DirOf[f])) \in Nat /\ Cardinality(Busy) \in Nat
        BY <4>1, <4>2, FS_Subset, FS_CardinalityType
      <4>4. Cardinality(Busy) <= MaxWorkers
        BY DEF IInv, PoolInv
      <4> QED BY <4>3, <4>4, BoundAssumption
    <3>2. CASE ~ Taken(DirOf[f])
      <4>1. ASSUME NEW e \in Dir, DirOf[f] < e PROVE ~ Taken(e)
        <5> SUFFICES ASSUME Taken(e) PROVE FALSE
          OBVIOUS
        <5>1. PICK g \in File : job[g].step \notin {"none", "queued"} /\ e <= DirOf[g]
          BY DEF Taken
        <5>2. DirOf[f] <= DirOf[g]
          <6>1. DirOf[g] \in Dir
            BY DirAssumption
          <6>2. DirOf[f] \in Nat /\ DirOf[g] \in Nat /\ e \in Nat
            BY <2>2, <6>1
          <6> QED BY <4>1, <5>1, <6>2
        <5> QED BY <3>2, <5>1, <5>2 DEF Taken
      <4>2. Held(DirOf[f]) \subseteq {DirOf[f]}
        BY <2>4, <4>1 DEF Held
      <4>3. /\ Cardinality({DirOf[f]}) = 1 /\ IsFiniteSet({DirOf[f]})
        BY FS_Singleton
      <4>4. /\ Cardinality(Held(DirOf[f])) <= 1 /\ Cardinality(Held(DirOf[f])) \in Nat
        BY <4>2, <4>3, FS_Subset, FS_CardinalityType
      <4> QED BY <4>4, BoundAssumption
    <3> QED BY <3>1, <3>2
  <2>6. \A g \in Batch(DirOf[f]) \ {f} :
          job[g].step \notin Active /\ (job[g].step = "queued" => Rank[f] < Rank[g])
    BY <2>1 DEF Batch
  <2> QED BY <2>1, <2>5, <2>6 DEF MayStart
<1> QED BY <1>1, Invariant, PTL
-----------------------------------------------------------------------------
\* The steps of a transfer in their order.
LEMMA StepNumbers ==
    /\ StepNo["none"] = 0 /\ StepNo["queued"] = 1 /\ StepNo["begun"] = 2
    /\ StepNo["uploading"] = 3 /\ StepNo["uploaded"] = 4 /\ StepNo["checked"] = 5
    /\ StepNo["renamed"] = 6 /\ StepNo["confirmed"] = 7 /\ StepNo["failing"] = 8
    /\ StepNo["failed"] = 9 /\ StepNo["done"] = 10 /\ StepNo["lost"] = 10
BY DEF StepNo, Step, Active

\* A transfer only goes forward: nothing is begun, copied or renamed twice in
\* one run.
THEOREM TransfersForward == Spec => TransfersGoForward
<1> DEFINE Moved(f) == job'[f] = job[f] \/ StepNo[job[f].step] < StepNo[job'[f].step]
           Sound == phase = "transfer" /\ phase' = "transfer" => \A f \in File : Moved(f)
<1>1. CoreInv /\ [Next]_vars => [Sound]_vars
  <2> SUFFICES ASSUME CoreInv, Next, phase = "transfer", phase' = "transfer"
               PROVE  \A f \in File : Moved(f)
    OBVIOUS
  <2>1. ASSUME NEW f \in File, Sending(f) PROVE \A g \in File : Moved(g)
    <3>1. /\ job \in [File -> Job] /\ \A g \in File \ {f} : job'[g] = job[g]
      BY <2>1, SendingShape DEF CoreInv, TypeInv, TypeOK
    <3>2. CASE SkipVanished(f) \/ SkipStale(f) \/ BeginPut(f)
      BY <3>1, <3>2, DoneTyped, StepNumbers, StartsQueued
      DEF SkipVanished, SkipStale, BeginPut, Over, To, Job
    <3>3. CASE OpenPart(f) \/ CopyPart(f) \/ CheckPart(f) \/ Rename(f) \/ ConfirmFinal(f)
      BY <3>1, <3>3, StepNumbers
      DEF OpenPart, CopyPart, CheckPart, Rename, ConfirmFinal, To, Job
    <3>4. CASE RemoteError(f) \/ RenameLost(f) \/ RemovePart(f) \/ CleanupError(f)
      BY <3>1, <3>4, StepNumbers
      DEF RemoteError, RenameLost, RemovePart, CleanupError, To, Job
    <3>5. CASE FinishPut(f) \/ FailPut(f) \/ LedgerError(f)
      BY <3>1, <3>5, DoneTyped, StepNumbers, StartsQueued
      DEF FinishPut, FailPut, LedgerError, Over, To, Job
    <3>6. Moved(f)
      BY <2>1, <3>2, <3>3, <3>4, <3>5 DEF Sending
    <3> QED BY <3>1, <3>6
  <2>2. CASE ~ \E f \in File : Sending(f)
    <3>1. phase = "transfer" /\ ~ EndRun /\ ~ RunDies
      BY DEF EndRun, RunDies, Forget
    <3>2. job' = job
      BY <2>2, <3>1
      DEF Next, RunStep, Edit, StartRun, Recovering, RecoverDone, RemoveLeftover,
       FailLeftover, Scanning, ListDir, SkipDir, MayList, JudgeKnown, JudgeUnhashed, JudgeTouched,
       JudgeChanged, JudgeUnstable, JudgeRejected, Classify, Judged, PlanRun, Transferring, Sending,
       Cancel, Abort, Disconnect
    <3> QED BY <3>2
  <2> QED BY <2>1, <2>2
<1> QED BY <1>1, CoreInvariant, PTL DEF Spec, TransfersGoForward

\* Every step of a run, whichever goroutine takes it and whatever dies, is one
\* statement of put.go or leaves the table alone.
LEMMA StepIsStatement ==
    ASSUME CoreInv, [Next]_vars PROVE [Ledger!Next]_row
<1> SUFFICES ASSUME Next, row' # row PROVE Ledger!Next
  BY DEF vars, ledgers
<1>1. ASSUME NEW f \in File, Sending(f) PROVE Ledger!Next
  <2> DEFINE k == <<f, job[f].rev>>
  <2>1. job[f].step \in Active \cup {"queued"} /\ job[f].rev # 0 /\ job[f].rev = common[f].rev
    BY <1>1, SendingIsRest DEF CoreInv, JobInv
  <2>2. k \in Key /\ job[f].bound \in 0 .. AttemptCap /\ row \in [Key -> Ledger!Rows]
    BY <2>1, KeyOf DEF CoreInv, TypeInv, TypeOK, Current, Job, Ledger!TypeOK
  <2>3. Ledger!FailPut(k) \/ Ledger!FinishPut(k) \/ Ledger!BeginPut(k, job[f].bound)
    BY <1>1 DEF Sending, SkipVanished, SkipStale, BeginPut, OpenPart, CopyPart, CheckPart,
      Rename, ConfirmFinal, FinishPut, RemoteError, RenameLost, RemovePart, CleanupError,
      FailPut, LedgerError
  <2>4. Ledger!BeginPut(k, job[f].bound) => job[f].bound \in 1 .. AttemptCap
    BY <2>2, BoundAssumption DEF Ledger!BeginPut, Ledger!Beginnable, Ledger!Rows
  <2> QED BY <2>2, <2>3, <2>4 DEF Ledger!Next
<1>2. CASE PlanRun
  <2> DEFINE keys == {Current(f) : f \in Kept(Candidates, FileCap[kind])}
  <2>1. Ledger!InsertPendingBatch(keys)
    BY <1>2 DEF PlanRun
  <2>2. Kept(Candidates, FileCap[kind]) \subseteq Candidates
    BY KeptAreCandidates, BoundAssumption DEF Candidates, CoreInv, TypeInv, TypeOK
  <2>3. keys \in SUBSET Key
    BY <2>2, CandidateFacts DEF CoreInv
  <2> HIDE DEF keys
  <2> QED BY <2>1, <2>3 DEF Ledger!Next
<1>3. ASSUME NEW k \in Key, FailLeftover(k) PROVE Ledger!Next
  BY <1>3 DEF FailLeftover, Ledger!Next
<1>4. CASE ~ \/ \E f \in File : Sending(f)
             \/ PlanRun
             \/ \E k \in Key : FailLeftover(k)
  BY <1>4 DEF Next, RunStep, Edit, StartRun, Recovering, RecoverDone, RemoveLeftover,
     Scanning, ListDir, SkipDir, JudgeKnown, JudgeUnhashed, JudgeTouched, JudgeChanged,
     JudgeUnstable, JudgeRejected, Classify, Judged, Transferring, Sending,
     EndRun, RunDies, Cancel, Abort, Disconnect, ledgers
<1> QED BY <1>1, <1>2, <1>3, <1>4

\* A run implements the ledger, with all its faults and deaths.
THEOREM RunImplementsLedger == Spec => Ledger!Spec
<1>1. Init => Ledger!Init
  BY DEF Init
<1>2. CoreInv /\ [Next]_vars => [Ledger!Next]_row
  BY StepIsStatement
<1> QED BY <1>1, <1>2, CoreInvariant, PTL DEF Spec, Ledger!Spec

\* In the ledger of a run as in the ledger alone: attempts count the transfers
\* begun, whichever of the run's steps and deaths come between.
THEOREM RunCountsAttempts == Spec => Ledger!AttemptsCountBegins
<1> DEFINE Counted == \A k \in Key :
             row'[k].attempts = row[k].attempts
               + IF row'[k].status = "IN_PROGRESS" /\ row[k].status # "IN_PROGRESS"
                 THEN 1 ELSE 0
<1>1. CoreInv /\ [Next]_vars => [Counted]_row
  <2> SUFFICES ASSUME CoreInv, Next, row' # row, NEW i \in Key
      PROVE  row'[i].attempts = row[i].attempts
               + IF row'[i].status = "IN_PROGRESS" /\ row[i].status # "IN_PROGRESS"
                 THEN 1 ELSE 0
    BY DEF vars, ledgers
  <2>1. row \in [Key -> Ledger!Rows] /\ row[i].attempts \in Nat
    BY DEF CoreInv, TypeInv, TypeOK, Ledger!TypeOK, Ledger!Rows
  <2>2. ASSUME NEW keys, Ledger!InsertPendingBatch(keys)
        PROVE  row'[i] = row[i] \/ (row[i] = Ledger!NoRow /\ row'[i] = [status |-> "PENDING", attempts |-> 0])
    BY <2>2 DEF Ledger!InsertPendingBatch
  <2>3. ASSUME NEW k, Ledger!FailPut(k) \/ Ledger!FinishPut(k)
        PROVE  /\ row'[i].attempts = row[i].attempts
               /\ row'[i] = row[i] \/ row'[i].status \in {"FAILED", "VERIFIED"}
    BY <2>1, <2>3 DEF Ledger!FailPut, Ledger!FinishPut, Ledger!Rows
  <2>4. ASSUME NEW k, NEW m, Ledger!BeginPut(k, m)
        PROVE  \/ row'[i] = row[i]
               \/ /\ row[i].status # "IN_PROGRESS" /\ row'[i].status = "IN_PROGRESS"
                  /\ row'[i].attempts = row[i].attempts + 1
    BY <2>1, <2>4 DEF Ledger!BeginPut, Ledger!Beginnable
  <2> QED BY <2>1, <2>2, <2>3, <2>4, RunUsesStatements DEF Ledger!NoRow
<1> QED BY <1>1, CoreInvariant, PTL DEF Spec, Ledger!AttemptsCountBegins
-----------------------------------------------------------------------------
\* A delivered revision is out of every statement's reach, and a given up one out
\* of BeginPut's, unless a resend raises its bound.
LEMMA ClosedRowStays ==
    ASSUME CoreInv, CoreInv', [Next]_vars, "manual" \notin Kinds, NEW k \in Key,
           \/ row[k].status = "VERIFIED"
           \/ row[k].status = "FAILED" /\ row[k].attempts >= MaxRetries
    PROVE  row'[k] = row[k]
<1>1. /\ row \in [Key -> Ledger!Rows] /\ row[k].attempts \in Nat
      /\ row'[k].attempts <= MaxRetries /\ MaxRetries \in Nat
  BY ContentTypes, BoundAssumption DEF Ledger!Rows, CoreInv, BudgetInv
<1>2. CASE row' = row
  BY <1>2
<1>3. ASSUME NEW i \in Key, NEW m \in 1 .. AttemptCap, Ledger!BeginPut(i, m)
      PROVE  row'[k] = row[k]
  BY <1>1, <1>3 DEF Ledger!BeginPut, Ledger!Beginnable
<1>4. ASSUME NEW keys \in SUBSET Key, Ledger!InsertPendingBatch(keys)
      PROVE  row'[k] = row[k]
  BY <1>4 DEF Ledger!InsertPendingBatch, Ledger!NoRow
<1>5. ASSUME NEW i \in Key, Ledger!FinishPut(i) \/ Ledger!FailPut(i) \/ Ledger!SeedVerified(i)
      PROVE  row'[k] = row[k]
  BY <1>1, <1>5 DEF Ledger!FinishPut, Ledger!FailPut, Ledger!SeedVerified, Ledger!NoRow
<1> QED BY <1>2, <1>3, <1>4, <1>5, StepIsStatement DEF Ledger!Next

\* A judgement of a file whose facts are on record finds them unchanged: what it
\* was listed with can be no other.
LEMMA RecordStays ==
    ASSUME CoreInv, [Next]_vars, UNCHANGED local, NEW f \in File, Recorded(f)
    PROVE  Recorded(f)' /\ Current(f)' = Current(f)
<1>1. /\ common \in [File -> CommonRow] /\ local[f].mtime \in Nat
      /\ common[f].rev \in Rev /\ common[f].rev # 0
      /\ common[f].size = SizeOf[local[f].body] /\ common[f].mtime = local[f].mtime
  BY ContentTypes, BoundAssumption DEF Recorded, FactsOf, Rev
<1>2. SUFFICES /\ common'[f].rev = common[f].rev /\ common'[f].size = common[f].size
               /\ common'[f].mtime = common[f].mtime
  BY DEF Recorded, FactsOf, Current
<1>3. ASSUME NEW g \in File, Judging(g), common' # common PROVE <1>2!1
  <2>1. stage[g] = "listed" /\ \A h \in File \ {g} : common'[h] = common[h]
    BY <1>1, <1>3 DEF Judging, JudgeKnown, JudgeUnhashed, JudgeTouched, JudgeChanged, JudgeUnstable,
                JudgeRejected, SetContentHash, TouchCommonMTime, UpsertCommon
  <2>2. CASE g = f
    <3>1. /\ entry[f].mtime \in Nat /\ entry[f].mtime = local[f].mtime
          /\ entry[f].size = common[f].size
      BY <1>1, <2>1, <2>2, BoundAssumption DEF CoreInv, TypeInv, FactsInv, Facts
    <3>2. SameFacts(f) /\ ~ Drifted(f)
      BY <1>1, <3>1 DEF SameFacts, Drifted
    <3>3. \E h \in Body \cup {NoHash} : SetContentHash(f, h)
      BY <1>3, <2>2, <3>2 DEF Judging, JudgeKnown, JudgeUnhashed, JudgeTouched, JudgeChanged,
                              JudgeUnstable, JudgeRejected
    <3> QED BY <1>1, <3>3 DEF SetContentHash, CommonRow
  <2> QED BY <2>1, <2>2
<1>4. ASSUME NEW g \in File, Sending(g) PROVE common' = common
  BY <1>4, SendingIsRest DEF CoreInv, Rest
<1>5. CASE ~ \E g \in File : Judging(g) \/ Sending(g)
  <2>1. common' = common
    BY <1>5 DEF Next, RunStep, Edit, StartRun, Recovering, RecoverDone, RemoveLeftover,
       FailLeftover, Scanning, ListDir, SkipDir, Judging, PlanRun, Transferring, Sending,
       EndRun, RunDies, Cancel, Abort, Disconnect, Rest, ledgers, vars
  <2> QED BY <2>1
<1> QED BY <1>3, <1>4, <1>5

\* The safety half of EverythingSettles: what is settled stays so.
THEOREM SettledFilesStay == Spec => SettledStays
<1> DEFINE Stays == UNCHANGED local /\ "manual" \notin Kinds =>
                      \A f \in File : Settled(f) => Settled(f)'
<1>1. CoreInv /\ CoreInv' /\ [Next]_vars => [Stays]_vars
  <2> SUFFICES ASSUME CoreInv, CoreInv', Next, UNCHANGED local, "manual" \notin Kinds,
                      NEW f \in File, Settled(f)
               PROVE  Settled(f)'
    OBVIOUS
  <2> DEFINE present == {g \in File : local[g].there /\ FactsOf(g).size > 0}
  <2>1. present' = present
    BY DEF FactsOf
  <2>2. CASE f \notin present
    BY <2>1, <2>2 DEF Settled
  <2>3. CASE Recorded(f) /\ Holds(f, RequiredKinds, present)
    BY <2>1, <2>3, RecordStays DEF Settled
  <2>4. CASE /\ Recorded(f)
             /\ \/ row[Current(f)].status = "VERIFIED"
                \/ row[Current(f)].status = "FAILED"
                   /\ row[Current(f)].attempts >= MaxRetries
    <3>1. Current(f) \in Key
      BY <2>4 DEF Recorded, Current, Key
    <3>2. row'[Current(f)] = row[Current(f)]
      BY <2>4, <3>1, ClosedRowStays
    <3>3. Recorded(f)' /\ Current(f)' = Current(f)
      BY <2>4, RecordStays
    <3> QED BY <2>4, <3>2, <3>3 DEF Settled
  <2> QED BY <2>2, <2>3, <2>4 DEF Settled
<1> QED BY <1>1, CoreInvariant, PTL DEF Spec, SettledStays
=============================================================================
