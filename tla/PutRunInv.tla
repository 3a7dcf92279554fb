----------------------------- MODULE PutRunInv -----------------------------
(***************************************************************************)
(* The inductive invariant of PutRun: what holds between its steps and     *)
(* makes the properties the proofs are about follow from one step.         *)
(***************************************************************************)
EXTENDS PutRun

\* What common_ledger and a listing know of a file.  Revisions do not outrun
\* the edits, and one mtime has one size, since every edit shows in the mtime.
FactsInv ==
    \A f \in File :
        /\ common[f].rev <= common[f].mtime /\ common[f].mtime <= local[f].mtime
        /\ common[f].rev # 0 /\ common[f].mtime = local[f].mtime
             => common[f].size = SizeOf[local[f].body]
        /\ stage[f] = "listed" =>
             /\ entry[f] \in Facts
             /\ common[f].mtime <= entry[f].mtime
             /\ entry[f].mtime <= local[f].mtime
             /\ entry[f].mtime = local[f].mtime
                  => entry[f].size = SizeOf[local[f].body]
             /\ common[f].rev # 0 /\ common[f].mtime = entry[f].mtime
                  => common[f].size = entry[f].size

\* A copy in progress remembers the local file it opened.
SrcKnown == \A f \in File : job[f].step = "uploading" => job[f].src \in LocalFile

TypeInv == TypeOK /\ FactsInv /\ SrcKnown

\* What a judgement said of a file still is so when the plan reads it.
StageInv ==
    /\ phase # "scan" => observed = {} /\ \A f \in File : stage[f] = "unseen"
    /\ \A f \in File :
         /\ stage[f] # "unseen" => DirOf[f] \notin dirs
         /\ stage[f] \in {"cand", "failed"} => common[f].rev # 0
         /\ stage[f] = "cand" => row[Current(f)].status \in {"NONE", "PENDING"}
         /\ stage[f] = "failed" => row[Current(f)].status = "FAILED"
         /\ f \in observed =>
              \/ stage[f] \in {"cand", "failed"}
              \/ /\ stage[f] = "out" /\ common[f].rev # 0
                 /\ row[Current(f)].status = "VERIFIED"

\* No row is ahead of common_ledger, and only a begun row has attempts.
RowsInv ==
    /\ \A f \in File, r \in Rev : r > common[f].rev => row[<<f, r>>] = Ledger!NoRow
    /\ \A k \in Key : row[k].status \in {"NONE", "PENDING"} => row[k].attempts = 0

\* A transfer and the current row of its file agree at every step.
JobInv ==
    /\ phase # "transfer" => \A f \in File : job[f].step = "none"
    /\ \A f \in File :
         /\ job[f].step \in Active \cup {"queued", "lost"} =>
              /\ job[f].rev # 0 /\ job[f].rev = common[f].rev
              /\ job[f].size = common[f].size
         /\ job[f].step = "queued" =>
              Ledger!Beginnable(<<f, job[f].rev>>, job[f].bound)
         /\ job[f].step \in Active => row[<<f, job[f].rev>>].status = "IN_PROGRESS"
         /\ job[f].step = "checked" => part[f].size = job[f].size
    /\ phase \in {"scan", "transfer"} =>
         \A k \in Ledger!ListInProgress :
             job[k[1]].step \in Active \cup {"lost"} /\ job[k[1]].rev = k[2]

\* Without manual resends neither a row nor a job is past MaxRetries.
BudgetInv ==
    "manual" \notin Kinds =>
        /\ kind # "manual"
        /\ \A k \in Key : row[k].attempts <= MaxRetries
        /\ \A f \in File : job[f].bound <= MaxRetries

\* The first half of the inductive invariant: planning, sending and recovering,
\* in any order and cut short anywhere, leave the ledgers, the scan's judgements
\* and the transfers consistent with each other.
CoreInv == TypeInv /\ StageInv /\ RowsInv /\ JobInv /\ BudgetInv

\* A fingerprint is of the content the file had when its mtime was noted, and
\* without reverts nothing older comes after it.
PrintInv ==
    \A f \in File : common[f].hash # NoHash =>
        /\ common[f].mtime = local[f].mtime => common[f].hash = local[f].body
        /\ ~ Reverts => common[f].hash <= local[f].body

\* The content c passes for that of f: if f is as its ledger row says, by its
\* mtime or by its fingerprint, c is its content.  A file that was touched is
\* known by its fingerprint alone, which a revert deceives.
Faithful(f, c) ==
    /\ common[f].mtime = local[f].mtime /\ (~ Reverts \/ common[f].hash = NoHash)
         => c = local[f].body
    /\ ~ Reverts /\ common[f].hash # NoHash /\ common[f].hash = local[f].body
         => c = local[f].body

\* The local file an upload has open is one the producer made after the scan.
OpenedInv ==
    \A f \in File : job[f].step = "uploading" =>
        LET src == job[f].src
        IN  /\ common[f].mtime <= src.mtime /\ src.mtime <= local[f].mtime
            /\ src.mtime = local[f].mtime => src.body = local[f].body
            /\ Faithful(f, src.body)

\* Where the content of f is at each step of its transfer and after it.
Delivered(f, size) ==
    /\ part[f] = NoFile /\ final[f] # NoFile
    /\ final[f].size = size /\ Faithful(f, final[f].body)
SentInv ==
    \A f \in File :
        /\ job[f].step \in {"uploaded", "checked"} =>
             part[f] # NoFile /\ Faithful(f, part[f].body)
        /\ job[f].step \in {"renamed", "confirmed"} => Delivered(f, job[f].size)
        /\ common[f].rev # 0 /\ row[Current(f)].status = "VERIFIED" =>
             Delivered(f, common[f].size)
        /\ part[f] # NoFile =>
             \E r \in Rev : row[<<f, r>>].status \in {"IN_PROGRESS", "FAILED"}

\* What the scan has left out although its facts are on record is delivered.
SeenInv ==
    phase = "scan" =>
        \A f \in File : stage[f] = "out" /\ Recorded(f) =>
                         row[Current(f)].status = "VERIFIED"

\* No more directories are taken and not done with than there are workers, and
\* only the ledger loses a transfer.
PoolInv ==
    /\ Cardinality({e \in Dir : Undone(e) /\ Taken(e)}) <= MaxWorkers
    /\ \A f \in File : job[f].step = "lost" => fatal

\* The inductive invariant: the ledgers and the run agree, and so do they and
\* what is on the server.
IInv == CoreInv /\ PrintInv /\ OpenedInv /\ SentInv /\ SeenInv /\ PoolInv
=============================================================================
