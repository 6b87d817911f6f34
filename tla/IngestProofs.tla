---------------------------- MODULE IngestProofs ----------------------------
(***************************************************************************)
(* Proofs about IngestPipeline for any number of processes, sources and    *)
(* dates, any choice of commands and any bounds.                           *)
(*                                                                         *)
(* WorkingInvariant is shown to hold initially and to be preserved by every *)
(* step, one part of it at a time: types, local variables, the lock, the   *)
(* ledger, and what the holder of the lock knows.  PathsFree and           *)
(* DiskInvariant, about the files, are preserved on top of it.  Every step *)
(* maps to one of IngestPromise or to none.                                *)
(***************************************************************************)
EXTENDS IngestInvariant, FiniteSetTheorems, TLAPS

-----------------------------------------------------------------------------
(* Types.                                                                  *)

\* A step of p moves p from one step to another and nobody else.
LEMMA StepTyped ==
  ASSUME pc \in [Proc -> Steps], NEW p \in Proc, NEW from, NEW to \in Steps,
         Step(p, from, to)
  PROVE  /\ pc' \in [Proc -> Steps]
         /\ pc[p] = from /\ pc'[p] = to
         /\ \A q \in Proc \ {p} : pc'[q] = pc[q]
  BY DEF Step

\* New local variables of p are those of p alone.
LEMMA LocalTyped ==
  ASSUME job \in [Proc -> Job], NEW p \in Proc, NEW j \in Job, Local(p, j)
  PROVE  /\ job' \in [Proc -> Job]
         /\ job'[p] = j
         /\ \A q \in Proc \ {p} : job'[q] = job[q]
  BY DEF Local

\* The local variables of an idle process are well typed.
LEMMA NoJobTyped == NoJob \in Job
  BY DEF NoJob, Job

\* An append lengthens the ledger by one line and keeps the others.
LEMMA AppendFacts ==
  ASSUME ledger \in Seq(Record), NEW r \in Record, ledger' = Append(ledger, r)
  PROVE  /\ ledger' \in Seq(Record)
         /\ Len(ledger) \in Nat
         /\ Len(ledger') = Len(ledger) + 1
         /\ ledger'[Len(ledger) + 1] = r
         /\ \A i \in 1..Len(ledger) : ledger'[i] = ledger[i]
  OBVIOUS

\* A snapshot with a given identity leaves a ledger of whole records.
LEMMA SnapshotTyped ==
  ASSUME ledger \in Seq(Record), NEW id \in RecordId,
         NEW mid \in Meeting \cup {None}, NEW out \in Output \cup {None},
         NEW produced \in BOOLEAN, NEW archived \in BOOLEAN,
         NEW reconcile \in {"pending", "completed", "skipped"},
         AppendSnapshot(id, mid, out, produced, archived, reconcile)
  PROVE  ledger' \in Seq(Record)
<1> DEFINE r == [src |-> id.src, seq |-> id.seq, event |-> id.event, run |-> id.run,
                 mid |-> mid, out |-> out, produced |-> produced,
                 archived |-> archived, reconcile |-> reconcile]
<1>1. r \in Record
  BY DEF Record, RecordId
<1>2. ledger' = Append(ledger, r) \/ ledger' = ledger
  BY DEF AppendSnapshot
<1> QED
  BY <1>1, <1>2, AppendFacts

\* So does a snapshot that mints its own identity.
LEMMA MintedTyped ==
  ASSUME ledger \in Seq(Record), NEW s \in Source, NEW event \in Events, NEW run \in Nat,
         NEW mid \in Meeting \cup {None}, NEW out \in Output \cup {None},
         NEW archived \in BOOLEAN, NEW reconcile \in {"pending", "completed", "skipped"},
         AppendMinted(s, event, run, mid, out, archived, reconcile)
  PROVE  ledger' \in Seq(Record)
<1>1. PICK k \in 1..(Len(ledger) + 1) :
        AppendSnapshot([src |-> s, seq |-> k, event |-> event, run |-> run],
                       mid, out, FALSE, archived, reconcile)
  BY DEF AppendMinted
<1>2. k \in Nat
  OBVIOUS
<1>3. [src |-> s, seq |-> k, event |-> event, run |-> run] \in RecordId
  BY <1>2 DEF RecordId
<1> QED
  BY <1>1, <1>3, SnapshotTyped

\* Writing one file keeps the set of files finite and well typed.
LEMMA FileWritten ==
  ASSUME TypeOK, NEW path \in Date \X Nat, NEW content \in File,
         artifacts' = WithFile(path, content)
  PROVE  /\ DOMAIN artifacts' \subseteq Date \X Nat
         /\ IsFiniteSet(DOMAIN artifacts')
         /\ artifacts' \in [DOMAIN artifacts' -> File]
<1>1. DOMAIN artifacts' = DOMAIN artifacts \cup {path}
  BY DEF WithFile
<1>2. IsFiniteSet(DOMAIN artifacts')
  <2>1. IsFiniteSet(DOMAIN artifacts)
    BY DEF TypeOK
  <2>2. IsFiniteSet(DOMAIN artifacts \cup {path})
    BY <2>1, FS_AddElement
  <2> QED
    BY <1>1, <2>2
<1>3. \A f \in DOMAIN artifacts : artifacts[f] \in File
  BY DEF TypeOK
<1>4. \A f \in DOMAIN artifacts' : artifacts'[f] \in File
  BY <1>1, <1>3 DEF WithFile
<1>5. artifacts' = [f \in DOMAIN artifacts' |-> artifacts'[f]]
  BY DEF WithFile
<1>6. artifacts' \in [DOMAIN artifacts' -> File]
  BY <1>4, <1>5
<1>7. DOMAIN artifacts' \subseteq Date \X Nat
  BY <1>1 DEF TypeOK
<1> QED
  BY <1>2, <1>6, <1>7

\* Removing one does, too.
LEMMA FileRemoved ==
  ASSUME TypeOK, NEW path, artifacts' = WithoutFile(path)
  PROVE  /\ DOMAIN artifacts' \subseteq Date \X Nat
         /\ IsFiniteSet(DOMAIN artifacts')
         /\ artifacts' \in [DOMAIN artifacts' -> File]
<1>1. DOMAIN artifacts' = DOMAIN artifacts \ {path}
  BY DEF WithoutFile
<1>2. IsFiniteSet(DOMAIN artifacts')
  <2>1. IsFiniteSet(DOMAIN artifacts)
    BY DEF TypeOK
  <2>2. IsFiniteSet(DOMAIN artifacts \ {path})
    BY <2>1, FS_RemoveElement
  <2> QED
    BY <1>1, <2>2
<1>3. \A f \in DOMAIN artifacts : artifacts[f] \in File
  BY DEF TypeOK
<1>4. \A f \in DOMAIN artifacts' : artifacts'[f] \in File
  BY <1>1, <1>3 DEF WithoutFile
<1>5. artifacts' = [f \in DOMAIN artifacts' |-> artifacts'[f]]
  BY DEF WithoutFile
<1>6. artifacts' \in [DOMAIN artifacts' -> File]
  BY <1>4, <1>5
<1>7. DOMAIN artifacts' \subseteq Date \X Nat
  BY <1>1 DEF TypeOK
<1> QED
  BY <1>2, <1>6, <1>7

-----------------------------------------------------------------------------
(* Types and local variables, action by action.                            *)

\* Starting a command sets the local variables its first step reads.
LEMMA StartTyped ==
  ASSUME TypeOK, NEW p \in Proc, Start(p)
  PROVE  TypeOK' /\ JobReady(p)'
<1> USE DEF disk, budget, Steps
<1>1. CASE \E s \in Source, at \in {"inbox", "done", "outside"} : StartIngest(p, s, at)
  <2>1. PICK s \in Source, at \in {"inbox", "done", "outside"} : StartIngest(p, s, at)
    BY <1>1
  <2> DEFINE j == [NoJob EXCEPT !.op = "ingest", !.src = s, !.at = at, !.run = runs + 1]
  <2>r. runs + 1 \in Nat
    BY DEF TypeOK
  <2>2. j \in Job /\ j.op = "ingest" /\ j.src = s
    BY <2>r DEF NoJob, Job
  <2>3. Local(p, j) /\ Step(p, "idle", "acquire") /\ runs' \in Nat
    BY <2>1 DEF StartIngest, TypeOK
  <2>4. job' \in [Proc -> Job] /\ job'[p] = j
    BY <2>2, <2>3, LocalTyped DEF TypeOK
  <2>5. pc' \in [Proc -> Steps] /\ pc'[p] = "acquire"
    BY <2>3, StepTyped DEF TypeOK
  <2>6. TypeOK'
    BY <2>1, <2>3, <2>4, <2>5 DEF StartIngest, TypeOK
  <2>7. JobReady(p)'
    BY <2>2, <2>4, <2>5 DEF JobReady, SourceSteps, DateSteps, OutputSteps, MintedSteps,
                            FreshSteps, FiledSteps, RepairSteps, RedateSteps
  <2> QED
    BY <2>6, <2>7
<1>2. CASE \E s \in Source, d \in Date : StartRepairDate(p, s, d)
  <2>1. PICK s \in Source, d \in Date : StartRepairDate(p, s, d)
    BY <1>2
  <2> DEFINE j == [NoJob EXCEPT !.op = "repair-date", !.src = s, !.date = d]
  <2>2. j \in Job /\ j.op = "repair-date" /\ j.src = s /\ j.date = d
    BY DEF NoJob, Job
  <2>3. Local(p, j) /\ Step(p, "idle", "acquire") /\ runs' \in Nat
    BY <2>1 DEF StartRepairDate, TypeOK
  <2>4. job' \in [Proc -> Job] /\ job'[p] = j
    BY <2>2, <2>3, LocalTyped DEF TypeOK
  <2>5. pc' \in [Proc -> Steps] /\ pc'[p] = "acquire"
    BY <2>3, StepTyped DEF TypeOK
  <2>6. TypeOK'
    BY <2>1, <2>3, <2>4, <2>5 DEF StartRepairDate, TypeOK
  <2>7. JobReady(p)'
    BY <2>2, <2>4, <2>5 DEF JobReady, SourceSteps, DateSteps, OutputSteps, MintedSteps,
                            FreshSteps, FiledSteps, RepairSteps, RedateSteps
  <2> QED
    BY <2>6, <2>7
<1>3. CASE StartReconcile(p)
  <2> DEFINE j == [NoJob EXCEPT !.op = "reconcile", !.at = "inbox"]
  <2>2. j \in Job /\ j.op = "reconcile"
    BY DEF NoJob, Job
  <2>3. Local(p, j) /\ Step(p, "idle", "acquire")
    BY <1>3 DEF StartReconcile
  <2>4. job' \in [Proc -> Job] /\ job'[p] = j
    BY <2>2, <2>3, LocalTyped DEF TypeOK
  <2>5. pc' \in [Proc -> Steps] /\ pc'[p] = "acquire"
    BY <2>3, StepTyped DEF TypeOK
  <2>6. TypeOK'
    BY <1>3, <2>4, <2>5 DEF StartReconcile, TypeOK
  <2>7. JobReady(p)'
    BY <2>2, <2>4, <2>5 DEF JobReady, SourceSteps, DateSteps, OutputSteps, MintedSteps,
                            FreshSteps, FiledSteps, RepairSteps, RedateSteps
  <2> QED
    BY <2>6, <2>7
<1> QED
  BY <1>1, <1>2, <1>3 DEF Start

\* Steps that change nothing but the program counter.
LEMMA ControlTyped ==
  ASSUME TypeOK, NEW p \in Proc, JobReady(p),
         \/ PrepareGone(p) \/ ProviderAccepted(p) \/ VerifyLink(p) \/ RepairDone(p)
         \/ RepairNothing(p) \/ RedateUnreadable(p) \/ RedateVerify(p)
  PROVE  TypeOK' /\ JobReady(p)'
<1>1. PICK from \in Steps, to \in {"mint", "archive", "release"} :
        /\ Step(p, from, to)
        /\ to = "mint" => from = "extract"
        /\ to = "archive" => from = "verify"
  BY DEF PrepareGone, ProviderAccepted, VerifyLink, RepairDone, RepairNothing,
         RedateUnreadable, RedateVerify, Steps
<1>2. UNCHANGED <<lock, disk, job, budget>>
  BY DEF PrepareGone, ProviderAccepted, VerifyLink, RepairDone, RepairNothing,
         RedateUnreadable, RedateVerify
<1>3. pc' \in [Proc -> Steps] /\ pc[p] = from /\ pc'[p] = to
  BY <1>1, StepTyped DEF TypeOK, Steps
<1>4. TypeOK'
  BY <1>2, <1>3 DEF TypeOK, disk, budget
<1>5. JobReady(p)'
  BY <1>1, <1>2, <1>3 DEF JobReady, SourceSteps, DateSteps, OutputSteps, MintedSteps,
                          FreshSteps, FiledSteps, RepairSteps, RedateSteps
<1> QED
  BY <1>4, <1>5

\* Taking and leaving the lock.
LEMMA LockTyped ==
  ASSUME TypeOK, NEW p \in Proc, JobReady(p),
         Acquire(p) \/ LockConflict(p) \/ Release(p)
  PROVE  TypeOK' /\ JobReady(p)'
<1>1. CASE Acquire(p)
  <2>1. PICK to \in {"prepare", "scan", "target"} :
          /\ Step(p, "acquire", to)
          /\ to = "prepare" => job[p].op = "ingest"
          /\ to = "target" => job[p].op = "repair-date"
    <3>1. job[p].op \in {"ingest", "reconcile", "repair-date"}
      BY <1>1 DEF Acquire, Step, JobReady, TypeOK, Job
    <3> QED
      BY <1>1, <3>1 DEF Acquire
  <2>2. pc' \in [Proc -> Steps] /\ pc[p] = "acquire" /\ pc'[p] = to
    BY <2>1, StepTyped DEF TypeOK, Steps
  <2>3. TypeOK'
    BY <1>1, <2>2 DEF TypeOK, Acquire, disk, budget
  <2>4. JobReady(p)'
    BY <1>1, <2>1, <2>2
    DEF Acquire, JobReady, SourceSteps, DateSteps, OutputSteps, MintedSteps,
        FreshSteps, FiledSteps, RepairSteps, RedateSteps
  <2> QED
    BY <2>3, <2>4
<1>2. CASE LockConflict(p) \/ Release(p)
  <2>1. PICK from : Step(p, from, "idle")
    BY <1>2 DEF LockConflict, Release
  <2>2. pc' \in [Proc -> Steps] /\ pc'[p] = "idle"
    BY <2>1, StepTyped DEF TypeOK, Steps
  <2>3. job' \in [Proc -> Job]
    BY <1>2, NoJobTyped, LocalTyped DEF TypeOK, LockConflict, Release
  <2>4. TypeOK'
    BY <1>2, <2>2, <2>3 DEF TypeOK, LockConflict, Release, disk, budget
  <2>5. JobReady(p)'
    BY <2>2 DEF JobReady, SourceSteps, DateSteps, OutputSteps, MintedSteps,
                FreshSteps, FiledSteps, RepairSteps, RedateSteps
  <2> QED
    BY <2>4, <2>5
<1> QED
  BY <1>1, <1>2

\* _prepare_ingest gives the job its snapshot, and its date or its failure.
LEMMA PrepareTyped ==
  ASSUME TypeOK, NEW p \in Proc, JobReady(p),
         PrepareDuplicate(p) \/ PrepareFresh(p) \/ PrepareUnreadable(p)
  PROVE  TypeOK' /\ JobReady(p)'
<1>a. pc[p] = "prepare"
  BY DEF PrepareDuplicate, PrepareFresh, PrepareUnreadable, Step
<1>1. job[p].src \in Source /\ Len(ledger) \in Nat /\ job[p] \in Job
  BY <1>a DEF JobReady, SourceSteps, TypeOK
<1>2. CASE PrepareDuplicate(p)
  <2> DEFINE j == [job[p] EXCEPT !.snap = Len(ledger), !.todo = {job[p].src}]
  <2>1. j \in Job
    BY <1>1 DEF Job
  <2>2. pc' \in [Proc -> Steps] /\ pc'[p] = "repair_copy"
    BY <1>2, StepTyped DEF PrepareDuplicate, TypeOK, Steps
  <2>3. job' \in [Proc -> Job]
    BY <1>2, <2>1, LocalTyped DEF PrepareDuplicate, TypeOK
  <2>4. TypeOK'
    BY <1>2, <2>2, <2>3 DEF PrepareDuplicate, TypeOK, disk, budget
  <2>5. JobReady(p)'
    BY <2>2 DEF JobReady, SourceSteps, DateSteps, OutputSteps, MintedSteps,
                FreshSteps, FiledSteps, RepairSteps, RedateSteps
  <2> QED
    BY <2>4, <2>5
<1>3. CASE PrepareFresh(p)
  <2>1. PICK d \in Date : Local(p, [job[p] EXCEPT !.snap = Len(ledger), !.date = d])
    BY <1>3 DEF PrepareFresh
  <2> DEFINE j == [job[p] EXCEPT !.snap = Len(ledger), !.date = d]
  <2>2. j \in Job /\ j.src = job[p].src /\ j.date = d
    BY <1>1 DEF Job
  <2>3. pc' \in [Proc -> Steps] /\ pc'[p] = "extract"
    BY <1>3, StepTyped DEF PrepareFresh, TypeOK, Steps
  <2>4. job' \in [Proc -> Job] /\ job'[p] = j
    BY <2>1, <2>2, LocalTyped DEF TypeOK
  <2>5. TypeOK'
    BY <1>3, <2>3, <2>4 DEF PrepareFresh, TypeOK, disk, budget
  <2>6. JobReady(p)'
    BY <1>1, <2>2, <2>3, <2>4
    DEF JobReady, SourceSteps, DateSteps, OutputSteps, MintedSteps,
        FreshSteps, FiledSteps, RepairSteps, RedateSteps
  <2> QED
    BY <2>5, <2>6
<1>4. CASE PrepareUnreadable(p)
  <2> DEFINE j == [job[p] EXCEPT !.event = "ingest_failed", !.run = 0]
  <2>1. j \in Job /\ j.src = job[p].src /\ j.event = "ingest_failed"
    BY <1>1 DEF Job
  <2>2. PICK to \in {"quarantine", "fail"} : Step(p, "prepare", to)
    BY <1>4 DEF PrepareUnreadable
  <2>3. pc' \in [Proc -> Steps] /\ pc'[p] = to
    BY <2>2, StepTyped DEF TypeOK, Steps
  <2>4. job' \in [Proc -> Job] /\ job'[p] = j
    BY <1>4, <2>1, LocalTyped DEF PrepareUnreadable, TypeOK
  <2>5. TypeOK'
    BY <1>4, <2>3, <2>4 DEF PrepareUnreadable, TypeOK, disk, budget
  <2>6. JobReady(p)'
    BY <1>1, <2>1, <2>3, <2>4
    DEF JobReady, SourceSteps, DateSteps, OutputSteps, MintedSteps,
        FreshSteps, FiledSteps, RepairSteps, RedateSteps
  <2> QED
    BY <2>5, <2>6
<1> QED
  BY <1>2, <1>3, <1>4

\* The failure paths keep the job of the ingest that failed.
LEMMA FailureTyped ==
  ASSUME TypeOK, NEW p \in Proc, JobReady(p),
         Quarantine(p) \/ ProviderRejected(p) \/ RecordFailure(p)
  PROVE  TypeOK' /\ JobReady(p)'
<1>a. job[p] \in Job
  BY DEF TypeOK
<1>1. CASE Quarantine(p)
  <2> DEFINE j == [job[p] EXCEPT !.event = "source_quarantined"]
  <2>1. j \in Job /\ j.src = job[p].src /\ j.event = "source_quarantined"
    BY <1>a DEF Job
  <2>2. pc' \in [Proc -> Steps] /\ pc[p] = "quarantine" /\ pc'[p] = "fail"
    BY <1>1, StepTyped DEF Quarantine, TypeOK, Steps
  <2>3. job' \in [Proc -> Job] /\ job'[p] = j
    BY <1>1, <2>1, LocalTyped DEF Quarantine, TypeOK
  <2>4. places' \in [Source -> SUBSET Places]
    BY <1>1 DEF Quarantine, TypeOK, Places
  <2>5. TypeOK'
    BY <1>1, <2>2, <2>3, <2>4 DEF Quarantine, TypeOK, budget
  <2>6. JobReady(p)'
    BY <2>1, <2>2, <2>3
    DEF JobReady, SourceSteps, DateSteps, OutputSteps, MintedSteps,
        FreshSteps, FiledSteps, RepairSteps, RedateSteps
  <2> QED
    BY <2>5, <2>6
<1>2. CASE ProviderRejected(p)
  <2> DEFINE j == [job[p] EXCEPT !.event = "ingest_failed"]
  <2>1. j \in Job /\ j.src = job[p].src /\ j.event = "ingest_failed"
    BY <1>a DEF Job
  <2>2. pc' \in [Proc -> Steps] /\ pc[p] = "extract" /\ pc'[p] = "fail"
    BY <1>2, StepTyped DEF ProviderRejected, TypeOK, Steps
  <2>3. job' \in [Proc -> Job] /\ job'[p] = j
    BY <1>2, <2>1, LocalTyped DEF ProviderRejected, TypeOK
  <2>4. TypeOK'
    BY <1>2, <2>2, <2>3 DEF ProviderRejected, TypeOK, disk, budget
  <2>5. JobReady(p)'
    BY <2>1, <2>2, <2>3
    DEF JobReady, SourceSteps, DateSteps, OutputSteps, MintedSteps,
        FreshSteps, FiledSteps, RepairSteps, RedateSteps
  <2> QED
    BY <2>4, <2>5
<1>3. CASE RecordFailure(p)
  <2> DEFINE mid == IF job[p].date = None THEN None ELSE <<job[p].src, job[p].date>>
  <2>1. pc' \in [Proc -> Steps] /\ pc[p] = "fail" /\ pc'[p] = "release"
    BY <1>3, StepTyped DEF RecordFailure, TypeOK, Steps
  <2>2. /\ job[p].src \in Source /\ job[p].run \in Nat
        /\ job[p].date \in Date \cup {None}
        /\ job[p].event \in {"ingest_failed", "source_quarantined"}
    BY <1>a, <2>1 DEF JobReady, SourceSteps, FreshSteps, Job
  <2>3. mid \in Meeting \cup {None}
    BY <2>2 DEF Meeting
  <2>4. AppendMinted(job[p].src, job[p].event, job[p].run, mid, None, FALSE, "skipped")
    BY <1>3 DEF RecordFailure
  <2>5. ledger' \in Seq(Record)
    <3>1. job[p].event \in Events
      BY <2>2 DEF Events
    <3> HIDE DEF mid
    <3> QED
      BY <2>2, <2>3, <2>4, <3>1, MintedTyped DEF TypeOK
  <2>6. TypeOK'
    BY <1>3, <2>1, <2>5 DEF RecordFailure, TypeOK, budget
  <2>7. JobReady(p)'
    BY <2>1 DEF JobReady, SourceSteps, DateSteps, OutputSteps, MintedSteps,
                FreshSteps, FiledSteps, RepairSteps, RedateSteps
  <2> QED
    BY <2>6, <2>7
<1> QED
  BY <1>1, <1>2, <1>3

\* Minting gives the job its identity and a path of the right kind.
LEMMA MintTyped ==
  ASSUME TypeOK, NEW p \in Proc, JobReady(p), Mint(p)
  PROVE  TypeOK' /\ JobReady(p)'
<1>1. /\ pc' \in [Proc -> Steps] /\ pc[p] = "mint" /\ pc'[p] = "write_signals"
  BY StepTyped DEF Mint, TypeOK, Steps
<1>2. /\ job[p].src \in Source /\ job[p].date \in Date
      /\ job[p] \in Job /\ job[p].run \in Nat
  BY <1>1 DEF JobReady, SourceSteps, DateSteps, FreshSteps, TypeOK, Job
<1>3. PICK n \in 1..(Cardinality(DOMAIN artifacts) + 1), k \in 1..(Len(ledger) + 1) :
        Local(p, [job[p] EXCEPT
                    !.prod = [src |-> job[p].src, seq |-> k,
                              event |-> "primary_artifacts_ready", run |-> job[p].run],
                    !.path = <<job[p].date, n>>])
  BY DEF Mint
<1>4. n \in Nat /\ k \in Nat
  <2>1. Cardinality(DOMAIN artifacts) \in Nat
    BY FS_CardinalityType DEF TypeOK
  <2> QED
    BY <2>1 DEF TypeOK
<1> DEFINE id == [src |-> job[p].src, seq |-> k,
                  event |-> "primary_artifacts_ready", run |-> job[p].run]
           j == [job[p] EXCEPT !.prod = id, !.path = <<job[p].date, n>>]
<1>5. id \in RecordId /\ id.src = job[p].src /\ id.event = "primary_artifacts_ready"
  BY <1>2, <1>4 DEF RecordId, Events
<1>6. /\ j \in Job /\ j.src = job[p].src /\ j.date = job[p].date
      /\ j.prod = id /\ j.path = <<job[p].date, n>>
  <2>1. <<job[p].date, n>> \in Date \X Nat
    BY <1>2, <1>4
  <2> HIDE DEF id
  <2> QED
    BY <1>2, <1>5, <2>1 DEF Job
<1>7. job' \in [Proc -> Job] /\ job'[p] = j
  <2> HIDE DEF j
  <2> QED
    BY <1>3, <1>6, LocalTyped DEF TypeOK, j
<1>8. TypeOK'
  BY <1>1, <1>7 DEF Mint, TypeOK, disk, budget
<1>9. JobReady(p)'
  <2>1. <<job[p].date, n>> \in Date \X Nat
    BY <1>2, <1>4
  <2> HIDE DEF j, id
  <2>2. /\ job'[p].src \in Source /\ job'[p].date \in Date
        /\ job'[p].prod \in RecordId /\ job'[p].prod.src = job'[p].src
        /\ job'[p].prod.event = "primary_artifacts_ready"
        /\ job'[p].path \in Date \X Nat
    BY <1>2, <1>5, <1>6, <1>7, <2>1
  <2> QED
    BY <1>1, <2>2
    DEF JobReady, SourceSteps, DateSteps, OutputSteps, MintedSteps,
        FreshSteps, FiledSteps, RepairSteps, RedateSteps
<1> QED
  BY <1>8, <1>9

\* Writing signals and artifact leaves files with a meeting and a producer.
LEMMA WriteTyped ==
  ASSUME TypeOK, NEW p \in Proc, JobReady(p), WriteSignals(p) \/ WriteArtifact(p)
  PROVE  TypeOK' /\ JobReady(p)'
<1>1. pc[p] \in {"write_signals", "write_artifact"}
  BY DEF WriteSignals, WriteArtifact, Step
<1>2. /\ job[p].src \in Source /\ job[p].date \in Date /\ job[p].prod \in RecordId
      /\ job[p].path \in Date \X Nat
  BY <1>1 DEF JobReady, SourceSteps, DateSteps, OutputSteps, MintedSteps, FreshSteps
<1>3. CASE WriteSignals(p)
  <2>1. pc' \in [Proc -> Steps] /\ pc[p] = "write_signals" /\ pc'[p] = "write_artifact"
    BY <1>3, StepTyped DEF WriteSignals, TypeOK, Steps
  <2>2. SignalsOf(job[p].prod, job[p].date) \in [prod : RecordId, date : Date]
    BY <1>2 DEF SignalsOf
  <2>3. signals' \in [Meeting -> [prod : RecordId, date : Date] \cup {None}]
    BY <1>3, <2>2 DEF WriteSignals, TypeOK
  <2>4. TypeOK'
    BY <1>3, <2>1, <2>3 DEF WriteSignals, TypeOK, budget
  <2>5. JobReady(p)'
    BY <1>3, <2>1
    DEF WriteSignals, JobReady, SourceSteps, DateSteps, OutputSteps, MintedSteps,
        FreshSteps, FiledSteps, RepairSteps, RedateSteps
  <2> QED
    BY <2>4, <2>5
<1>4. CASE WriteArtifact(p)
  <2>1. pc' \in [Proc -> Steps] /\ pc[p] = "write_artifact" /\ pc'[p] = "append_primary"
    BY <1>4, StepTyped DEF WriteArtifact, TypeOK, Steps
  <2>2. ArtifactOf(<<job[p].src, job[p].date>>, job[p].prod, job[p].date) \in File
    BY <1>2 DEF ArtifactOf, File, Meeting
  <2>3. /\ DOMAIN artifacts' \subseteq Date \X Nat
        /\ IsFiniteSet(DOMAIN artifacts')
        /\ artifacts' \in [DOMAIN artifacts' -> File]
    BY <1>2, <1>4, <2>2, FileWritten DEF WriteArtifact
  <2>4. TypeOK'
    BY <1>4, <2>1, <2>3 DEF WriteArtifact, TypeOK, budget
  <2>5. JobReady(p)'
    BY <1>4, <2>1
    DEF WriteArtifact, JobReady, SourceSteps, DateSteps, OutputSteps, MintedSteps,
        FreshSteps, FiledSteps, RepairSteps, RedateSteps
  <2> QED
    BY <2>4, <2>5
<1> QED
  BY <1>3, <1>4

\* The current outputs of a job are a value the ledger can hold.
LEMMA OutputTyped ==
  ASSUME NEW p \in Proc, job[p].prod \in RecordId, job[p].path \in Date \X Nat,
         job[p].date \in Date
  PROVE  [path |-> job[p].path, prod |-> job[p].prod, date |-> job[p].date] \in Output
  BY DEF Output

\* The two appends of an ingest write whole records.
LEMMA AppendTyped ==
  ASSUME TypeOK, NEW p \in Proc, JobReady(p), AppendPrimary(p) \/ AppendCompleted(p)
  PROVE  TypeOK' /\ JobReady(p)'
<1>1. pc[p] \in {"append_primary", "append_completed"}
  BY DEF AppendPrimary, AppendCompleted, Step
<1>2. /\ job[p].src \in Source /\ job[p].date \in Date /\ job[p].prod \in RecordId
      /\ job[p].path \in Date \X Nat
  BY <1>1 DEF JobReady, SourceSteps, DateSteps, OutputSteps, MintedSteps, FreshSteps, FiledSteps
<1> DEFINE out == [path |-> job[p].path, prod |-> job[p].prod, date |-> job[p].date]
           mid == <<job[p].src, job[p].date>>
<1>3. out \in Output \cup {None} /\ mid \in Meeting \cup {None}
  BY <1>2, OutputTyped DEF Meeting
<1>4. CASE AppendPrimary(p)
  <2>1. PICK to \in {"verify", "release"} : Step(p, "append_primary", to)
    BY <1>4 DEF AppendPrimary
  <2>2. pc' \in [Proc -> Steps] /\ pc[p] = "append_primary" /\ pc'[p] = to
    BY <2>1, StepTyped DEF TypeOK, Steps
  <2>3. AppendSnapshot(job[p].prod, mid, out, TRUE, FALSE, "pending")
    BY <1>4 DEF AppendPrimary
  <2>4. ledger' \in Seq(Record)
    <3> HIDE DEF mid, out
    <3> QED
      BY <1>2, <1>3, <2>3, SnapshotTyped DEF TypeOK
  <2>5. TypeOK'
    BY <1>4, <2>2, <2>4 DEF AppendPrimary, TypeOK, budget
  <2>6. JobReady(p)'
    BY <1>4, <2>2
    DEF AppendPrimary, JobReady, SourceSteps, DateSteps, OutputSteps, MintedSteps,
        FreshSteps, FiledSteps, RepairSteps, RedateSteps
  <2> QED
    BY <2>5, <2>6
<1>5. CASE AppendCompleted(p)
  <2>1. pc' \in [Proc -> Steps] /\ pc'[p] = "release"
    BY <1>5, StepTyped DEF AppendCompleted, TypeOK, Steps
  <2>2. PICK reconcile \in {"completed", "skipped"} :
          AppendMinted(job[p].src, "ingest_completed", job[p].run, mid, out, TRUE, reconcile)
    BY <1>5 DEF AppendCompleted
  <2>3. job[p].run \in Nat
    BY DEF TypeOK, Job
  <2>4. ledger' \in Seq(Record)
    <3>1. "ingest_completed" \in Events
      BY DEF Events
    <3>2. reconcile \in {"pending", "completed", "skipped"}
      OBVIOUS
    <3>3. ledger \in Seq(Record)
      BY DEF TypeOK
    <3> HIDE DEF mid, out
    <3> QED
      BY <1>2, <1>3, <2>2, <2>3, <3>1, <3>2, <3>3, MintedTyped
  <2>5. TypeOK'
    BY <1>5, <2>1, <2>4 DEF AppendCompleted, TypeOK, budget
  <2>6. JobReady(p)'
    BY <2>1 DEF JobReady, SourceSteps, DateSteps, OutputSteps, MintedSteps,
                FreshSteps, FiledSteps, RepairSteps, RedateSteps
  <2> QED
    BY <2>5, <2>6
<1> QED
  BY <1>4, <1>5

\* Moving an inbox copy to _done leaves it in a place that exists.
LEMMA MoveToDoneTyped ==
  ASSUME TypeOK, NEW s, NEW at, MoveToDone(s, at)
  PROVE  places' \in [Source -> SUBSET Places]
  BY DEF MoveToDone, TypeOK, Places

\* Archiving and putting away keep the job of the ingest.
LEMMA ArchiveTyped ==
  ASSUME TypeOK, NEW p \in Proc, JobReady(p), ArchiveCopy(p) \/ ReconcileMove(p)
  PROVE  TypeOK' /\ JobReady(p)'
<1>1. CASE ArchiveCopy(p)
  <2>1. PICK to \in {"move", "release"} : Step(p, "archive", to)
    BY <1>1 DEF ArchiveCopy
  <2>2. pc' \in [Proc -> Steps] /\ pc[p] = "archive" /\ pc'[p] = to
    BY <2>1, StepTyped DEF TypeOK, Steps
  <2>3. places' \in [Source -> SUBSET Places]
    BY <1>1 DEF ArchiveCopy, Archived, TypeOK, Places
  <2>4. TypeOK'
    BY <1>1, <2>2, <2>3 DEF ArchiveCopy, TypeOK, budget
  <2>5. JobReady(p)'
    BY <1>1, <2>2
    DEF ArchiveCopy, JobReady, SourceSteps, DateSteps, OutputSteps, MintedSteps,
        FreshSteps, FiledSteps, RepairSteps, RedateSteps
  <2> QED
    BY <2>4, <2>5
<1>2. CASE ReconcileMove(p)
  <2>1. pc' \in [Proc -> Steps] /\ pc[p] = "move" /\ pc'[p] = "append_completed"
    BY <1>2, StepTyped DEF ReconcileMove, TypeOK, Steps
  <2>2. places' \in [Source -> SUBSET Places]
    BY <1>2, MoveToDoneTyped DEF ReconcileMove
  <2> DEFINE j == [job[p] EXCEPT !.moved = (job[p].at = "inbox")]
  <2>3. /\ j \in Job /\ j.src = job[p].src /\ j.date = job[p].date
        /\ j.prod = job[p].prod /\ j.path = job[p].path
    <3>1. job[p] \in Job /\ (job[p].at = "inbox") \in BOOLEAN
      BY DEF TypeOK
    <3> QED
      BY <3>1 DEF Job
  <2>4. job' \in [Proc -> Job] /\ job'[p] = j
    BY <1>2, <2>3, LocalTyped DEF ReconcileMove, TypeOK
  <2>5. TypeOK'
    BY <1>2, <2>1, <2>2, <2>4 DEF ReconcileMove, TypeOK, budget
  <2>6. JobReady(p)'
    <3> HIDE DEF j
    <3>1. /\ job'[p].src = job[p].src /\ job'[p].date = job[p].date
          /\ job'[p].prod = job[p].prod /\ job'[p].path = job[p].path
      BY <2>3, <2>4
    <3> QED
      BY <2>1, <3>1
      DEF JobReady, SourceSteps, DateSteps, OutputSteps, MintedSteps,
          FreshSteps, FiledSteps, RepairSteps, RedateSteps
  <2> QED
    BY <2>5, <2>6
<1> QED
  BY <1>1, <1>2

\* The duplicate repair works on a list of sources.
LEMMA ReconcileTyped ==
  ASSUME TypeOK, NEW p \in Proc, JobReady(p), ReconcileScan(p) \/ RepairCopy(p) \/ RepairMove(p)
  PROVE  TypeOK' /\ JobReady(p)'
<1>a. job[p] \in Job /\ Len(ledger) \in Nat
  BY DEF TypeOK
<1>1. CASE ReconcileScan(p)
  <2> DEFINE todo == {s \in Source : "inbox" \in places[s] /\ Primary(s)}
             j == [job[p] EXCEPT !.snap = Len(ledger), !.todo = todo]
  <2>1. j \in Job
    <3>1. todo \in SUBSET Source
      OBVIOUS
    <3> HIDE DEF todo
    <3> QED
      BY <1>a, <3>1 DEF Job
  <2>2. pc' \in [Proc -> Steps] /\ pc'[p] = "repair_copy"
    BY <1>1, StepTyped DEF ReconcileScan, TypeOK, Steps
  <2>3. job' \in [Proc -> Job]
    BY <1>1, <2>1, LocalTyped DEF ReconcileScan, TypeOK
  <2>4. TypeOK'
    BY <1>1, <2>2, <2>3 DEF ReconcileScan, TypeOK, disk, budget
  <2>5. JobReady(p)'
    BY <2>2 DEF JobReady, SourceSteps, DateSteps, OutputSteps, MintedSteps,
                FreshSteps, FiledSteps, RepairSteps, RedateSteps
  <2> QED
    BY <2>4, <2>5
<1>2. CASE RepairCopy(p)
  <2>1. PICK s \in job[p].todo :
          LET found == job[p].at \in places[s] IN
          /\ Step(p, "repair_copy", IF found THEN "repair_move" ELSE "release")
          /\ places' = [places EXCEPT ![s] =
                          IF found /\ ~HasProcessedCopy(s) THEN Archived(s) ELSE @]
          /\ Local(p, [job[p] EXCEPT !.src = s, !.changed = ~HasProcessedCopy(s)])
    BY <1>2 DEF RepairCopy
  <2>2. s \in Source
    BY <1>a, <2>1 DEF Job
  <2> DEFINE j == [job[p] EXCEPT !.src = s, !.changed = ~HasProcessedCopy(s)]
  <2>3. j \in Job /\ j.src = s
    <3>1. (~HasProcessedCopy(s)) \in BOOLEAN
      OBVIOUS
    <3> QED
      BY <1>a, <2>2, <3>1 DEF Job
  <2>4. PICK to \in {"repair_move", "release"} : Step(p, "repair_copy", to)
    BY <2>1
  <2>5. pc' \in [Proc -> Steps] /\ pc'[p] = to
    BY <2>4, StepTyped DEF TypeOK, Steps
  <2>6. job' \in [Proc -> Job] /\ job'[p] = j
    BY <2>1, <2>3, LocalTyped DEF TypeOK
  <2>7. places' \in [Source -> SUBSET Places]
    BY <2>1 DEF TypeOK, Places, Archived
  <2>8. TypeOK'
    BY <1>2, <2>5, <2>6, <2>7 DEF RepairCopy, TypeOK, budget
  <2>9. JobReady(p)'
    BY <2>2, <2>3, <2>5, <2>6
    DEF JobReady, SourceSteps, DateSteps, OutputSteps, MintedSteps,
        FreshSteps, FiledSteps, RepairSteps, RedateSteps
  <2> QED
    BY <2>8, <2>9
<1>3. CASE RepairMove(p)
  <2>1. PICK to \in {"repair_append", "repair_copy"} : Step(p, "repair_move", to)
    BY <1>3 DEF RepairMove
  <2>2. pc' \in [Proc -> Steps] /\ pc[p] = "repair_move" /\ pc'[p] = to
    BY <2>1, StepTyped DEF TypeOK, Steps
  <2>3. PICK todo \in SUBSET job[p].todo : Local(p, [job[p] EXCEPT !.todo = todo])
    BY <1>3 DEF RepairMove
  <2> DEFINE j == [job[p] EXCEPT !.todo = todo]
  <2>4. j \in Job /\ j.src = job[p].src
    <3>1. todo \in SUBSET Source
      BY <1>a DEF Job
    <3> QED
      BY <1>a, <3>1 DEF Job
  <2>5. job' \in [Proc -> Job] /\ job'[p] = j
    BY <2>3, <2>4, LocalTyped DEF TypeOK
  <2>6. places' \in [Source -> SUBSET Places]
    BY <1>3, MoveToDoneTyped DEF RepairMove
  <2>7. TypeOK'
    BY <1>3, <2>2, <2>5, <2>6 DEF RepairMove, TypeOK, budget
  <2>8. JobReady(p)'
    BY <2>2, <2>4, <2>5
    DEF JobReady, SourceSteps, DateSteps, OutputSteps, MintedSteps,
        FreshSteps, FiledSteps, RepairSteps, RedateSteps
  <2> QED
    BY <2>7, <2>8
<1> QED
  BY <1>1, <1>2, <1>3

\* A ledger line is a record, and one with outputs names a meeting.
LEMMA LineTyped ==
  ASSUME TypeOK, LedgerSound, NEW i \in 1..Len(ledger)
  PROVE  /\ ledger[i] \in Record
         /\ ledger[i].out # None => /\ ledger[i].out \in Output
                                    /\ ledger[i].mid \in Meeting
<1>1. ledger \in Seq(Record)
  BY DEF TypeOK
<1>2. ledger[i] \in Record
  BY <1>1
<1>3. ledger[i].out \in Output \cup {None}
  BY <1>2 DEF Record
<1>4. ledger[i].out # None => ledger[i].mid \in Meeting
  BY DEF LedgerSound
<1> QED
  BY <1>2, <1>3, <1>4

\* The repair line of a duplicate is a whole record.
LEMMA RepairAppendTyped ==
  ASSUME TypeOK, LedgerSound, NEW p \in Proc, JobReady(p), WorkSound(p), RepairAppend(p)
  PROVE  TypeOK' /\ JobReady(p)'
<1>1. pc' \in [Proc -> Steps] /\ pc[p] = "repair_append" /\ pc'[p] = "repair_copy"
  BY StepTyped DEF RepairAppend, TypeOK, Steps
<1>2. job[p].src \in Source /\ job[p].snap \in 0..Len(ledger) /\ job[p] \in Job
  BY <1>1 DEF JobReady, SourceSteps, WorkSound, RepairSteps, StillPrimary, TypeOK
<1>3. PICK i \in 1..job[p].snap, reconcile \in {"completed", "skipped"} :
        AppendMinted(job[p].src, "reconcile_repaired", ledger[i].run, ledger[i].mid,
                     ledger[i].out, TRUE, reconcile)
  BY DEF RepairAppend
<1>4. i \in 1..Len(ledger)
  BY <1>2 DEF TypeOK
<1>5. /\ ledger[i].run \in Nat /\ ledger[i].mid \in Meeting \cup {None}
      /\ ledger[i].out \in Output \cup {None}
  BY <1>4, LineTyped DEF Record
<1>6. ledger' \in Seq(Record)
  <2>1. "reconcile_repaired" \in Events /\ reconcile \in {"pending", "completed", "skipped"}
    BY DEF Events
  <2>2. ledger \in Seq(Record)
    BY DEF TypeOK
  <2> QED
    BY <1>2, <1>3, <1>5, <2>1, <2>2, MintedTyped
<1> DEFINE j == [job[p] EXCEPT !.todo = @ \ {job[p].src}]
<1>7. j \in Job
  <2>1. job[p].todo \ {job[p].src} \in SUBSET Source
    BY <1>2 DEF Job
  <2> QED
    BY <1>2, <2>1 DEF Job
<1>8. job' \in [Proc -> Job]
  BY <1>7, LocalTyped DEF RepairAppend, TypeOK
<1>9. TypeOK'
  BY <1>1, <1>6, <1>8 DEF RepairAppend, TypeOK, budget
<1>10. JobReady(p)'
  BY <1>1 DEF JobReady, SourceSteps, DateSteps, OutputSteps, MintedSteps,
              FreshSteps, FiledSteps, RepairSteps, RedateSteps
<1> QED
  BY <1>9, <1>10

\* A date repair gets its identity and a path of the right kind.
LEMMA RepairTargetTyped ==
  ASSUME TypeOK, NEW p \in Proc, JobReady(p), RepairTarget(p)
  PROVE  TypeOK' /\ JobReady(p)'
<1>1. /\ pc' \in [Proc -> Steps] /\ pc[p] = "target" /\ pc'[p] = "redate_write"
  BY StepTyped DEF RepairTarget, TypeOK, Steps
<1>2. /\ job[p].src \in Source /\ job[p].date \in Date
      /\ job[p] \in Job /\ Len(ledger) \in Nat
  BY <1>1 DEF JobReady, SourceSteps, DateSteps, TypeOK
<1>3. PICK n \in 1..(Cardinality(DOMAIN artifacts) + 1), k \in 1..(Len(ledger) + 1) :
        Local(p, [job[p] EXCEPT
                    !.snap = Len(ledger),
                    !.prod = [src |-> job[p].src, seq |-> k,
                              event |-> "date_repaired", run |-> 0],
                    !.path = <<job[p].date, n>>])
  BY DEF RepairTarget
<1>4. n \in Nat /\ k \in Nat
  <2>1. Cardinality(DOMAIN artifacts) \in Nat
    BY FS_CardinalityType DEF TypeOK
  <2> QED
    BY <2>1 DEF TypeOK
<1> DEFINE id == [src |-> job[p].src, seq |-> k, event |-> "date_repaired", run |-> 0]
           j == [job[p] EXCEPT !.snap = Len(ledger), !.prod = id, !.path = <<job[p].date, n>>]
<1>5. id \in RecordId /\ id.src = job[p].src /\ id.event = "date_repaired"
  BY <1>2, <1>4 DEF RecordId, Events
<1>6. <<job[p].date, n>> \in Date \X Nat
  BY <1>2, <1>4
<1>7. /\ j \in Job /\ j.src = job[p].src /\ j.date = job[p].date
      /\ j.prod = id /\ j.path = <<job[p].date, n>>
  <2> HIDE DEF id
  <2> QED
    BY <1>2, <1>5, <1>6 DEF Job
<1>8. job' \in [Proc -> Job] /\ job'[p] = j
  <2> HIDE DEF j
  <2> QED
    BY <1>3, <1>7, LocalTyped DEF TypeOK, j
<1>9. TypeOK'
  BY <1>1, <1>8 DEF RepairTarget, TypeOK, disk, budget
<1>10. JobReady(p)'
  <2> HIDE DEF j, id
  <2>1. /\ job'[p].src \in Source /\ job'[p].date \in Date
        /\ job'[p].prod \in RecordId /\ job'[p].prod.src = job'[p].src
        /\ job'[p].prod.event = "date_repaired"
        /\ job'[p].path \in Date \X Nat
    BY <1>2, <1>5, <1>6, <1>7, <1>8
  <2> QED
    BY <1>1, <2>1
    DEF JobReady, SourceSteps, DateSteps, OutputSteps, MintedSteps,
        FreshSteps, FiledSteps, RepairSteps, RedateSteps
<1> QED
  BY <1>9, <1>10

\* The steps of a date repair write files and lines of the right kind.
LEMMA RedateTyped ==
  ASSUME TypeOK, LedgerSound, NEW p \in Proc, JobReady(p), WorkSound(p),
         RedateWrite(p) \/ RedateUnlink(p) \/ RedateSignals(p) \/ RedateAppend(p)
  PROVE  TypeOK' /\ JobReady(p)'
<1>1. pc[p] \in RedateSteps
  BY DEF RedateWrite, RedateUnlink, RedateSignals, RedateAppend, Step, RedateSteps
<1>2. /\ job[p].src \in Source /\ job[p].date \in Date /\ job[p].prod \in RecordId
      /\ job[p].path \in Date \X Nat /\ job[p].snap = Len(ledger)
  BY <1>1 DEF JobReady, SourceSteps, DateSteps, OutputSteps, MintedSteps, WorkSound
<1>3. ASSUME NEW i \in 1..job[p].snap, IsTarget(i, job[p].src, job[p].snap)
      PROVE  /\ ledger[i] \in Record
             /\ ledger[i].out # None
             /\ ledger[i].mid \in Meeting
  BY <1>2, <1>3, LineTyped DEF IsTarget, HasPrimaryArtifacts
<1>4. CASE RedateWrite(p)
  <2>1. pc' \in [Proc -> Steps] /\ pc'[p] = "redate_unlink" /\ pc[p] = "redate_write"
    BY <1>4, StepTyped DEF RedateWrite, TypeOK, Steps
  <2>2. PICK f \in DOMAIN artifacts :
          /\ artifacts[f] # PartialFile
          /\ artifacts' = WithFile(job[p].path,
                                   ArtifactOf(artifacts[f].mid, job[p].prod, job[p].date))
    BY <1>4 DEF RedateWrite, IsReadable
  <2>3. ArtifactOf(artifacts[f].mid, job[p].prod, job[p].date) \in File
    BY <1>2, <2>2 DEF ArtifactOf, File, TypeOK
  <2>4. /\ DOMAIN artifacts' \subseteq Date \X Nat
        /\ IsFiniteSet(DOMAIN artifacts')
        /\ artifacts' \in [DOMAIN artifacts' -> File]
    BY <1>2, <2>2, <2>3, FileWritten
  <2>5. TypeOK'
    BY <1>4, <2>1, <2>4 DEF RedateWrite, TypeOK, budget
  <2>6. JobReady(p)'
    BY <1>4, <2>1
    DEF RedateWrite, JobReady, SourceSteps, DateSteps, OutputSteps, MintedSteps,
        FreshSteps, FiledSteps, RepairSteps, RedateSteps
  <2> QED
    BY <2>5, <2>6
<1>5. CASE RedateUnlink(p)
  <2>1. pc' \in [Proc -> Steps] /\ pc'[p] = "redate_signals" /\ pc[p] = "redate_unlink"
    BY <1>5, StepTyped DEF RedateUnlink, TypeOK, Steps
  <2>2. artifacts' = artifacts \/ \E f : artifacts' = WithoutFile(f)
    BY <1>5 DEF RedateUnlink
  <2>3. /\ DOMAIN artifacts' \subseteq Date \X Nat
        /\ IsFiniteSet(DOMAIN artifacts')
        /\ artifacts' \in [DOMAIN artifacts' -> File]
    <3>1. CASE artifacts' = artifacts
      BY <3>1 DEF TypeOK
    <3>2. CASE \E f : artifacts' = WithoutFile(f)
      BY <3>2, FileRemoved
    <3> QED
      BY <2>2, <3>1, <3>2
  <2>4. TypeOK'
    BY <1>5, <2>1, <2>3 DEF RedateUnlink, TypeOK, budget
  <2>5. JobReady(p)'
    BY <1>5, <2>1
    DEF RedateUnlink, JobReady, SourceSteps, DateSteps, OutputSteps, MintedSteps,
        FreshSteps, FiledSteps, RepairSteps, RedateSteps
  <2> QED
    BY <2>4, <2>5
<1>6. CASE RedateSignals(p)
  <2>1. pc' \in [Proc -> Steps] /\ pc'[p] = "redate_append" /\ pc[p] = "redate_signals"
    BY <1>6, StepTyped DEF RedateSignals, TypeOK, Steps
  <2>2. SignalsOf(job[p].prod, job[p].date) \in [prod : RecordId, date : Date]
    BY <1>2 DEF SignalsOf
  <2>3. signals' \in [Meeting -> [prod : RecordId, date : Date] \cup {None}]
    BY <1>6, <2>2 DEF RedateSignals, TypeOK
  <2>4. TypeOK'
    BY <1>6, <2>1, <2>3 DEF RedateSignals, TypeOK, budget
  <2>5. JobReady(p)'
    BY <1>6, <2>1
    DEF RedateSignals, JobReady, SourceSteps, DateSteps, OutputSteps, MintedSteps,
        FreshSteps, FiledSteps, RepairSteps, RedateSteps
  <2> QED
    BY <2>4, <2>5
<1>7. CASE RedateAppend(p)
  <2>1. PICK to \in {"redate_verify", "release"} : Step(p, "redate_append", to)
    BY <1>7 DEF RedateAppend
  <2>2. pc' \in [Proc -> Steps] /\ pc'[p] = to
    BY <2>1, StepTyped DEF TypeOK, Steps
  <2> DEFINE out == [path |-> job[p].path, prod |-> job[p].prod, date |-> job[p].date]
  <2>3. PICK i \in 1..job[p].snap :
          /\ IsTarget(i, job[p].src, job[p].snap)
          /\ AppendSnapshot(job[p].prod, ledger[i].mid, out, TRUE,
                            ledger[i].archived, ledger[i].reconcile)
    BY <1>7 DEF RedateAppend
  <2>4. ledger' \in Seq(Record)
    <3>1. out \in Output \cup {None}
      BY <1>2, OutputTyped
    <3>2. PICK mid \in Meeting \cup {None}, archived \in BOOLEAN,
               reconcile \in {"pending", "completed", "skipped"} :
            AppendSnapshot(job[p].prod, mid, out, TRUE, archived, reconcile)
      <4>1. ledger[i] \in Record
        BY <1>3, <2>3
      <4> HIDE DEF out
      <4> QED
        BY <2>3, <4>1 DEF Record
    <3>3. ledger \in Seq(Record)
      BY DEF TypeOK
    <3> HIDE DEF out
    <3> QED
      BY <1>2, <3>1, <3>2, <3>3, SnapshotTyped
  <2>5. TypeOK'
    BY <1>7, <2>2, <2>4 DEF RedateAppend, TypeOK, budget
  <2>6. JobReady(p)'
    BY <2>2 DEF JobReady, SourceSteps, DateSteps, OutputSteps, MintedSteps,
                FreshSteps, FiledSteps, RepairSteps, RedateSteps
  <2> QED
    BY <2>5, <2>6
<1> QED
  BY <1>4, <1>5, <1>6, <1>7

\* A kill or an I/O error, at any step.
LEMMA CutShortTyped ==
  ASSUME TypeOK, NEW p \in Proc, JobReady(p), CutShort(p)
  PROVE  /\ places' \in [Source -> SUBSET Places]
         /\ DOMAIN artifacts' \subseteq Date \X Nat
         /\ IsFiniteSet(DOMAIN artifacts')
         /\ artifacts' \in [DOMAIN artifacts' -> File]
<1>1. CASE UNCHANGED <<artifacts, places>>
  BY <1>1 DEF TypeOK
<1>2. CASE /\ pc[p] \in {"write_artifact", "redate_write"}
           /\ artifacts' = WithFile(job[p].path, PartialFile)
           /\ UNCHANGED places
  <2>1. job[p].path \in Date \X Nat
    BY <1>2 DEF JobReady, OutputSteps, MintedSteps, RedateSteps
  <2>2. PartialFile \in File
    BY DEF File
  <2> QED
    BY <1>2, <2>1, <2>2, FileWritten DEF TypeOK
<1>3. CASE /\ UNCHANGED artifacts
           /\ \E s : places' = [places EXCEPT ![s] = (@ \ {"processed"}) \cup {"truncated"}]
  BY <1>3 DEF TypeOK, Places
<1> QED
  BY <1>1, <1>2, <1>3 DEF CutShort

\* A kill or an I/O error ends the command with well-typed leftovers.
LEMMA FaultTyped ==
  ASSUME TypeOK, NEW p \in Proc, JobReady(p), Abort(p) \/ Crash(p)
  PROVE  TypeOK' /\ JobReady(p)'
<1>1. PICK to \in {"release", "idle"} : Step(p, pc[p], to)
  BY DEF Abort, Crash
<1>2. pc' \in [Proc -> Steps] /\ pc'[p] = to
  BY <1>1, StepTyped DEF TypeOK, Steps
<1>3. job' \in [Proc -> Job]
  BY NoJobTyped, LocalTyped DEF Abort, Crash, TypeOK
<1>4. CutShort(p) /\ faults' \in Nat
  BY DEF Abort, Crash, TypeOK
<1>5. TypeOK'
  BY <1>2, <1>3, <1>4, CutShortTyped DEF Abort, Crash, TypeOK
<1>6. JobReady(p)'
  BY <1>2 DEF JobReady, SourceSteps, DateSteps, OutputSteps, MintedSteps,
              FreshSteps, FiledSteps, RepairSteps, RedateSteps
<1> QED
  BY <1>5, <1>6

\* The operator keeps the types: a lock file removed, a copy dropped.
LEMMA OutsideTyped ==
  ASSUME TypeOK, RemoveStaleLock \/ \E s \in Source : Drop(s)
  PROVE  TypeOK'
<1>1. CASE RemoveStaleLock
  BY <1>1 DEF RemoveStaleLock, TypeOK, disk, budget
<1>2. CASE \E s \in Source : Drop(s)
  <2>1. PICK s \in Source : Drop(s)
    BY <1>2
  <2>2. places' \in [Source -> SUBSET Places] /\ drops' \in Nat
    BY <2>1 DEF Drop, TypeOK, Places
  <2> QED
    BY <2>1, <2>2 DEF Drop, TypeOK
<1> QED
  BY <1>1, <1>2

\* No process touches the step or the local variables of another.
LEMMA OthersKept ==
  ASSUME TypeOK, NEW p \in Proc, Start(p) \/ Advance(p) \/ Abort(p) \/ Crash(p)
  PROVE  \A q \in Proc \ {p} : pc'[q] = pc[q] /\ job'[q] = job[q]
<1>1. pc \in [Proc -> Steps] /\ job \in [Proc -> Job]
  BY DEF TypeOK
<1>2. \E from, to : Step(p, from, to)
  <2>1. CASE Start(p)
    BY <2>1 DEF Start, StartIngest, StartRepairDate, StartReconcile
  <2>2. CASE Acquire(p) \/ LockConflict(p) \/ Release(p)
    BY <2>2 DEF Acquire, LockConflict, Release
  <2>3. CASE Ingest(p)
    BY <2>3 DEF Ingest, PrepareDuplicate, PrepareFresh, PrepareUnreadable, PrepareGone,
                Quarantine, ProviderAccepted, ProviderRejected, RecordFailure, Mint,
                WriteSignals, WriteArtifact, AppendPrimary, VerifyLink, ArchiveCopy,
                ReconcileMove, AppendCompleted
  <2>4. CASE Reconcile(p)
    BY <2>4 DEF Reconcile, ReconcileScan, RepairDone, RepairCopy, RepairMove, RepairAppend
  <2>5. CASE RepairDate(p)
    BY <2>5 DEF RepairDate, RepairNothing, RepairTarget, RedateWrite, RedateUnlink,
                RedateSignals, RedateAppend, RedateUnreadable, RedateVerify
  <2>6. CASE Abort(p) \/ Crash(p)
    BY <2>6 DEF Abort, Crash
  <2> QED
    BY <2>1, <2>2, <2>3, <2>4, <2>5, <2>6 DEF Advance
<1>3. job' = job \/ \E j : Local(p, j)
  <2>1. CASE Start(p)
    BY <2>1 DEF Start, StartIngest, StartRepairDate, StartReconcile
  <2>2. CASE Acquire(p) \/ LockConflict(p) \/ Release(p)
    BY <2>2 DEF Acquire, LockConflict, Release
  <2>3. CASE Ingest(p)
    BY <2>3 DEF Ingest, PrepareDuplicate, PrepareFresh, PrepareUnreadable, PrepareGone,
                Quarantine, ProviderAccepted, ProviderRejected, RecordFailure, Mint,
                WriteSignals, WriteArtifact, AppendPrimary, VerifyLink, ArchiveCopy,
                ReconcileMove, AppendCompleted
  <2>4. CASE Reconcile(p)
    BY <2>4 DEF Reconcile, ReconcileScan, RepairDone, RepairCopy, RepairMove, RepairAppend
  <2>5. CASE RepairDate(p)
    BY <2>5 DEF RepairDate, RepairNothing, RepairTarget, RedateWrite, RedateUnlink,
                RedateSignals, RedateAppend, RedateUnreadable, RedateVerify
  <2>6. CASE Abort(p) \/ Crash(p)
    BY <2>6 DEF Abort, Crash
  <2> QED
    BY <2>1, <2>2, <2>3, <2>4, <2>5, <2>6 DEF Advance
<1>4. \A q \in Proc \ {p} : pc'[q] = pc[q]
  BY <1>1, <1>2 DEF Step
<1>5. \A q \in Proc \ {p} : job'[q] = job[q]
  BY <1>1, <1>3 DEF Local
<1> QED
  BY <1>4, <1>5

\* Every step of a process keeps the types and sets the local variables that
\* its next step reads.
LEMMA ProcessTyped ==
  ASSUME WorkingInvariant, NEW p \in Proc, Start(p) \/ Advance(p) \/ Abort(p) \/ Crash(p)
  PROVE  TypeOK' /\ JobReady(p)'
<1>1. TypeOK /\ LedgerSound /\ JobReady(p) /\ WorkSound(p)
  BY DEF WorkingInvariant
<1>2. CASE Start(p)
  BY <1>1, <1>2, StartTyped
<1>3. CASE Acquire(p) \/ LockConflict(p) \/ Release(p)
  BY <1>1, <1>3, LockTyped
<1>4. CASE Ingest(p)
  BY <1>1, <1>4, ControlTyped, PrepareTyped, FailureTyped, MintTyped, WriteTyped,
     AppendTyped, ArchiveTyped DEF Ingest
<1>5. CASE Reconcile(p)
  BY <1>1, <1>5, ControlTyped, ReconcileTyped, RepairAppendTyped DEF Reconcile
<1>6. CASE RepairDate(p)
  BY <1>1, <1>6, ControlTyped, RepairTargetTyped, RedateTyped DEF RepairDate
<1>7. CASE Abort(p) \/ Crash(p)
  BY <1>1, <1>7, FaultTyped
<1> QED
  BY <1>2, <1>3, <1>4, <1>5, <1>6, <1>7 DEF Advance

\* TypeOK and JobReady are preserved by every step.
LEMMA TypeNext ==
  ASSUME WorkingInvariant, [Next]_vars
  PROVE  TypeOK' /\ \A q \in Proc : JobReady(q)'
<1>1. TypeOK /\ \A q \in Proc : JobReady(q)
  BY DEF WorkingInvariant
<1>2. ASSUME NEW p \in Proc, Start(p) \/ Advance(p) \/ Abort(p) \/ Crash(p)
      PROVE  TypeOK' /\ \A q \in Proc : JobReady(q)'
  <2>1. TypeOK' /\ JobReady(p)'
    BY <1>2, ProcessTyped
  <2>2. ASSUME NEW q \in Proc \ {p}
        PROVE  JobReady(q)'
    <3>1. pc'[q] = pc[q] /\ job'[q] = job[q]
      BY <1>1, <1>2, OthersKept
    <3> QED
      BY <1>1, <3>1 DEF JobReady
  <2> QED
    BY <2>1, <2>2
<1>3. CASE RemoveStaleLock \/ \E s \in Source : Drop(s)
  <2>1. TypeOK'
    BY <1>1, <1>3, OutsideTyped
  <2>2. pc' = pc /\ job' = job
    BY <1>3 DEF RemoveStaleLock, Drop
  <2> QED
    BY <1>1, <2>1, <2>2 DEF JobReady
<1>4. CASE UNCHANGED vars
  BY <1>1, <1>4 DEF vars, TypeOK, JobReady
<1> QED
  BY <1>2, <1>3, <1>4 DEF Next

-----------------------------------------------------------------------------
(* The lock.                                                               *)

\* Two processes are never both in the locked section.
LEMMA OthersAtRest ==
  ASSUME OneWriter, NEW p \in Proc, NEW q \in Proc \ {p}, Locked(p)
  PROVE  ~Locked(q)
  BY DEF OneWriter

\* Nothing but Acquire, Release and the operator touches the lock file, and
\* everything else a command does it does inside the locked section.
LEMMA WorkLocked ==
  ASSUME NEW p \in Proc, Ingest(p) \/ Reconcile(p) \/ RepairDate(p) \/ Abort(p) \/ Crash(p)
  PROVE  Locked(p) /\ lock' = lock
<1>1. CASE Ingest(p)
  BY <1>1 DEF Ingest, PrepareDuplicate, PrepareFresh, PrepareUnreadable, PrepareGone,
              Quarantine, ProviderAccepted, ProviderRejected, RecordFailure, Mint,
              WriteSignals, WriteArtifact, AppendPrimary, VerifyLink, ArchiveCopy,
              ReconcileMove, AppendCompleted, Step, Locked
<1>2. CASE Reconcile(p)
  BY <1>2 DEF Reconcile, ReconcileScan, RepairDone, RepairCopy, RepairMove, RepairAppend,
              Step, Locked
<1>3. CASE RepairDate(p)
  BY <1>3 DEF RepairDate, RepairNothing, RepairTarget, RedateWrite, RedateUnlink,
              RedateSignals, RedateAppend, RedateUnreadable, RedateVerify, Step, Locked
<1>4. CASE Abort(p) \/ Crash(p)
  BY <1>4 DEF Abort, Crash, Locked
<1> QED
  BY <1>1, <1>2, <1>3, <1>4

\* OneWriter is preserved by every step.
LEMMA OneWriterNext ==
  ASSUME WorkingInvariant, [Next]_vars
  PROVE  OneWriter'
<1>1. OneWriter /\ TypeOK /\ pc \in [Proc -> Steps]
  BY DEF WorkingInvariant, TypeOK
<1>2. ASSUME NEW p \in Proc, Start(p) \/ Advance(p) \/ Abort(p) \/ Crash(p)
      PROVE  OneWriter'
  <2>0. \A q \in Proc \ {p} : pc'[q] = pc[q]
    BY <1>1, <1>2, OthersKept
  <2>1. CASE Start(p)
    <3>1. lock' = lock /\ pc'[p] = "acquire"
      BY <1>1, <2>1 DEF Start, StartIngest, StartRepairDate, StartReconcile, Step
    <3> QED
      BY <1>1, <2>0, <3>1 DEF OneWriter, Locked
  <2>2. CASE Acquire(p)
    <3>1. lock = None /\ lock' = p
      BY <2>2 DEF Acquire
    <3>2. \A q \in Proc : ~Locked(q)
      BY <1>1, <3>1, ConstantsAssumption DEF OneWriter
    <3> QED
      BY <2>0, <3>1, <3>2 DEF OneWriter, Locked
  <2>3. CASE LockConflict(p)
    <3>1. lock' = lock /\ pc'[p] = "idle"
      BY <1>1, <2>3 DEF LockConflict, Step
    <3> QED
      BY <1>1, <2>0, <3>1 DEF OneWriter, Locked
  <2>4. CASE Release(p)
    <3>1. pc[p] = "release" /\ pc'[p] = "idle"
      BY <1>1, <2>4 DEF Release, Step
    <3>2. \A q \in Proc \ {p} : ~Locked(q)
      BY <1>1, <3>1 DEF OneWriter, Locked
    <3> QED
      BY <2>0, <3>1, <3>2 DEF OneWriter, Locked
  <2>5. CASE Ingest(p) \/ Reconcile(p) \/ RepairDate(p) \/ Abort(p) \/ Crash(p)
    BY <1>1, <2>0, <2>5, WorkLocked DEF OneWriter, Locked
  <2> QED
    BY <1>2, <2>1, <2>2, <2>3, <2>4, <2>5 DEF Advance
<1>3. CASE RemoveStaleLock
  BY <1>1, <1>3 DEF RemoveStaleLock, OneWriter, Locked
<1>4. CASE \E s \in Source : Drop(s)
  BY <1>1, <1>4 DEF Drop, OneWriter, Locked
<1>5. CASE UNCHANGED vars
  BY <1>1, <1>5 DEF vars, OneWriter, Locked
<1> QED
  BY <1>2, <1>3, <1>4, <1>5 DEF Next

-----------------------------------------------------------------------------
(* The ledger.                                                             *)

\* Only one line of the first n can be the last one about a source.
LEMMA LatestUnique ==
  ASSUME NEW n \in Nat, NEW s, NEW i \in 1..n, NEW j \in 1..n,
         IsLatest(i, s, n), IsLatest(j, s, n)
  PROVE  i = j
<1>1. ~(i < j) /\ ~(j < i)
  BY DEF IsLatest
<1> QED
  BY <1>1

\* A source whose current record has no outputs never had any.
LEMMA NeverPrimary ==
  ASSUME TypeOK, LedgerSound, PrimaryStable, NEW s, ~Primary(s),
         NEW i \in 1..Len(ledger), ledger[i].src = s
  PROVE  ~HasPrimaryArtifacts(ledger[i])
<1>1. Len(ledger) \in Nat
  BY DEF TypeOK
<1>2. PICK j \in 1..Len(ledger) : IsLatest(j, s, Len(ledger))
  BY DEF LedgerSound
<1>3. ~HasPrimaryArtifacts(ledger[j])
  BY <1>2 DEF Primary, PrimaryAt
<1>4. i \in Nat /\ j \in Nat /\ ledger[j].src = s
  BY <1>1, <1>2 DEF IsLatest
<1>5. ~(j < i)
  BY <1>1, <1>2, <1>4 DEF IsLatest
<1>6. CASE i < j
  BY <1>3, <1>4, <1>6 DEF PrimaryStable
<1> QED
  BY <1>3, <1>4, <1>5, <1>6

\* What a line that has outputs says of its meeting, every later line of the
\* same source repeats.
LEMMA MeetingKept ==
  ASSUME TypeOK, PrimaryStable, NEW i \in 1..Len(ledger), NEW j \in 1..Len(ledger),
         i <= j, ledger[i].src = ledger[j].src, HasPrimaryArtifacts(ledger[i])
  PROVE  HasPrimaryArtifacts(ledger[j]) /\ ledger[j].mid = ledger[i].mid
<1>1. i \in Nat /\ j \in Nat
  BY DEF TypeOK
<1>2. i < j \/ i = j
  BY <1>1
<1> QED
  BY <1>2 DEF PrimaryStable

\* The line r agrees with all that the ledger says of its source.
LineFits(r) ==
  /\ r.out # None =>
       r.event \in PrimaryEvents /\ r.mid \in Meeting /\ r.mid[1] = r.src
  /\ \A i \in 1..Len(ledger) :
       ledger[i].src = r.src /\ HasPrimaryArtifacts(ledger[i]) =>
         /\ HasPrimaryArtifacts(r)
         /\ r.mid = ledger[i].mid
         /\ r.event # "primary_artifacts_ready"

\* Appending a line that fits keeps the ledger sound and its sources filed.
LEMMA FittingAppend ==
  ASSUME TypeOK, LedgerSound, PrimaryStable, NEW r \in Record, LineFits(r),
         ledger' = Append(ledger, r)
  PROVE  /\ LedgerSound' /\ PrimaryStable'
         /\ IsLatest(Len(ledger), r.src, Len(ledger))'
<1>a. Len(ledger) \in Nat
  BY DEF TypeOK
<1>0. PICK n \in Nat : n = Len(ledger)
  BY <1>a
<1>1. /\ n = Len(ledger) /\ Len(ledger') = n + 1 /\ ledger'[n + 1] = r
      /\ \A i \in 1..n : ledger'[i] = ledger[i]
  BY <1>0, AppendFacts DEF TypeOK
<1>2. \A i \in 1..(n + 1) : i \in 1..n \/ i = n + 1
  BY <1>0
<1>3. (\A i \in 1..Len(ledger) :
         ledger[i].out # None =>
           /\ ledger[i].event \in PrimaryEvents
           /\ ledger[i].mid \in Meeting
           /\ ledger[i].mid[1] = ledger[i].src)'
  BY <1>1, <1>2 DEF LedgerSound, LineFits
<1>4. \A k \in (n + 2)..(n + 1) : ledger'[k].src # r.src
  BY <1>0
<1>5. ASSUME NEW i \in 1..(n + 1)
      PROVE  \E j \in 1..(n + 1) :
               /\ ledger'[j].src = ledger'[i].src
               /\ \A k \in (j + 1)..(n + 1) : ledger'[k].src # ledger'[i].src
  <2>1. CASE ledger'[i].src = r.src
    <3>1. n + 1 \in 1..(n + 1) /\ (n + 1) + 1 = n + 2
      BY <1>0
    <3> QED
      BY <1>1, <1>4, <2>1, <3>1
  <2>2. CASE ledger'[i].src # r.src
    <3>1. i \in 1..n /\ ledger'[i] = ledger[i]
      BY <1>1, <1>2, <2>2
    <3>2. PICK j \in 1..n : IsLatest(j, ledger[i].src, n)
      BY <1>1, <3>1 DEF LedgerSound
    <3>3. \A k \in (j + 1)..(n + 1) : k = n + 1 \/ k \in (j + 1)..n
      BY <1>0
    <3>4. \A k \in (j + 1)..n : k \in 1..n
      BY <1>0
    <3>5. \A k \in (j + 1)..(n + 1) : ledger'[k].src # ledger'[i].src
      BY <1>1, <2>2, <3>1, <3>2, <3>3, <3>4 DEF IsLatest
    <3>6. ledger'[j].src = ledger'[i].src /\ j \in 1..(n + 1)
      BY <1>0, <1>1, <3>1, <3>2 DEF IsLatest
    <3> QED
      BY <3>5, <3>6
  <2> QED
    BY <2>1, <2>2
<1>6. LedgerSound'
  <2>1. \A i \in 1..Len(ledger') : \E j \in 1..Len(ledger') :
          /\ j \in 1..Len(ledger')
          /\ ledger'[j].src = ledger'[i].src
          /\ \A k \in (j + 1)..Len(ledger') : ledger'[k].src # ledger'[i].src
    <3>1. Len(ledger') = n + 1
      BY <1>1
    <3>2. ASSUME NEW i \in 1..(n + 1)
          PROVE  \E j \in 1..(n + 1) :
                   /\ j \in 1..(n + 1)
                   /\ ledger'[j].src = ledger'[i].src
                   /\ \A k \in (j + 1)..(n + 1) : ledger'[k].src # ledger'[i].src
      <4>1. PICK j \in 1..(n + 1) :
              /\ ledger'[j].src = ledger'[i].src
              /\ \A k \in (j + 1)..(n + 1) : ledger'[k].src # ledger'[i].src
        BY <1>5
      <4> QED
        BY ONLY <4>1
    <3> QED
      BY ONLY <3>1, <3>2
  <2> QED
    BY ONLY <1>3, <2>1 DEF LedgerSound, IsLatest
<1>8. IsLatest(Len(ledger), r.src, Len(ledger))'
  <2>1. n + 1 \in 1..(n + 1) /\ (n + 1) + 1 = n + 2
    BY <1>0
  <2> QED
    BY <1>1, <1>4, <2>1 DEF IsLatest
<1>7. PrimaryStable'
  <2> SUFFICES ASSUME NEW i \in 1..(n + 1), NEW j \in 1..(n + 1), i < j,
                      ledger'[i].src = ledger'[j].src, HasPrimaryArtifacts(ledger'[i])
               PROVE  /\ HasPrimaryArtifacts(ledger'[j])
                      /\ ledger'[j].mid = ledger'[i].mid
                      /\ ledger'[j].event # "primary_artifacts_ready"
    BY <1>1 DEF PrimaryStable, HasPrimaryArtifacts
  <2>1. i \in 1..n /\ ledger'[i] = ledger[i]
    BY <1>1, <1>2
  <2>2. CASE j = n + 1
    BY <1>1, <2>1, <2>2 DEF LineFits
  <2>3. CASE j \in 1..n
    <3>1. ledger'[j] = ledger[j]
      BY <1>1, <2>3
    <3> QED
      BY <1>1, <2>1, <2>3, <3>1 DEF PrimaryStable
  <2> QED
    BY <1>2, <2>2, <2>3
<1> QED
  BY <1>6, <1>7, <1>8

\* An append writes one line about the source it was given, or nothing.
LEMMA MintedLine ==
  ASSUME TypeOK, NEW s \in Source, NEW event \in Events, NEW run \in Nat,
         NEW mid \in Meeting \cup {None}, NEW out \in Output \cup {None},
         NEW archived \in BOOLEAN, NEW reconcile \in {"pending", "completed", "skipped"},
         AppendMinted(s, event, run, mid, out, archived, reconcile)
  PROVE  \/ ledger' = ledger
         \/ \E r \in Record : /\ ledger' = Append(ledger, r)
                              /\ r.src = s /\ r.event = event
                              /\ r.mid = mid /\ r.out = out
<1>1. PICK k \in 1..(Len(ledger) + 1) :
        AppendSnapshot([src |-> s, seq |-> k, event |-> event, run |-> run],
                       mid, out, FALSE, archived, reconcile)
  BY DEF AppendMinted
<1>2. k \in Nat /\ FALSE \in BOOLEAN
  BY DEF TypeOK
<1> DEFINE r == [src |-> s, seq |-> k, event |-> event, run |-> run,
                 mid |-> mid, out |-> out, produced |-> FALSE,
                 archived |-> archived, reconcile |-> reconcile]
<1>3. r \in Record
  BY <1>2 DEF Record
<1>4. ledger' = ledger \/ ledger' = Append(ledger, r)
  BY <1>1 DEF AppendSnapshot
<1> QED
  BY <1>3, <1>4

-----------------------------------------------------------------------------
(* The five appends.                                                       *)

\* The ledger becomes longer by r, a line about the source p works on.
Appends(p, r) ==
  /\ r \in Record /\ r.src = job[p].src /\ LineFits(r)
  /\ ledger' = Append(ledger, r)

\* A failure snapshot is about a source that has no outputs, and has none.
LEMMA FailureLine ==
  ASSUME WorkingInvariant, NEW p \in Proc, RecordFailure(p)
  PROVE  ledger' = ledger \/ \E r : Appends(p, r) /\ r.out = None
<1>1. TypeOK /\ LedgerSound /\ PrimaryStable /\ JobReady(p) /\ WorkSound(p)
  BY DEF WorkingInvariant
<1>2. pc[p] = "fail"
  BY DEF RecordFailure, Step
<1>3. ~Primary(job[p].src)
  BY <1>1, <1>2 DEF WorkSound, FreshSteps
<1> DEFINE mid == IF job[p].date = None THEN None ELSE <<job[p].src, job[p].date>>
<1>4. /\ job[p].src \in Source /\ job[p].event \in Events /\ job[p].run \in Nat
      /\ job[p].date \in Date \cup {None}
  BY <1>1, <1>2 DEF TypeOK, JobReady, SourceSteps, FreshSteps, Job, Events
<1>5. mid \in Meeting \cup {None}
  BY <1>4 DEF Meeting
<1>6. PICK out \in Output \cup {None}, archived \in BOOLEAN,
           reconcile \in {"pending", "completed", "skipped"} :
        /\ out = None
        /\ AppendMinted(job[p].src, job[p].event, job[p].run, mid, out, archived, reconcile)
  BY DEF RecordFailure
<1>7. \/ ledger' = ledger
      \/ \E r \in Record : /\ ledger' = Append(ledger, r)
                           /\ r.src = job[p].src /\ r.event = job[p].event
                           /\ r.mid = mid /\ r.out = out
  <2>1. PICK s \in Source, event \in Events, run \in Nat, m \in Meeting \cup {None} :
          /\ s = job[p].src /\ event = job[p].event /\ run = job[p].run /\ m = mid
          /\ AppendMinted(s, event, run, m, out, archived, reconcile)
    BY <1>4, <1>5, <1>6
  <2> HIDE DEF mid
  <2>2. TypeOK /\ AppendMinted(s, event, run, m, out, archived, reconcile)
    BY <1>1, <2>1
  <2>3. \/ ledger' = ledger
        \/ \E r \in Record : /\ ledger' = Append(ledger, r)
                             /\ r.src = s /\ r.event = event
                             /\ r.mid = m /\ r.out = out
    BY <2>2, MintedLine
  <2> QED
    BY <2>1, <2>3
<1>8. CASE ledger' # ledger
  <2>1. PICK r \in Record : ledger' = Append(ledger, r) /\ r.src = job[p].src /\ r.out = None
    BY <1>6, <1>7, <1>8
  <2>2. LineFits(r)
    BY <1>1, <1>3, <2>1, NeverPrimary DEF LineFits
  <2> QED
    BY <2>1, <2>2 DEF Appends
<1> QED
  BY <1>8

\* The first outputs of a source are appended when it has none.
LEMMA PrimaryLine ==
  ASSUME WorkingInvariant, NEW p \in Proc, AppendPrimary(p)
  PROVE  /\ ~Primary(job[p].src)
         /\ \/ ledger' = ledger /\ ~IdentityFree(job[p].prod)
            \/ \E r : /\ Appends(p, r) /\ HasPrimaryArtifacts(r)
                      /\ r.mid = <<job[p].src, job[p].date>>
<1>1. TypeOK /\ LedgerSound /\ PrimaryStable /\ JobReady(p) /\ WorkSound(p)
  BY DEF WorkingInvariant
<1>2. pc[p] = "append_primary"
  BY DEF AppendPrimary, Step
<1>3. ~Primary(job[p].src)
  BY <1>1, <1>2 DEF WorkSound, FreshSteps
<1> DEFINE mid == <<job[p].src, job[p].date>>
           out == [path |-> job[p].path, prod |-> job[p].prod, date |-> job[p].date]
           r == [src |-> job[p].prod.src, seq |-> job[p].prod.seq,
                 event |-> job[p].prod.event, run |-> job[p].prod.run,
                 mid |-> mid, out |-> out, produced |-> TRUE,
                 archived |-> FALSE, reconcile |-> "pending"]
<1>4. /\ job[p].src \in Source /\ job[p].date \in Date /\ job[p].prod \in RecordId
      /\ job[p].prod.src = job[p].src /\ job[p].path \in Date \X Nat
      /\ job[p].prod.event = "primary_artifacts_ready"
  BY <1>1, <1>2
  DEF JobReady, SourceSteps, DateSteps, OutputSteps, MintedSteps, FreshSteps, RedateSteps
<1>5. mid \in Meeting /\ mid[1] = job[p].src /\ out \in Output
  BY <1>4 DEF Meeting, Output
<1>6. (ledger' = ledger /\ ~IdentityFree(job[p].prod)) \/ ledger' = Append(ledger, r)
  BY DEF AppendPrimary, AppendSnapshot
<1>7. out # None
  BY <1>5, NoneAssumption
<1>8. r \in Record /\ r.src = job[p].src /\ r.mid = mid /\ r.out = out
      /\ r.event = "primary_artifacts_ready"
  <2> HIDE DEF mid, out
  <2> QED
    BY <1>4, <1>5 DEF Record, RecordId
<1>9. HasPrimaryArtifacts(r)
  <2> HIDE DEF r
  <2> QED
    BY <1>7, <1>8 DEF HasPrimaryArtifacts, PrimaryEvents
<1>10. LineFits(r)
  <2> HIDE DEF r, mid
  <2> QED
    BY <1>1, <1>3, <1>5, <1>8, NeverPrimary DEF LineFits, PrimaryEvents
<1> QED
  <2> HIDE DEF r
  <2> QED
    BY <1>3, <1>6, <1>8, <1>9, <1>10 DEF Appends

\* The other three appends carry outputs that the ledger already has.
LEMMA CarriedLine ==
  ASSUME WorkingInvariant, NEW p \in Proc,
         AppendCompleted(p) \/ RepairAppend(p) \/ RedateAppend(p)
  PROVE  /\ Primary(job[p].src)
         /\ ledger' = ledger \/ \E r : Appends(p, r) /\ HasPrimaryArtifacts(r)
<1>1. /\ TypeOK /\ LedgerSound /\ PrimaryStable /\ JobReady(p) /\ WorkSound(p)
      /\ Len(ledger) \in Nat
  BY DEF WorkingInvariant, TypeOK
\* A line that repeats the meeting of the last line i with outputs fits.
<1>2. ASSUME NEW i \in 1..Len(ledger), ledger[i].src = job[p].src,
             HasPrimaryArtifacts(ledger[i]),
             \A k \in 1..Len(ledger) :
               ledger[k].src = job[p].src /\ HasPrimaryArtifacts(ledger[k]) => k <= i,
             NEW r \in Record, r.src = job[p].src, r.mid = ledger[i].mid, r.out # None,
             r.event \in PrimaryEvents \ {"primary_artifacts_ready"}
      PROVE  LineFits(r) /\ HasPrimaryArtifacts(r)
  <2>1. ledger[i].mid \in Meeting /\ ledger[i].mid[1] = job[p].src
    BY <1>1, <1>2 DEF LedgerSound, HasPrimaryArtifacts
  <2>2. HasPrimaryArtifacts(r)
    BY <1>2 DEF HasPrimaryArtifacts
  <2>3. ASSUME NEW k \in 1..Len(ledger), ledger[k].src = job[p].src,
               HasPrimaryArtifacts(ledger[k])
        PROVE  ledger[k].mid = r.mid
    BY <1>1, <1>2, <2>3, MeetingKept
  <2> QED
    BY <1>2, <2>1, <2>2, <2>3 DEF LineFits
<1>3. CASE AppendCompleted(p)
  <2>1. pc[p] = "append_completed"
    BY <1>3 DEF AppendCompleted, Step
  <2>2. PICK i \in 1..Len(ledger) :
          /\ IsLatest(i, job[p].src, Len(ledger))
          /\ HasPrimaryArtifacts(ledger[i])
          /\ ledger[i].mid = <<job[p].src, job[p].date>>
    BY <1>1, <2>1 DEF WorkSound, FiledSteps
  <2>3. Primary(job[p].src) /\ ledger[i].src = job[p].src
    BY <2>2 DEF Primary, PrimaryAt, IsLatest
  <2>4. \A k \in 1..Len(ledger) : ledger[k].src = job[p].src => k <= i
    BY <1>1, <2>2 DEF IsLatest
  <2> DEFINE mid == <<job[p].src, job[p].date>>
             out == [path |-> job[p].path, prod |-> job[p].prod, date |-> job[p].date]
  <2>5. /\ job[p].src \in Source /\ job[p].run \in Nat
        /\ mid \in Meeting /\ out \in Output
    <3>1. /\ job[p].src \in Source /\ job[p].date \in Date /\ job[p].prod \in RecordId
          /\ job[p].path \in Date \X Nat /\ job[p].run \in Nat
      BY <1>1, <2>1 DEF TypeOK, Job, JobReady, SourceSteps, DateSteps, OutputSteps, FiledSteps
    <3> QED
      BY <3>1 DEF Meeting, Output
  <2>6. PICK archived \in BOOLEAN, reconcile \in {"completed", "skipped"} :
          AppendMinted(job[p].src, "ingest_completed", job[p].run, mid, out, archived, reconcile)
    BY <1>3 DEF AppendCompleted
  <2>7. \/ ledger' = ledger
        \/ \E r \in Record : /\ ledger' = Append(ledger, r)
                             /\ r.src = job[p].src /\ r.event = "ingest_completed"
                             /\ r.mid = mid /\ r.out = out
    <3>1. "ingest_completed" \in Events
      BY DEF Events
    <3> HIDE DEF mid, out
    <3> QED
      BY <1>1, <2>5, <2>6, <3>1, MintedLine
  <2>8. out # None
    BY <2>5, NoneAssumption
  <2>9. "ingest_completed" \in PrimaryEvents \ {"primary_artifacts_ready"}
    BY DEF PrimaryEvents
  <2> HIDE DEF out
  <2> QED
    BY <1>2, <2>2, <2>3, <2>4, <2>7, <2>8, <2>9 DEF Appends
<1>4. CASE RepairAppend(p)
  <2>1. pc[p] = "repair_append"
    BY <1>4 DEF RepairAppend, Step
  <2>2. /\ job[p].src \in Source /\ job[p].snap \in 0..Len(ledger)
        /\ PrimaryAt(job[p].src, job[p].snap)
        /\ \A k \in (job[p].snap + 1)..Len(ledger) : ledger[k].src # job[p].src
    BY <1>1, <2>1 DEF JobReady, SourceSteps, WorkSound, RepairSteps, StillPrimary
  <2>3. PICK i \in 1..job[p].snap, archived \in BOOLEAN, reconcile \in {"completed", "skipped"} :
          /\ IsLatest(i, job[p].src, job[p].snap)
          /\ AppendMinted(job[p].src, "reconcile_repaired", ledger[i].run, ledger[i].mid,
                          ledger[i].out, archived, reconcile)
    BY <1>4 DEF RepairAppend
  <2>4. i \in 1..Len(ledger) /\ ledger[i].src = job[p].src
    BY <1>1, <2>2, <2>3 DEF IsLatest
  <2>5. HasPrimaryArtifacts(ledger[i])
    <3>1. PICK k \in 1..job[p].snap :
            IsLatest(k, job[p].src, job[p].snap) /\ HasPrimaryArtifacts(ledger[k])
      BY <2>2 DEF PrimaryAt
    <3>2. job[p].snap \in Nat
      BY <2>2
    <3> QED
      BY <2>3, <3>1, <3>2, LatestUnique
  <2>6. \A k \in 1..Len(ledger) : ledger[k].src = job[p].src => k <= i
    <3>1. \A k \in 1..Len(ledger) : k \in 1..job[p].snap \/ k \in (job[p].snap + 1)..Len(ledger)
      BY <1>1, <2>2
    <3>2. \A k \in 1..job[p].snap : k <= i \/ k \in (i + 1)..job[p].snap
      BY <1>1, <2>2
    <3> QED
      BY <2>2, <2>3, <3>1, <3>2 DEF IsLatest
  <2>7. IsLatest(i, job[p].src, Len(ledger)) /\ Primary(job[p].src)
    <3>1. \A k \in (i + 1)..Len(ledger) : k \in 1..Len(ledger) /\ ~(k <= i)
      BY <1>1, <2>4
    <3>2. IsLatest(i, job[p].src, Len(ledger))
      BY <2>4, <2>6, <3>1 DEF IsLatest
    <3> QED
      BY <2>4, <2>5, <3>2 DEF Primary, PrimaryAt
  <2>8. /\ ledger[i].run \in Nat /\ ledger[i].out \in Output /\ ledger[i].out # None
        /\ ledger[i].mid \in Meeting
    BY <1>1, <2>4, <2>5, LineTyped DEF Record, HasPrimaryArtifacts
  <2>9. \/ ledger' = ledger
        \/ \E r \in Record : /\ ledger' = Append(ledger, r)
                             /\ r.src = job[p].src /\ r.event = "reconcile_repaired"
                             /\ r.mid = ledger[i].mid /\ r.out = ledger[i].out
    <3>1. "reconcile_repaired" \in Events
      BY DEF Events
    <3> QED
      BY <1>1, <2>2, <2>3, <2>8, <3>1, MintedLine
  <2>10. "reconcile_repaired" \in PrimaryEvents \ {"primary_artifacts_ready"}
    BY DEF PrimaryEvents
  <2> QED
    BY <1>2, <2>4, <2>5, <2>6, <2>7, <2>8, <2>9, <2>10 DEF Appends
<1>5. CASE RedateAppend(p)
  <2>1. pc[p] = "redate_append"
    BY <1>5 DEF RedateAppend, Step
  <2>2. /\ job[p].src \in Source /\ job[p].date \in Date /\ job[p].prod \in RecordId
        /\ job[p].path \in Date \X Nat /\ job[p].snap = Len(ledger)
        /\ job[p].prod.src = job[p].src /\ job[p].prod.event = "date_repaired"
    BY <1>1, <2>1
    DEF JobReady, SourceSteps, DateSteps, OutputSteps, MintedSteps, RedateSteps, WorkSound
  <2> DEFINE out == [path |-> job[p].path, prod |-> job[p].prod, date |-> job[p].date]
  <2>3. PICK i \in 1..Len(ledger) :
          /\ IsTarget(i, job[p].src, Len(ledger))
          /\ AppendSnapshot(job[p].prod, ledger[i].mid, out, TRUE,
                            ledger[i].archived, ledger[i].reconcile)
    BY <1>5, <2>2 DEF RedateAppend
  <2>4. /\ ledger[i].src = job[p].src /\ HasPrimaryArtifacts(ledger[i])
        /\ \A k \in (i + 1)..Len(ledger) :
             ~(ledger[k].src = job[p].src /\ HasPrimaryArtifacts(ledger[k]))
    BY <2>3 DEF IsTarget
  <2>5. \A k \in 1..Len(ledger) :
          ledger[k].src = job[p].src /\ HasPrimaryArtifacts(ledger[k]) => k <= i
    <3>1. \A k \in 1..Len(ledger) : k <= i \/ k \in (i + 1)..Len(ledger)
      BY <1>1
    <3> QED
      BY <2>4, <3>1
  <2>6. Primary(job[p].src)
    BY <1>1, <2>4, NeverPrimary
  <2> DEFINE r == [src |-> job[p].prod.src, seq |-> job[p].prod.seq,
                   event |-> job[p].prod.event, run |-> job[p].prod.run,
                   mid |-> ledger[i].mid, out |-> out, produced |-> TRUE,
                   archived |-> ledger[i].archived, reconcile |-> ledger[i].reconcile]
  <2>7. ledger' = ledger \/ ledger' = Append(ledger, r)
    BY <2>3 DEF AppendSnapshot
  <2>8. out \in Output /\ out # None
    BY <2>2, OutputTyped, NoneAssumption
  <2>9. ledger[i] \in Record
    BY <1>1, LineTyped
  <2>10. r \in Record /\ r.src = job[p].src /\ r.mid = ledger[i].mid /\ r.out = out
         /\ r.event = "date_repaired"
    <3> HIDE DEF out
    <3> QED
      BY <2>2, <2>8, <2>9 DEF Record, RecordId
  <2>11. "date_repaired" \in PrimaryEvents \ {"primary_artifacts_ready"}
    BY DEF PrimaryEvents
  <2> HIDE DEF r, out
  <2> QED
    BY <1>2, <2>4, <2>5, <2>6, <2>7, <2>8, <2>10, <2>11 DEF Appends
<1> QED
  BY <1>3, <1>4, <1>5

AppendStep(p) ==
  RecordFailure(p) \/ AppendPrimary(p) \/ AppendCompleted(p) \/ RepairAppend(p) \/ RedateAppend(p)

\* Nothing but the five appends changes the ledger.
LEMMA LedgerFrame ==
  ASSUME NEW p \in Proc, Start(p) \/ Advance(p) \/ Abort(p) \/ Crash(p), ~AppendStep(p)
  PROVE  ledger' = ledger
<1>1. CASE Start(p)
  BY <1>1 DEF Start, StartIngest, StartRepairDate, StartReconcile, disk
<1>2. CASE Acquire(p) \/ LockConflict(p) \/ Release(p)
  BY <1>2 DEF Acquire, LockConflict, Release, disk
<1>3. CASE Ingest(p)
  BY <1>3 DEF AppendStep, Ingest, PrepareDuplicate, PrepareFresh, PrepareUnreadable,
              PrepareGone, Quarantine, ProviderAccepted, ProviderRejected, Mint,
              WriteSignals, WriteArtifact, VerifyLink, ArchiveCopy, ReconcileMove, disk
<1>4. CASE Reconcile(p)
  BY <1>4 DEF AppendStep, Reconcile, ReconcileScan, RepairDone, RepairCopy, RepairMove, disk
<1>5. CASE RepairDate(p)
  BY <1>5 DEF AppendStep, RepairDate, RepairNothing, RepairTarget, RedateWrite,
              RedateUnlink, RedateSignals, RedateUnreadable, RedateVerify, disk
<1>6. CASE Abort(p) \/ Crash(p)
  BY <1>6 DEF Abort, Crash
<1> QED
  BY <1>1, <1>2, <1>3, <1>4, <1>5, <1>6 DEF Advance

\* Whatever an append writes fits the ledger it is written to.
LEMMA AppendFits ==
  ASSUME WorkingInvariant, NEW p \in Proc, AppendStep(p)
  PROVE  ledger' = ledger \/ \E r : Appends(p, r)
  BY FailureLine, PrimaryLine, CarriedLine DEF AppendStep

\* LedgerSound and PrimaryStable are preserved by every step.
LEMMA LedgerNext ==
  ASSUME WorkingInvariant, [Next]_vars
  PROVE  LedgerSound' /\ PrimaryStable'
<1>1. TypeOK /\ LedgerSound /\ PrimaryStable
  BY DEF WorkingInvariant
<1>2. CASE ledger' = ledger
  BY <1>1, <1>2 DEF LedgerSound, PrimaryStable, IsLatest
<1>3. ASSUME NEW p \in Proc, Start(p) \/ Advance(p) \/ Abort(p) \/ Crash(p)
      PROVE  LedgerSound' /\ PrimaryStable'
  <2>1. CASE ~AppendStep(p)
    BY <1>2, <1>3, <2>1, LedgerFrame
  <2>2. CASE AppendStep(p)
    <3>1. ASSUME NEW r, Appends(p, r)
          PROVE  LedgerSound' /\ PrimaryStable'
      BY <1>1, <3>1, FittingAppend DEF Appends
    <3> QED
      BY <1>2, <2>2, <3>1, AppendFits
  <2> QED
    BY <2>1, <2>2
<1>4. CASE RemoveStaleLock \/ (\E s \in Source : Drop(s)) \/ UNCHANGED vars
  BY <1>2, <1>4 DEF RemoveStaleLock, Drop, vars, disk
<1> QED
  BY <1>3, <1>4 DEF Next

-----------------------------------------------------------------------------
(* What the holder of the lock knows.                                      *)

\* A step of a process outside the locked section leaves the disk alone.
LEMMA UnlockedFrame ==
  ASSUME NEW p \in Proc, Start(p) \/ Acquire(p) \/ LockConflict(p) \/ Release(p)
  PROVE  /\ ledger' = ledger /\ places' = places
         /\ artifacts' = artifacts /\ signals' = signals
  BY DEF Start, StartIngest, StartRepairDate, StartReconcile, Acquire, LockConflict,
         Release, disk

\* While q holds the lock, a step of p # q leaves the disk alone.
LEMMA OthersFrame ==
  ASSUME WorkingInvariant, NEW p \in Proc, NEW q \in Proc \ {p}, Locked(q),
         Start(p) \/ Advance(p) \/ Abort(p) \/ Crash(p)
  PROVE  /\ ledger' = ledger /\ places' = places
         /\ artifacts' = artifacts /\ signals' = signals
         /\ pc'[q] = pc[q] /\ job'[q] = job[q]
<1>1. TypeOK /\ OneWriter
  BY DEF WorkingInvariant
<1>2. ~Locked(p)
  BY <1>1, OthersAtRest
<1>3. Start(p) \/ Acquire(p) \/ LockConflict(p) \/ Release(p)
  BY <1>2, WorkLocked DEF Advance
<1> QED
  BY <1>1, <1>3, UnlockedFrame, OthersKept

\* The steps at which WorkSound or MintedIdentityHolds says something of a
\* process are steps of the locked section.
LEMMA WorkStepsLocked ==
  ASSUME NEW p \in Proc,
         pc[p] \in FreshSteps \cup FiledSteps \cup RepairSteps \cup RedateSteps \cup
                   {"repair_copy"}
  PROVE  Locked(p)
  BY DEF FreshSteps, FiledSteps, RepairSteps, RedateSteps, Locked

\* With the ledger unchanged and no copy of its source taken away, what a
\* process knows stays true.
LEMMA WorkKept ==
  ASSUME NEW p \in Proc, WorkSound(p), ledger' = ledger,
         pc'[p] = pc[p], job'[p] = job[p],
         pc[p] \in {"move", "repair_move", "quarantine"} =>
           places[job[p].src] \subseteq places'[job[p].src]
  PROVE  WorkSound(p)'
  BY DEF WorkSound, HasProcessedCopy, Primary, PrimaryAt, IsLatest, StillPrimary

\* Few steps lead to one at which an identity and a name have been chosen.
LEMMA MintedBy ==
  ASSUME TypeOK, NEW q \in Proc, JobReady(q), pc'[q] \in MintedSteps,
         Start(q) \/ Advance(q) \/ Abort(q) \/ Crash(q)
  PROVE  \/ Mint(q) \/ RepairTarget(q)
         \/ WriteSignals(q) \/ WriteArtifact(q)
         \/ RedateWrite(q) \/ RedateUnlink(q) \/ RedateSignals(q)
<1>1. pc \in [Proc -> Steps]
  BY DEF TypeOK
<1>2. CASE Start(q)
  BY <1>1, <1>2 DEF Start, StartIngest, StartRepairDate, StartReconcile,
                    Step, MintedSteps, RedateSteps
<1>3. CASE Acquire(q) \/ LockConflict(q) \/ Release(q)
  <2>1. CASE Acquire(q)
    <3>1. job[q].op \in {"ingest", "reconcile", "repair-date"}
      <4>1. pc[q] = "acquire"
        BY <2>1 DEF Acquire, Step
      <4> QED
        BY <4>1 DEF JobReady, TypeOK, Job
    <3>2. PICK to \in {"prepare", "scan", "target"} : Step(q, "acquire", to)
      BY <2>1, <3>1 DEF Acquire
    <3> QED
      BY <1>1, <3>2 DEF Step, MintedSteps, RedateSteps
  <2> QED
    BY <1>1, <1>3, <2>1 DEF LockConflict, Release, Step, MintedSteps, RedateSteps
<1>4. CASE Ingest(q)
  BY <1>1, <1>4
  DEF Ingest, PrepareDuplicate, PrepareFresh, PrepareUnreadable, PrepareGone,
      Quarantine, ProviderAccepted, ProviderRejected, RecordFailure,
      AppendPrimary, VerifyLink, ArchiveCopy, ReconcileMove, AppendCompleted,
      Step, MintedSteps, RedateSteps
<1>5. CASE Reconcile(q)
  BY <1>1, <1>5
  DEF Reconcile, ReconcileScan, RepairDone, RepairCopy, RepairMove, RepairAppend,
      Step, MintedSteps, RedateSteps
<1>6. CASE RepairDate(q)
  BY <1>1, <1>6
  DEF RepairDate, RepairNothing, RedateUnreadable, RedateAppend, RedateVerify, Step,
      MintedSteps, RedateSteps
<1>7. CASE Abort(q) \/ Crash(q)
  BY <1>1, <1>7 DEF Abort, Crash, Step, MintedSteps, RedateSteps
<1> QED
  BY <1>2, <1>3, <1>4, <1>5, <1>6, <1>7 DEF Advance

\* An identity is the next one when it is minted, and no other line about the
\* source is appended before its own.
LEMMA MintedNext ==
  ASSUME WorkingInvariant, [Next]_vars
  PROVE  MintedIdentityHolds'
<1>1. TypeOK /\ MintedIdentityHolds /\ \A q \in Proc : JobReady(q)
  BY DEF WorkingInvariant
<1> SUFFICES ASSUME NEW q \in Proc, pc'[q] \in MintedSteps
             PROVE  IsNextSequence(job[q].prod.seq, job[q].src)'
  BY DEF MintedIdentityHolds, MintedSteps, RedateSteps
<1>2. CASE /\ pc'[q] = pc[q] /\ job'[q] = job[q] /\ ledger' = ledger
  BY <1>1, <1>2 DEF MintedIdentityHolds, MintedSteps, RedateSteps, IsNextSequence
<1>3. ASSUME NEW p \in Proc \ {q}, Start(p) \/ Advance(p) \/ Abort(p) \/ Crash(p)
      PROVE  IsNextSequence(job[q].prod.seq, job[q].src)'
  <2>1. pc'[q] = pc[q] /\ job'[q] = job[q]
    BY <1>1, <1>3, OthersKept
  <2>2. Locked(q)
    BY <2>1 DEF MintedSteps, RedateSteps, Locked
  <2> QED
    BY <1>2, <1>3, <2>1, <2>2, OthersFrame
<1>4. CASE Mint(q)
  <2>1. PICK n, k :
          LET id == [src |-> job[q].src, seq |-> k,
                     event |-> "primary_artifacts_ready", run |-> job[q].run]
          IN /\ IsNextSequence(k, job[q].src)
             /\ Local(q, [job[q] EXCEPT !.prod = id, !.path = <<job[q].date, n>>])
    BY <1>4 DEF Mint, MintIdentity
  <2>2. ledger' = ledger
    BY <1>4 DEF Mint, disk
  <2>3. job'[q].prod.seq = k /\ job'[q].src = job[q].src
    BY <1>1, <2>1 DEF Local, TypeOK, Job
  <2> QED
    BY <2>1, <2>2, <2>3 DEF IsNextSequence
<1>5. CASE RepairTarget(q)
  <2>1. PICK n, k :
          LET id == [src |-> job[q].src, seq |-> k, event |-> "date_repaired", run |-> 0]
          IN /\ IsNextSequence(k, job[q].src)
             /\ Local(q, [job[q] EXCEPT !.snap = Len(ledger), !.prod = id,
                                        !.path = <<job[q].date, n>>])
    BY <1>5 DEF RepairTarget, MintIdentity
  <2>2. ledger' = ledger
    BY <1>5 DEF RepairTarget, disk
  <2>3. job'[q].prod.seq = k /\ job'[q].src = job[q].src
    BY <1>1, <2>1 DEF Local, TypeOK, Job
  <2> QED
    BY <2>1, <2>2, <2>3 DEF IsNextSequence
<1>6. CASE \/ WriteSignals(q) \/ WriteArtifact(q)
           \/ RedateWrite(q) \/ RedateUnlink(q) \/ RedateSignals(q)
  <2>1. pc[q] \in MintedSteps /\ job' = job /\ ledger' = ledger
    BY <1>6 DEF WriteSignals, WriteArtifact, RedateWrite, RedateUnlink, RedateSignals,
                Step, MintedSteps, RedateSteps
  <2> QED
    BY <1>1, <2>1 DEF MintedIdentityHolds, MintedSteps, RedateSteps, IsNextSequence
<1>7. ASSUME Start(q) \/ Advance(q) \/ Abort(q) \/ Crash(q)
      PROVE  \/ Mint(q) \/ RepairTarget(q)
             \/ WriteSignals(q) \/ WriteArtifact(q)
             \/ RedateWrite(q) \/ RedateUnlink(q) \/ RedateSignals(q)
  BY <1>1, <1>7, MintedBy
<1>8. CASE RemoveStaleLock \/ (\E s \in Source : Drop(s)) \/ UNCHANGED vars
  BY <1>2, <1>8 DEF RemoveStaleLock, Drop, vars, disk
<1> QED
  BY <1>3, <1>4, <1>5, <1>6, <1>7, <1>8 DEF Next

\* Outside the steps that WorkSound speaks of there is nothing to know.
LEMMA WorkRest ==
  ASSUME NEW p \in Proc,
         pc'[p] \notin FreshSteps \cup FiledSteps \cup RepairSteps \cup RedateSteps \cup
                       {"repair_copy"}
  PROVE  WorkSound(p)'
  BY DEF WorkSound, FreshSteps, FiledSteps, RepairSteps, RedateSteps

\* An ingest of a new source leaves it new until its primary line.
LEMMA FreshKept ==
  ASSUME NEW p \in Proc, ~Primary(job[p].src), ledger' = ledger,
         job'[p].src = job[p].src, pc'[p] \in FreshSteps,
         pc'[p] = "quarantine" => "inbox" \in places'[job[p].src]
  PROVE  WorkSound(p)'
<1>1. ~Primary(job[p].src)'
  BY DEF Primary, PrimaryAt, IsLatest
<1> QED
  BY <1>1 DEF WorkSound, FreshSteps, FiledSteps, RepairSteps, RedateSteps

\* The current record of the source is the one with the outputs of p's job.
FiledBy(p) ==
  \E i \in 1..Len(ledger) :
    /\ IsLatest(i, job[p].src, Len(ledger))
    /\ HasPrimaryArtifacts(ledger[i])
    /\ ledger[i].mid = <<job[p].src, job[p].date>>

\* Past its primary line, an ingest knows that the source has its outputs.
LEMMA FiledKept ==
  ASSUME NEW p \in Proc, FiledBy(p)', pc'[p] \in FiledSteps,
         pc'[p] = "move" => HasProcessedCopy(job[p].src)'
  PROVE  WorkSound(p)'
  BY DEF FiledBy, WorkSound, FreshSteps, FiledSteps, RepairSteps, RedateSteps

\* What _prepare_ingest finds out is what its successors rely on.
LEMMA WorkPrepare ==
  ASSUME WorkingInvariant, NEW p \in Proc,
         \/ PrepareDuplicate(p) \/ PrepareFresh(p) \/ PrepareUnreadable(p) \/ PrepareGone(p)
  PROVE  WorkSound(p)'
<1>1. TypeOK /\ pc \in [Proc -> Steps] /\ job \in [Proc -> Job] /\ job[p] \in Job
  BY DEF WorkingInvariant, TypeOK
<1>2. ledger' = ledger /\ places' = places /\ Len(ledger) \in Nat
  <2>1. Len(ledger) \in Nat
    BY <1>1 DEF TypeOK
  <2> QED
    BY <2>1 DEF PrepareDuplicate, PrepareFresh, PrepareUnreadable, PrepareGone, disk
<1>3. CASE PrepareDuplicate(p)
  <2> DEFINE s == job[p].src
             j == [job[p] EXCEPT !.snap = Len(ledger), !.todo = {s}]
  <2>1. pc'[p] = "repair_copy" /\ Primary(s)
    BY <1>1, <1>3 DEF PrepareDuplicate, Step
  <2>2. job'[p] = j /\ j.snap = Len(ledger) /\ j.todo = {s}
    BY <1>1, <1>3 DEF PrepareDuplicate, Local, Job
  <2>3. StillPrimary(s, Len(ledger))
    BY <1>2, <2>1 DEF StillPrimary, Primary
  <2>4. \A d \in job'[p].todo : StillPrimary(d, job[p].snap)'
    BY <1>2, <2>2, <2>3 DEF StillPrimary, PrimaryAt, IsLatest
  <2> QED
    BY <2>1, <2>4 DEF WorkSound, FreshSteps, FiledSteps, RepairSteps, RedateSteps
<1>4. CASE PrepareFresh(p)
  <2>1. pc'[p] = "extract" /\ ~Primary(job[p].src)
    BY <1>1, <1>4 DEF PrepareFresh, Step
  <2>2. job'[p].src = job[p].src
    BY <1>1, <1>4 DEF PrepareFresh, Local, Job
  <2> QED
    BY <1>2, <2>1, <2>2, FreshKept DEF FreshSteps
<1>5. CASE PrepareUnreadable(p)
  <2>1. ~Primary(job[p].src) /\ job[p].at \in places[job[p].src]
    BY <1>5 DEF PrepareUnreadable
  <2>2. \/ pc'[p] = "quarantine" /\ job[p].at = "inbox"
        \/ pc'[p] = "fail"
    BY <1>1, <1>5 DEF PrepareUnreadable, Step
  <2>3. job'[p].src = job[p].src
    BY <1>1, <1>5 DEF PrepareUnreadable, Local, Job
  <2> QED
    BY <1>2, <2>1, <2>2, <2>3, FreshKept DEF FreshSteps
<1>6. CASE PrepareGone(p)
  <2>1. pc'[p] = "release"
    BY <1>1, <1>6 DEF PrepareGone, Step
  <2> QED
    BY <2>1, WorkRest DEF FreshSteps, FiledSteps, RepairSteps, RedateSteps
<1> QED
  BY <1>3, <1>4, <1>5, <1>6

\* Up to its primary line the source of an ingest stays without outputs.
LEMMA WorkFresh ==
  ASSUME WorkingInvariant, NEW p \in Proc,
         \/ Quarantine(p) \/ ProviderAccepted(p) \/ ProviderRejected(p)
         \/ Mint(p) \/ WriteSignals(p) \/ WriteArtifact(p)
  PROVE  WorkSound(p)'
<1>1. /\ pc \in [Proc -> Steps] /\ job \in [Proc -> Job] /\ job[p] \in Job
      /\ WorkSound(p)
  BY DEF WorkingInvariant, TypeOK
<1>2. pc[p] \in FreshSteps
  BY DEF Quarantine, ProviderAccepted, ProviderRejected, Mint, WriteSignals,
         WriteArtifact, Step, FreshSteps
<1>3. pc'[p] \in FreshSteps \ {"quarantine"}
  BY <1>1 DEF Quarantine, ProviderAccepted, ProviderRejected, Mint, WriteSignals,
              WriteArtifact, Step, FreshSteps
<1>4. ledger' = ledger
  BY DEF Quarantine, ProviderAccepted, ProviderRejected, Mint, WriteSignals,
         WriteArtifact, disk
<1>5. job'[p].src = job[p].src
  <2>1. CASE Quarantine(p) \/ ProviderRejected(p)
    BY <1>1, <2>1 DEF Quarantine, ProviderRejected, Local, Job
  <2>2. CASE Mint(p)
    <3>1. PICK prod, path : Local(p, [job[p] EXCEPT !.prod = prod, !.path = path])
      BY <2>2 DEF Mint
    <3> QED
      BY <1>1, <3>1 DEF Local, Job
  <2>3. CASE ProviderAccepted(p) \/ WriteSignals(p) \/ WriteArtifact(p)
    BY <2>3 DEF ProviderAccepted, WriteSignals, WriteArtifact
  <2> QED
    BY <2>1, <2>2, <2>3
<1>6. ~Primary(job[p].src)
  BY <1>1, <1>2 DEF WorkSound
<1> QED
  BY <1>3, <1>4, <1>5, <1>6, FreshKept

\* From its primary line on it is filed, and archived before it is moved.
LEMMA WorkFiled ==
  ASSUME WorkingInvariant, NEW p \in Proc,
         \/ AppendPrimary(p) \/ VerifyLink(p) \/ ArchiveCopy(p) \/ ReconcileMove(p)
         \/ AppendCompleted(p) \/ RecordFailure(p)
  PROVE  WorkSound(p)'
<1>1. /\ TypeOK /\ LedgerSound /\ PrimaryStable
      /\ pc \in [Proc -> Steps] /\ job \in [Proc -> Job] /\ job[p] \in Job
      /\ WorkSound(p) /\ JobReady(p)
  BY DEF WorkingInvariant, TypeOK
<1>2. ASSUME pc'[p] = "release"
      PROVE  WorkSound(p)'
  BY <1>2, WorkRest DEF FreshSteps, FiledSteps, RepairSteps, RedateSteps
<1>3. CASE AppendPrimary(p)
  <2>1. pc'[p] = IF IdentityFree(job[p].prod) THEN "verify" ELSE "release"
    BY <1>1, <1>3 DEF AppendPrimary, Step
  <2>2. job' = job
    BY <1>3 DEF AppendPrimary
  <2>3. CASE IdentityFree(job[p].prod)
    <3>1. PICK r : /\ Appends(p, r) /\ HasPrimaryArtifacts(r)
                   /\ r.mid = <<job[p].src, job[p].date>>
      BY <1>3, <2>3, PrimaryLine
    <3>2. r \in Record /\ r.src = job[p].src /\ ledger' = Append(ledger, r) /\ LineFits(r)
      BY <3>1 DEF Appends
    <3>3. IsLatest(Len(ledger), r.src, Len(ledger))'
      BY <1>1, <3>2, FittingAppend
    <3>4. Len(ledger') \in 1..Len(ledger') /\ ledger'[Len(ledger')] = r
      BY <1>1, <3>2, AppendFacts DEF TypeOK
    <3>5. FiledBy(p)'
      BY <2>2, <3>1, <3>2, <3>3, <3>4 DEF FiledBy, IsLatest
    <3> QED
      BY <2>1, <2>3, <3>5, FiledKept DEF FiledSteps
  <2> QED
    BY <1>2, <2>1, <2>3
<1>4. CASE VerifyLink(p) \/ ArchiveCopy(p) \/ ReconcileMove(p)
  <2>1. /\ pc[p] \in FiledSteps /\ ledger' = ledger
    BY <1>4 DEF VerifyLink, ArchiveCopy, ReconcileMove, Step, FiledSteps, disk
  <2>2. job'[p].src = job[p].src /\ job'[p].date = job[p].date
    BY <1>1, <1>4 DEF VerifyLink, ArchiveCopy, ReconcileMove, Local, Job
  <2>3. FiledBy(p)'
    BY <1>1, <2>1, <2>2 DEF WorkSound, FiledBy, IsLatest
  <2>4. pc'[p] \in {"archive", "move", "append_completed", "release"}
    BY <1>1, <1>4 DEF VerifyLink, ArchiveCopy, ReconcileMove, Step
  <2>5. ASSUME pc'[p] = "move"
        PROVE  HasProcessedCopy(job[p].src)'
    <3>1. ArchiveCopy(p)
      BY <1>1, <1>4, <2>5 DEF VerifyLink, ReconcileMove, Step
    <3>2. job[p].src \in Source
      BY <1>1, <2>1 DEF JobReady, SourceSteps
    <3>3. places'[job[p].src] = Archived(job[p].src)
      BY <1>1, <2>5, <3>1, <3>2 DEF ArchiveCopy, Step, TypeOK
    <3> QED
      BY <2>2, <3>3 DEF HasProcessedCopy, Archived
  <2> QED
    BY <1>2, <2>3, <2>4, <2>5, FiledKept DEF FiledSteps
<1>5. CASE AppendCompleted(p) \/ RecordFailure(p)
  BY <1>1, <1>2, <1>5 DEF AppendCompleted, RecordFailure, Step
<1> QED
  BY <1>3, <1>4, <1>5

\* Every source on the list of the duplicate repair stays as it was read.
LEMMA WorkReconcile ==
  ASSUME WorkingInvariant, NEW p \in Proc,
         \/ ReconcileScan(p) \/ RepairDone(p) \/ RepairCopy(p) \/ RepairMove(p)
         \/ RepairAppend(p)
  PROVE  WorkSound(p)'
<1>1. /\ TypeOK /\ LedgerSound /\ PrimaryStable
      /\ pc \in [Proc -> Steps] /\ job \in [Proc -> Job] /\ job[p] \in Job
      /\ places \in [Source -> SUBSET Places]
      /\ WorkSound(p) /\ JobReady(p)
  BY DEF WorkingInvariant, TypeOK
<1>2. Len(ledger) \in Nat
  BY <1>1 DEF TypeOK
<1>3. ASSUME pc'[p] = "release"
      PROVE  WorkSound(p)'
  BY <1>3, WorkRest DEF FreshSteps, FiledSteps, RepairSteps, RedateSteps
\* What remains to be shown of a step to a repair step.
<1>4. ASSUME pc'[p] \in {"repair_copy", "repair_move", "repair_append"},
             \A d \in job'[p].todo : StillPrimary(d, job[p].snap)',
             pc'[p] # "repair_copy" => job'[p].src \in job'[p].todo,
             pc'[p] = "repair_move" => HasProcessedCopy(job[p].src)'
      PROVE  WorkSound(p)'
  BY <1>4 DEF WorkSound, FreshSteps, FiledSteps, RepairSteps, RedateSteps
<1>5. CASE ReconcileScan(p)
  <2> DEFINE todo == {s \in Source : "inbox" \in places[s] /\ Primary(s)}
  <2>1. pc'[p] = "repair_copy" /\ ledger' = ledger
    BY <1>1, <1>5 DEF ReconcileScan, Step, disk
  <2>2. job'[p].snap = Len(ledger) /\ job'[p].todo = todo
    BY <1>1, <1>5 DEF ReconcileScan, Local, Job
  <2>3. \A s \in todo : StillPrimary(s, Len(ledger))
    BY <1>2 DEF StillPrimary, Primary
  <2>4. \A d \in job'[p].todo : StillPrimary(d, job[p].snap)'
    <3> HIDE DEF todo
    <3> QED
      BY <2>1, <2>2, <2>3 DEF StillPrimary, PrimaryAt, IsLatest
  <2> QED
    BY <1>4, <2>1, <2>4
<1>6. CASE RepairDone(p)
  BY <1>1, <1>3, <1>6 DEF RepairDone, Step
<1>7. CASE RepairCopy(p)
  <2>1. pc[p] = "repair_copy" /\ ledger' = ledger
    BY <1>7 DEF RepairCopy, Step
  <2>2. PICK s \in job[p].todo :
          LET found == job[p].at \in places[s] IN
          /\ Step(p, "repair_copy", IF found THEN "repair_move" ELSE "release")
          /\ places' = [places EXCEPT ![s] =
                          IF found /\ ~HasProcessedCopy(s) THEN Archived(s) ELSE @]
          /\ Local(p, [job[p] EXCEPT !.src = s, !.changed = ~HasProcessedCopy(s)])
    BY <1>7 DEF RepairCopy
  <2>3. job'[p].src = s /\ job'[p].todo = job[p].todo /\ job'[p].snap = job[p].snap
    BY <1>1, <2>2 DEF Local, Job
  <2>4. \A d \in job'[p].todo : StillPrimary(d, job[p].snap)'
    BY <1>1, <2>1, <2>3 DEF WorkSound, StillPrimary, PrimaryAt, IsLatest
  <2>5. CASE job[p].at \in places[s]
    <3>1. pc'[p] = "repair_move"
      BY <1>1, <2>2, <2>5 DEF Step
    <3>2. s \in Source
      BY <1>1, <2>2 DEF Job
    <3>3. HasProcessedCopy(s) => places'[s] = places[s]
      BY <1>1, <2>2, <3>2
    <3>4. ~HasProcessedCopy(s) => places'[s] = Archived(s)
      BY <1>1, <2>2, <2>5, <3>2
    <3>5. HasProcessedCopy(job[p].src)'
      BY <2>3, <3>3, <3>4 DEF HasProcessedCopy, Archived
    <3> QED
      BY <1>4, <2>2, <2>3, <2>4, <3>1, <3>5
  <2>6. CASE job[p].at \notin places[s]
    BY <1>1, <1>3, <2>2, <2>6 DEF Step
  <2> QED
    BY <2>5, <2>6
<1>8. CASE RepairMove(p)
  <2>1. pc[p] = "repair_move" /\ ledger' = ledger
    BY <1>8 DEF RepairMove, Step
  <2>2. PICK changed \in BOOLEAN :
          /\ Step(p, "repair_move", IF changed THEN "repair_append" ELSE "repair_copy")
          /\ Local(p, [job[p] EXCEPT !.todo = IF changed THEN @ ELSE @ \ {job[p].src}])
    BY <1>8 DEF RepairMove
  <2>3. /\ job'[p].src = job[p].src /\ job'[p].snap = job[p].snap
        /\ job'[p].todo \subseteq job[p].todo
        /\ changed => job'[p].todo = job[p].todo
    BY <1>1, <2>2 DEF Local, Job
  <2>4. \A d \in job'[p].todo : StillPrimary(d, job[p].snap)'
    BY <1>1, <2>1, <2>3 DEF WorkSound, RepairSteps, StillPrimary, PrimaryAt, IsLatest
  <2>5. pc'[p] = IF changed THEN "repair_append" ELSE "repair_copy"
    BY <1>1, <2>2 DEF Step
  <2>6. job[p].src \in job[p].todo
    BY <1>1, <2>1 DEF WorkSound, RepairSteps
  <2> QED
    BY <1>4, <2>3, <2>4, <2>5, <2>6
<1>9. CASE RepairAppend(p)
  <2>1. pc[p] = "repair_append" /\ pc'[p] = "repair_copy"
    BY <1>1, <1>9 DEF RepairAppend, Step
  <2>2. Local(p, [job[p] EXCEPT !.todo = @ \ {job[p].src}])
    BY <1>9 DEF RepairAppend
  <2>3. job'[p].snap = job[p].snap /\ job'[p].todo = job[p].todo \ {job[p].src}
    BY <1>1, <2>2 DEF Local, Job
  <2>4. ASSUME NEW d \in job[p].todo, d # job[p].src
        PROVE  /\ job[p].snap \in 0..Len(ledger')
               /\ \E i \in 1..job[p].snap :
                    /\ ledger'[i].src = d
                    /\ \A k \in (i + 1)..job[p].snap : ledger'[k].src # d
                    /\ HasPrimaryArtifacts(ledger'[i])
               /\ \A k \in (job[p].snap + 1)..Len(ledger') : ledger'[k].src # d
    <3>1. /\ job[p].snap \in 0..Len(ledger)
          /\ \A k \in (job[p].snap + 1)..Len(ledger) : ledger[k].src # d
      BY <1>1, <2>1, <2>4 DEF WorkSound, RepairSteps, StillPrimary
    <3>2. PICK i \in 1..job[p].snap :
            /\ ledger[i].src = d
            /\ \A k \in (i + 1)..job[p].snap : ledger[k].src # d
            /\ HasPrimaryArtifacts(ledger[i])
      BY <1>1, <2>1, <2>4 DEF WorkSound, RepairSteps, StillPrimary, PrimaryAt, IsLatest
    <3>3. CASE ledger' = ledger
      BY <3>1, <3>2, <3>3
    <3>4. CASE \E r : Appends(p, r)
      <4>1. PICK r : r \in Record /\ r.src = job[p].src /\ ledger' = Append(ledger, r)
        BY <3>4 DEF Appends
      <4>2. /\ Len(ledger') = Len(ledger) + 1 /\ ledger'[Len(ledger) + 1] = r
            /\ \A k \in 1..Len(ledger) : ledger'[k] = ledger[k]
        BY <1>1, <4>1, AppendFacts DEF TypeOK
      <4>3. \A k \in 1..job[p].snap : ledger'[k] = ledger[k]
        BY <1>2, <3>1, <4>2
      <4>4. \A k \in (i + 1)..job[p].snap : k \in 1..job[p].snap
        BY <1>2, <3>1
      <4>5. \A k \in (job[p].snap + 1)..(Len(ledger) + 1) :
              k = Len(ledger) + 1 \/ (k \in (job[p].snap + 1)..Len(ledger) /\ k \in 1..Len(ledger))
        BY <1>2, <3>1
      <4>6. \A k \in (job[p].snap + 1)..Len(ledger') : ledger'[k].src # d
        BY <2>4, <3>1, <4>1, <4>2, <4>5
      <4>7. job[p].snap \in 0..Len(ledger')
        BY <1>2, <3>1, <4>2
      <4> QED
        BY <3>2, <4>3, <4>4, <4>6, <4>7
    <3> QED
      BY <1>9, <3>3, <3>4, AppendFits DEF AppendStep
  <2>5. \A d \in job'[p].todo : StillPrimary(d, job[p].snap)'
    BY <2>3, <2>4 DEF StillPrimary, PrimaryAt, IsLatest
  <2> QED
    BY <1>4, <2>1, <2>5
<1> QED
  BY <1>5, <1>6, <1>7, <1>8, <1>9

\* A date repair sees the ledger that it read until its own line.
LEMMA WorkRedate ==
  ASSUME WorkingInvariant, NEW p \in Proc, RepairDate(p)
  PROVE  WorkSound(p)'
<1>1. /\ pc \in [Proc -> Steps] /\ job \in [Proc -> Job] /\ job[p] \in Job
      /\ WorkSound(p)
  BY DEF WorkingInvariant, TypeOK
<1>2. CASE RepairNothing(p) \/ RedateUnreadable(p) \/ RedateAppend(p) \/ RedateVerify(p)
  <2>1. pc'[p] \in {"release", "redate_verify"}
    BY <1>1, <1>2 DEF RepairNothing, RedateUnreadable, RedateAppend, RedateVerify, Step
  <2> QED
    BY <2>1, WorkRest DEF FreshSteps, FiledSteps, RepairSteps, RedateSteps
<1>3. ASSUME pc'[p] \in RedateSteps, job'[p].snap = Len(ledger')
      PROVE  WorkSound(p)'
  BY <1>3 DEF WorkSound, FreshSteps, FiledSteps, RepairSteps, RedateSteps
<1>4. CASE RepairTarget(p)
  <2>1. pc'[p] = "redate_write" /\ ledger' = ledger
    BY <1>1, <1>4 DEF RepairTarget, Step, disk
  <2>2. PICK prod, path :
          Local(p, [job[p] EXCEPT !.snap = Len(ledger), !.prod = prod, !.path = path])
    BY <1>4 DEF RepairTarget
  <2>3. job'[p].snap = Len(ledger')
    BY <1>1, <2>1, <2>2 DEF Local, Job
  <2> QED
    BY <1>3, <2>1, <2>3 DEF RedateSteps
<1>5. CASE RedateWrite(p) \/ RedateUnlink(p) \/ RedateSignals(p)
  <2>1. ledger' = ledger /\ job' = job
    BY <1>5 DEF RedateWrite, RedateUnlink, RedateSignals
  <2>2. pc[p] \in RedateSteps /\ pc'[p] \in RedateSteps
    BY <1>1, <1>5 DEF RedateWrite, RedateUnlink, RedateSignals, Step, RedateSteps
  <2> QED
    BY <1>1, <1>3, <2>1, <2>2 DEF WorkSound
<1> QED
  BY <1>2, <1>4, <1>5 DEF RepairDate

\* WorkSound is preserved by every step, for the process that takes it and
\* for the others.
LEMMA WorkNext ==
  ASSUME WorkingInvariant, [Next]_vars
  PROVE  \A q \in Proc : WorkSound(q)'
<1>1. /\ TypeOK /\ pc \in [Proc -> Steps] /\ job \in [Proc -> Job]
      /\ \A q \in Proc : WorkSound(q) /\ JobReady(q)
  BY DEF WorkingInvariant, TypeOK
<1> SUFFICES ASSUME NEW q \in Proc
             PROVE  WorkSound(q)'
  OBVIOUS
<1>2. ASSUME NEW p \in Proc \ {q}, Start(p) \/ Advance(p) \/ Abort(p) \/ Crash(p)
      PROVE  WorkSound(q)'
  <2>1. pc'[q] = pc[q] /\ job'[q] = job[q]
    BY <1>1, <1>2, OthersKept
  <2>2. CASE Locked(q)
    <3>1. ledger' = ledger /\ places' = places
      BY <1>2, <2>2, OthersFrame
    <3> QED
      BY <1>1, <2>1, <3>1, WorkKept
  <2>3. CASE ~Locked(q)
    <3>1. pc'[q] \in {"idle", "acquire"}
      BY <2>1, <2>3 DEF Locked
    <3> QED
      BY <3>1, WorkRest DEF FreshSteps, FiledSteps, RepairSteps, RedateSteps
  <2> QED
    BY <2>2, <2>3
<1>3. CASE Start(q) \/ LockConflict(q) \/ Release(q) \/ Abort(q) \/ Crash(q)
  <2>1. pc'[q] \in {"idle", "acquire", "release"}
    BY <1>1, <1>3 DEF Start, StartIngest, StartRepairDate, StartReconcile, LockConflict,
                      Release, Abort, Crash, Step
  <2> QED
    BY <2>1, WorkRest DEF FreshSteps, FiledSteps, RepairSteps, RedateSteps
<1>4. CASE Acquire(q)
  <2>1. job[q].op \in {"ingest", "reconcile", "repair-date"}
    <3>1. pc[q] = "acquire"
      BY <1>4 DEF Acquire, Step
    <3> QED
      BY <1>1, <3>1 DEF JobReady, Job
  <2>2. pc'[q] \in {"prepare", "scan", "target"}
    BY <1>1, <1>4, <2>1 DEF Acquire, Step
  <2> QED
    BY <2>2, WorkRest DEF FreshSteps, FiledSteps, RepairSteps, RedateSteps
<1>5. CASE Ingest(q) \/ Reconcile(q) \/ RepairDate(q)
  <2>1. CASE Ingest(q)
    BY <2>1, WorkPrepare, WorkFresh, WorkFiled DEF Ingest
  <2>2. CASE Reconcile(q)
    BY <2>2, WorkReconcile DEF Reconcile
  <2>3. CASE RepairDate(q)
    BY <2>3, WorkRedate
  <2> QED
    BY <1>5, <2>1, <2>2, <2>3
<1>6. CASE \E s \in Source : Drop(s)
  <2>1. PICK s \in Source : Drop(s)
    BY <1>6
  <2>2. /\ ledger' = ledger /\ pc' = pc /\ job' = job
        /\ places' = [places EXCEPT ![s] = @ \cup {"inbox"}]
    BY <2>1 DEF Drop
  <2>3. \A x \in Source : places[x] \subseteq places'[x]
    BY <1>1, <2>2 DEF TypeOK
  <2>4. pc[q] \in {"move", "repair_move", "quarantine"} => job[q].src \in Source
    BY <1>1 DEF JobReady, SourceSteps, FreshSteps, FiledSteps, RepairSteps
  <2> QED
    BY <1>1, <2>2, <2>3, <2>4, WorkKept
<1>7. CASE RemoveStaleLock \/ UNCHANGED vars
  <2>1. ledger' = ledger /\ pc' = pc /\ job' = job /\ places' = places
    BY <1>7 DEF RemoveStaleLock, vars, disk
  <2> QED
    BY <1>1, <2>1, WorkKept
<1> QED
  BY <1>2, <1>3, <1>4, <1>5, <1>6, <1>7 DEF Next, Advance

-----------------------------------------------------------------------------
(* Artifact names.                                                         *)

\* A name that is free when it is chosen is free when it is written: nobody
\* else creates a file in between.
LEMMA PathsNext ==
  ASSUME WorkingInvariant, PathsFree, [Next]_vars
  PROVE  PathsFree'
<1>1. /\ TypeOK /\ pc \in [Proc -> Steps] /\ job \in [Proc -> Job]
      /\ \A q \in Proc : JobReady(q) /\ PathFree(q)
  BY DEF WorkingInvariant, TypeOK, PathsFree
<1> SUFFICES ASSUME NEW q \in Proc
             PROVE  PathFree(q)'
  BY DEF PathsFree
<1>2. CASE /\ pc'[q] = pc[q] /\ job'[q] = job[q]
           /\ ledger' = ledger /\ artifacts' = artifacts
  BY <1>1, <1>2 DEF PathFree, IsTarget, HasPrimaryArtifacts
<1>3. CASE pc'[q] \notin {"write_signals", "write_artifact", "redate_write"}
  BY <1>3 DEF PathFree
<1>4. ASSUME NEW p \in Proc \ {q}, Start(p) \/ Advance(p) \/ Abort(p) \/ Crash(p)
      PROVE  PathFree(q)'
  <2>1. pc'[q] = pc[q] /\ job'[q] = job[q]
    BY <1>1, <1>4, OthersKept
  <2>2. CASE Locked(q)
    BY <1>2, <1>4, <2>2, OthersFrame
  <2>3. CASE ~Locked(q)
    BY <1>3, <2>1, <2>3 DEF Locked
  <2> QED
    BY <2>2, <2>3
<1>5. CASE Mint(q)
  <2>1. PICK n \in 1..(Cardinality(DOMAIN artifacts) + 1), k \in 1..(Len(ledger) + 1) :
          /\ FreePath(<<job[q].date, n>>, job[q].date, {})
          /\ Local(q, [job[q] EXCEPT
                         !.prod = [src |-> job[q].src, seq |-> k,
                                   event |-> "primary_artifacts_ready", run |-> job[q].run],
                         !.path = <<job[q].date, n>>])
    BY <1>5 DEF Mint
  <2>2. <<job[q].date, n>> \notin DOMAIN artifacts
    BY <2>1 DEF FreePath
  <2>3. job'[q].path = <<job[q].date, n>>
    BY <1>1, <2>1 DEF Local, Job
  <2>4. artifacts' = artifacts /\ pc'[q] = "write_signals"
    BY <1>1, <1>5 DEF Mint, Step, disk
  <2> QED
    BY <2>2, <2>3, <2>4 DEF PathFree
<1>6. CASE RepairTarget(q)
  <2>1. PICK i \in 1..Len(ledger), n \in 1..(Cardinality(DOMAIN artifacts) + 1),
             k \in 1..(Len(ledger) + 1) :
          /\ IsTarget(i, job[q].src, Len(ledger))
          /\ FreePath(<<job[q].date, n>>, job[q].date, {ledger[i].out.path})
          /\ Local(q, [job[q] EXCEPT
                         !.snap = Len(ledger),
                         !.prod = [src |-> job[q].src, seq |-> k,
                                   event |-> "date_repaired", run |-> 0],
                         !.path = <<job[q].date, n>>])
    BY <1>6 DEF RepairTarget
  <2>2. <<job[q].date, n>> \in DOMAIN artifacts => ledger[i].out.path = <<job[q].date, n>>
    BY <2>1 DEF FreePath
  <2>3. job'[q].path = <<job[q].date, n>> /\ job'[q].src = job[q].src
    BY <1>1, <2>1 DEF Local, Job
  <2>4. artifacts' = artifacts /\ ledger' = ledger /\ pc'[q] = "redate_write"
    BY <1>1, <1>6 DEF RepairTarget, Step, disk
  <2> QED
    BY <2>1, <2>2, <2>3, <2>4 DEF PathFree, IsTarget, HasPrimaryArtifacts
<1>7. CASE WriteSignals(q)
  <2>1. /\ pc[q] = "write_signals" /\ pc'[q] = "write_artifact"
        /\ job' = job /\ artifacts' = artifacts
    BY <1>1, <1>7 DEF WriteSignals, Step
  <2> QED
    BY <1>1, <2>1 DEF PathFree
<1>8. ASSUME Start(q) \/ Advance(q) \/ Abort(q) \/ Crash(q),
             pc'[q] \in {"write_signals", "write_artifact", "redate_write"}
      PROVE  Mint(q) \/ RepairTarget(q) \/ WriteSignals(q)
  <2>1. \/ Mint(q) \/ RepairTarget(q)
        \/ WriteSignals(q) \/ WriteArtifact(q)
        \/ RedateWrite(q) \/ RedateUnlink(q) \/ RedateSignals(q)
    BY <1>1, <1>8, MintedBy DEF MintedSteps, RedateSteps
  <2> QED
    BY <1>1, <1>8, <2>1
    DEF WriteArtifact, RedateWrite, RedateUnlink, RedateSignals, Step
<1>9. CASE RemoveStaleLock \/ (\E s \in Source : Drop(s)) \/ UNCHANGED vars
  BY <1>2, <1>9 DEF RemoveStaleLock, Drop, vars, disk
<1> QED
  BY <1>3, <1>4, <1>5, <1>6, <1>7, <1>8, <1>9 DEF Next

\* A new file leaves those with other names alone.
LEMMA OthersUntouched ==
  ASSUME NEW path, NEW content, artifacts' = WithFile(path, content),
         NEW other \in DOMAIN artifacts, other # path
  PROVE  other \in DOMAIN artifacts' /\ artifacts'[other] = artifacts[other]
  BY DEF WithFile

\* The steps that write or remove an artifact, and what they do to others.
LEMMA WritersSpare ==
  ASSUME WorkingInvariant, PathsFree, NEW p \in Proc,
         \/ WriteArtifact(p) \/ RedateWrite(p) \/ RedateUnlink(p)
         \/ Abort(p) \/ Crash(p),
         NEW path \in DOMAIN artifacts, ~BeingRedated(path)
  PROVE  path \in DOMAIN artifacts' /\ artifacts'[path] = artifacts[path]
<1>1. TypeOK /\ PathFree(p) /\ WorkSound(p)
  BY DEF WorkingInvariant, PathsFree
<1>2. /\ pc[p] = "write_artifact" => path # job[p].path
      /\ pc[p] = "redate_write" => path # job[p].path
  BY <1>1 DEF PathFree, BeingRedated
<1>3. CASE WriteArtifact(p)
  <2>1. pc[p] = "write_artifact"
    BY <1>3 DEF WriteArtifact, Step
  <2>2. artifacts' = WithFile(job[p].path,
                              ArtifactOf(<<job[p].src, job[p].date>>, job[p].prod, job[p].date))
    BY <1>3 DEF WriteArtifact
  <2> QED
    BY <1>2, <2>1, <2>2, OthersUntouched
<1>4. CASE RedateWrite(p)
  <2>1. pc[p] = "redate_write"
    BY <1>4 DEF RedateWrite, Step
  <2>2. \E content : artifacts' = WithFile(job[p].path, content)
    BY <1>4 DEF RedateWrite
  <2> QED
    BY <1>2, <2>1, <2>2, OthersUntouched
<1>5. CASE RedateUnlink(p)
  <2>1. pc[p] = "redate_unlink" /\ job[p].snap = Len(ledger)
    BY <1>1, <1>5 DEF RedateUnlink, Step, WorkSound, RedateSteps
  <2>2. PICK i \in 1..Len(ledger) :
          /\ IsTarget(i, job[p].src, Len(ledger))
          /\ artifacts' = IF ledger[i].out.path = job[p].path
                            THEN artifacts ELSE WithoutFile(ledger[i].out.path)
    BY <1>5, <2>1 DEF RedateUnlink
  <2>3. path # ledger[i].out.path
    BY <2>1, <2>2 DEF BeingRedated
  <2> QED
    BY <2>2, <2>3 DEF WithoutFile
<1>6. CASE Abort(p) \/ Crash(p)
  <2>1. CutShort(p)
    BY <1>6 DEF Abort, Crash
  <2>2. \/ artifacts' = artifacts
        \/ /\ pc[p] \in {"write_artifact", "redate_write"}
           /\ artifacts' = WithFile(job[p].path, PartialFile)
    BY <2>1 DEF CutShort
  <2> QED
    BY <1>2, <2>2, OthersUntouched
<1> QED
  BY <1>3, <1>4, <1>5, <1>6

\* Every other step leaves all artifacts alone.
LEMMA OutputsNext ==
  ASSUME WorkingInvariant, PathsFree, Next, NEW path \in DOMAIN artifacts,
         ~BeingRedated(path)
  PROVE  path \in DOMAIN artifacts' /\ artifacts'[path] = artifacts[path]
<1>1. ASSUME NEW p \in Proc, Start(p) \/ Advance(p) \/ Abort(p) \/ Crash(p)
      PROVE  \/ artifacts' = artifacts
             \/ WriteArtifact(p) \/ RedateWrite(p) \/ RedateUnlink(p)
             \/ Abort(p) \/ Crash(p)
  <2>1. CASE Start(p) \/ Acquire(p) \/ LockConflict(p) \/ Release(p)
    BY <2>1, UnlockedFrame
  <2>2. CASE Ingest(p)
    BY <2>2
    DEF Ingest, PrepareDuplicate, PrepareFresh, PrepareUnreadable, PrepareGone, Quarantine,
        ProviderAccepted, ProviderRejected, RecordFailure, Mint, WriteSignals,
        AppendPrimary, VerifyLink, ArchiveCopy, ReconcileMove, AppendCompleted, disk
  <2>3. CASE Reconcile(p)
    BY <2>3
    DEF Reconcile, ReconcileScan, RepairDone, RepairCopy, RepairMove, RepairAppend, disk
  <2>4. CASE RepairDate(p)
    BY <2>4
    DEF RepairDate, RepairNothing, RepairTarget, RedateUnreadable, RedateSignals,
        RedateAppend, RedateVerify, disk
  <2> QED
    BY <1>1, <2>1, <2>2, <2>3, <2>4 DEF Advance
<1>2. CASE RemoveStaleLock \/ \E s \in Source : Drop(s)
  BY <1>2 DEF RemoveStaleLock, Drop, disk
<1> QED
  BY <1>1, <1>2, WritersSpare DEF Next

-----------------------------------------------------------------------------
(* What the ledger says of the disk.                                        *)

\* What a date repair calls its target is the current record of its source.
LEMMA TargetCurrent ==
  ASSUME TypeOK, LedgerSound, PrimaryStable, NEW s, NEW i \in 1..Len(ledger),
         IsTarget(i, s, Len(ledger))
  PROVE  /\ IsLatest(i, s, Len(ledger)) /\ IsCurrent(i)
         /\ ledger[i].src = s
<1>1. Len(ledger) \in Nat
  BY DEF TypeOK
<1>2. ledger[i].src = s /\ HasPrimaryArtifacts(ledger[i])
  BY DEF IsTarget
<1>3. PICK j \in 1..Len(ledger) : IsLatest(j, s, Len(ledger))
  BY <1>2 DEF LedgerSound
<1>4. ~(j < i)
  BY <1>1, <1>2, <1>3 DEF IsLatest
<1>5. ~(i < j)
  <2> SUFFICES ASSUME i < j
               PROVE  FALSE
    OBVIOUS
  <2>1. HasPrimaryArtifacts(ledger[j]) /\ ledger[j].src = s
    BY <1>2, <1>3 DEF PrimaryStable, IsLatest
  <2>2. j \in (i + 1)..Len(ledger)
    BY <1>1
  <2> QED
    BY <2>1, <2>2 DEF IsTarget
<1>6. i = j
  BY <1>1, <1>4, <1>5
<1> QED
  BY <1>2, <1>3, <1>6 DEF IsCurrent, HasPrimaryArtifacts

\* One source has one current record.
LEMMA CurrentUnique ==
  ASSUME TypeOK, NEW s, NEW i, NEW j, IsLatest(i, s, Len(ledger)), IsLatest(j, s, Len(ledger))
  PROVE  i = j
<1>1. Len(ledger) \in Nat /\ i \in 1..Len(ledger) /\ j \in 1..Len(ledger)
  BY DEF TypeOK, IsLatest
<1> QED
  BY <1>1, LatestUnique

\* Two appends that make the same ledger append the same line.
LEMMA SameLine ==
  ASSUME ledger \in Seq(Record), NEW r \in Record, NEW q,
         Append(ledger, r) = Append(ledger, q)
  PROVE  q = r
<1> DEFINE S == Record \cup {q}
<1>1. ledger \in Seq(S) /\ r \in S /\ q \in S
  OBVIOUS
<1> HIDE DEF S
<1>2. /\ Append(ledger, r)[Len(ledger) + 1] = r
      /\ Append(ledger, q)[Len(ledger) + 1] = q
  BY <1>1
<1> QED
  BY <1>2

\* The next identity of a source is free.
LEMMA NextIsFree ==
  ASSUME TypeOK, NEW id, IsNextSequence(id.seq, id.src)
  PROVE  IdentityFree(id)
<1>1. \A i \in 1..Len(ledger) : ledger[i].seq \in Nat
  <2> SUFFICES ASSUME NEW i \in 1..Len(ledger)
               PROVE  ledger[i].seq \in Nat
    OBVIOUS
  <2>1. ledger[i] \in Record
    BY DEF TypeOK
  <2> QED
    BY <2>1 DEF Record
<1>2. \A i \in 1..Len(ledger) : ledger[i].src = id.src => ledger[i].seq < id.seq
  BY DEF IsNextSequence
<1> QED
  BY <1>1, <1>2 DEF IdentityFree

\* append_snapshot with an identity of its own making.
LEMMA MintedAppended ==
  ASSUME TypeOK, NEW s, NEW event, NEW run, NEW mid, NEW out, NEW archived, NEW reconcile,
         AppendMinted(s, event, run, mid, out, archived, reconcile)
  PROVE  \E r : /\ ledger' = Append(ledger, r)
                /\ IdentityFree(r) /\ r.src = s
                /\ r.mid = mid /\ r.out = out /\ r.archived = archived
<1>1. PICK k : /\ IsNextSequence(k, s)
               /\ AppendSnapshot([src |-> s, seq |-> k, event |-> event, run |-> run],
                                 mid, out, FALSE, archived, reconcile)
  BY DEF AppendMinted
<1> DEFINE id == [src |-> s, seq |-> k, event |-> event, run |-> run]
           r == [src |-> s, seq |-> k, event |-> event, run |-> run,
                 mid |-> mid, out |-> out, produced |-> FALSE,
                 archived |-> archived, reconcile |-> reconcile]
<1>2. IdentityFree(id) /\ IdentityFree(r)
  <2>1. id.src = s /\ id.seq = k /\ r.src = s /\ r.seq = k
    OBVIOUS
  <2> HIDE DEF id, r
  <2> QED
    BY <1>1, <2>1, NextIsFree
<1>3. ledger' = Append(ledger, r)
  BY <1>1, <1>2 DEF AppendSnapshot
<1> QED
  BY <1>2, <1>3

\* r is the line of the outputs that p has produced.
Originates(p, r) == IdOf(r) = job[p].prod /\ r.produced /\ r.out = JobOutput(p)

\* r repeats the outputs of the current record i.
Repeats(r, i) ==
  /\ IsCurrent(i) /\ ledger[i].src = r.src
  /\ r.out = ledger[i].out /\ r.mid = ledger[i].mid

\* r is the line that p appends, and where its outputs come from.
AppendedBy(p, r) ==
  \/ RecordFailure(p) /\ r.out = None
  \/ AppendPrimary(p) /\ Originates(p, r) /\ r.mid = <<job[p].src, job[p].date>>
  \/ AppendCompleted(p) /\ \E i \in 1..Len(ledger) : Repeats(r, i)
  \/ RepairAppend(p) /\ \E i \in 1..Len(ledger) : Repeats(r, i)
  \/ /\ RedateAppend(p) /\ Originates(p, r)
     /\ \E i \in 1..Len(ledger) :
          IsCurrent(i) /\ ledger[i].src = r.src /\ r.mid = ledger[i].mid

\* An append writes a line with an identity of its own, whose outputs are those
\* of the job or of the current record, and which calls no source archived that
\* is not.
LEMMA AppendedLine ==
  ASSUME WorkingInvariant, CopiesKept, NEW p \in Proc, FilesKnown(p), AppendStep(p)
  PROVE  \E r \in Record :
           /\ ledger' = Append(ledger, r) /\ IdentityFree(r)
           /\ r.src = job[p].src /\ LineFits(r)
           /\ r.archived => HasProcessedCopy(r.src)
           /\ AppendedBy(p, r)
<1>1. /\ TypeOK /\ ledger \in Seq(Record) /\ LedgerSound /\ PrimaryStable
      /\ JobReady(p) /\ WorkSound(p) /\ MintedIdentityHolds
      /\ Len(ledger) \in Nat
  BY DEF WorkingInvariant, TypeOK
\* The record that an append writes is the one that is known to fit.
<1>2. ASSUME NEW r, ledger' = Append(ledger, r)
      PROVE  r \in Record /\ r.src = job[p].src /\ LineFits(r)
  <2>1. Append(ledger, r) # ledger
    <3> DEFINE S == Record \cup {r}
    <3>1. ledger \in Seq(S) /\ r \in S
      BY <1>1
    <3> HIDE DEF S
    <3>2. Len(Append(ledger, r)) = Len(ledger) + 1
      BY <3>1
    <3> QED
      BY <1>1, <3>2
  <2>2. PICK q : Appends(p, q)
    BY <1>2, <2>1, AppendFits
  <2>3. q \in Record /\ Append(ledger, q) = Append(ledger, r)
    BY <1>2, <2>2 DEF Appends
  <2>4. r = q
    BY <1>1, <2>3, SameLine
  <2> QED
    BY <2>2, <2>4 DEF Appends
<1>3. CASE RecordFailure(p)
  <2>1. PICK mid, out, archived : /\ out = None /\ archived = FALSE
          /\ AppendMinted(job[p].src, job[p].event, job[p].run, mid, out, archived, "skipped")
    BY <1>3 DEF RecordFailure
  <2>2. PICK r : ledger' = Append(ledger, r) /\ IdentityFree(r) /\ r.out = out /\ r.archived = archived
    BY <1>1, <2>1, MintedAppended
  <2> QED
    BY <1>2, <1>3, <2>1, <2>2 DEF AppendedBy
<1>4. CASE AppendPrimary(p)
  <2>1. pc[p] = "append_primary"
    BY <1>4 DEF AppendPrimary, Step
  <2>2. job[p].prod \in RecordId /\ job[p].prod.src = job[p].src
    BY <1>1, <2>1 DEF JobReady, OutputSteps, MintedSteps
  <2>3. IdentityFree(job[p].prod)
    BY <1>1, <2>1, <2>2, NextIsFree DEF MintedIdentityHolds
  <2> DEFINE mid == <<job[p].src, job[p].date>>
             r == [src |-> job[p].prod.src, seq |-> job[p].prod.seq,
                   event |-> job[p].prod.event, run |-> job[p].prod.run,
                   mid |-> mid, out |-> JobOutput(p), produced |-> TRUE,
                   archived |-> FALSE, reconcile |-> "pending"]
  <2>4. ledger' = Append(ledger, r)
    BY <1>4, <2>3 DEF AppendPrimary, AppendSnapshot, JobOutput
  <2>5. IdentityFree(r)
    BY <2>3 DEF IdentityFree
  <2>6. Originates(p, r) /\ r.mid = <<job[p].src, job[p].date>> /\ r.archived = FALSE
    <3>1. r.produced
      OBVIOUS
    <3>2. r.out = JobOutput(p) /\ r.mid = <<job[p].src, job[p].date>> /\ r.archived = FALSE
      OBVIOUS
    <3>3. IdOf(r) = job[p].prod
      BY <2>2 DEF IdOf, RecordId
    <3> QED
      BY <3>1, <3>2, <3>3 DEF Originates
  <2> HIDE DEF r
  <2> QED
    BY <1>2, <1>4, <2>4, <2>5, <2>6 DEF AppendedBy
<1>5. CASE AppendCompleted(p)
  <2>1. pc[p] = "append_completed"
    BY <1>5 DEF AppendCompleted, Step
  <2>2. PICK i \in 1..Len(ledger) :
          /\ IsLatest(i, job[p].src, Len(ledger))
          /\ ledger[i].mid = <<job[p].src, job[p].date>> /\ ledger[i].out = JobOutput(p)
    BY <2>1 DEF FilesKnown, FiledSteps
  <2>3. HasProcessedCopy(job[p].src)
    BY <2>1 DEF FilesKnown
  <2>4. PICK archived, reconcile :
          AppendMinted(job[p].src, "ingest_completed", job[p].run,
                       <<job[p].src, job[p].date>>, JobOutput(p), archived, reconcile)
    BY <1>5 DEF AppendCompleted, JobOutput
  <2>5. PICK r : /\ ledger' = Append(ledger, r) /\ IdentityFree(r) /\ r.src = job[p].src
                 /\ r.mid = <<job[p].src, job[p].date>> /\ r.out = JobOutput(p)
    BY <1>1, <2>4, MintedAppended
  <2>6. IsCurrent(i) /\ ledger[i].src = job[p].src
    <3>1. PICK k \in 1..Len(ledger) :
            IsLatest(k, job[p].src, Len(ledger)) /\ HasPrimaryArtifacts(ledger[k])
      BY <1>1, <2>1 DEF WorkSound, FiledSteps
    <3>2. k = i
      BY <1>1, <2>2, <3>1, CurrentUnique
    <3> QED
      BY <2>2, <3>1, <3>2 DEF IsCurrent, IsLatest, HasPrimaryArtifacts
  <2> QED
    BY <1>2, <1>5, <2>2, <2>3, <2>5, <2>6 DEF AppendedBy, Repeats
<1>6. CASE RepairAppend(p)
  <2>1. pc[p] = "repair_append"
    BY <1>6 DEF RepairAppend, Step
  <2>2. /\ job[p].snap \in 0..Len(ledger)
        /\ PrimaryAt(job[p].src, job[p].snap)
        /\ \A k \in (job[p].snap + 1)..Len(ledger) : ledger[k].src # job[p].src
    BY <1>1, <2>1 DEF WorkSound, RepairSteps, StillPrimary
  <2>3. PICK i \in 1..job[p].snap :
          /\ IsLatest(i, job[p].src, job[p].snap)
          /\ \E archived, reconcile :
               AppendMinted(job[p].src, "reconcile_repaired", ledger[i].run, ledger[i].mid,
                            ledger[i].out, archived, reconcile)
    BY <1>6 DEF RepairAppend
  <2>4. PICK r : /\ ledger' = Append(ledger, r) /\ IdentityFree(r) /\ r.src = job[p].src
                 /\ r.mid = ledger[i].mid /\ r.out = ledger[i].out
    <3>1. PICK archived, reconcile :
            AppendMinted(job[p].src, "reconcile_repaired", ledger[i].run, ledger[i].mid,
                         ledger[i].out, archived, reconcile)
      BY <2>3
    <3> QED
      BY <1>1, <3>1, MintedAppended
  <2>5. HasPrimaryArtifacts(ledger[i])
    <3>1. PICK k \in 1..job[p].snap :
            IsLatest(k, job[p].src, job[p].snap) /\ HasPrimaryArtifacts(ledger[k])
      BY <2>2 DEF PrimaryAt
    <3>2. job[p].snap \in Nat
      BY <2>2
    <3> QED
      BY <2>3, <3>1, <3>2, LatestUnique
  <2>6. i \in 1..Len(ledger) /\ IsLatest(i, job[p].src, Len(ledger))
    <3>1. i \in 1..Len(ledger)
      BY <1>1, <2>2
    <3>2. \A k \in (i + 1)..Len(ledger) :
            k \in (i + 1)..job[p].snap \/ k \in (job[p].snap + 1)..Len(ledger)
      BY <1>1, <2>2
    <3> QED
      BY <2>2, <2>3, <3>1, <3>2 DEF IsLatest
  <2>7. IsCurrent(i) /\ ledger[i].src = job[p].src
    BY <2>5, <2>6 DEF IsCurrent, IsLatest, HasPrimaryArtifacts
  <2>8. HasProcessedCopy(job[p].src)
    BY <2>1 DEF FilesKnown
  <2> QED
    BY <1>2, <1>6, <2>4, <2>6, <2>7, <2>8 DEF AppendedBy, Repeats
<1>7. CASE RedateAppend(p)
  <2>1. pc[p] = "redate_append"
    BY <1>7 DEF RedateAppend, Step
  <2>2. /\ job[p].prod \in RecordId /\ job[p].prod.src = job[p].src
        /\ job[p].snap = Len(ledger)
    BY <1>1, <2>1 DEF JobReady, OutputSteps, MintedSteps, RedateSteps, WorkSound
  <2>3. IdentityFree(job[p].prod)
    BY <1>1, <2>1, <2>2, NextIsFree DEF MintedIdentityHolds
  <2>4. PICK i \in 1..Len(ledger) :
          /\ IsTarget(i, job[p].src, Len(ledger))
          /\ AppendSnapshot(job[p].prod, ledger[i].mid, JobOutput(p), TRUE,
                            ledger[i].archived, ledger[i].reconcile)
    BY <1>7, <2>2 DEF RedateAppend, JobOutput
  <2>5. IsCurrent(i) /\ ledger[i].src = job[p].src
    BY <1>1, <2>4, TargetCurrent
  <2> DEFINE r == [src |-> job[p].prod.src, seq |-> job[p].prod.seq,
                   event |-> job[p].prod.event, run |-> job[p].prod.run,
                   mid |-> ledger[i].mid, out |-> JobOutput(p), produced |-> TRUE,
                   archived |-> ledger[i].archived, reconcile |-> ledger[i].reconcile]
  <2>6. ledger' = Append(ledger, r)
    BY <2>3, <2>4 DEF AppendSnapshot
  <2>7. IdentityFree(r)
    BY <2>3 DEF IdentityFree
  <2>8. Originates(p, r) /\ r.mid = ledger[i].mid
    <3>1. r.produced
      OBVIOUS
    <3>2. r.out = JobOutput(p) /\ r.mid = ledger[i].mid
      OBVIOUS
    <3>3. IdOf(r) = job[p].prod
      BY <2>2 DEF IdOf, RecordId
    <3> QED
      BY <3>1, <3>2, <3>3 DEF Originates
  <2>9. r.archived => HasProcessedCopy(job[p].src)
    <3>1. r.archived = ledger[i].archived
      OBVIOUS
    <3> HIDE DEF r
    <3>2. r \in Record /\ ledger[i] \in Record
      BY <1>1, <1>2, <2>6
    <3> QED
      BY <2>5, <3>1, <3>2 DEF CopiesKept, Record
  <2>10. r.src = job[p].src
    BY <2>2
  <2> HIDE DEF r
  <2> QED
    BY <1>2, <1>7, <2>5, <2>6, <2>7, <2>8, <2>9, <2>10 DEF AppendedBy
<1> QED
  BY <1>3, <1>4, <1>5, <1>6, <1>7 DEF AppendStep

\* A line with an identity of its own, whose outputs are its own or repeat those
\* of an earlier line, leaves every output with a producer.
LEMMA ProducersGrow ==
  ASSUME TypeOK, ProducersSound, NEW r \in Record, ledger' = Append(ledger, r),
         IdentityFree(r),
         r.out # None =>
           /\ r.out.prod.src = r.src /\ r.out.path[1] = r.out.date
           /\ \/ IdOf(r) = r.out.prod /\ r.produced
              \/ \E i \in 1..Len(ledger) :
                   ledger[i].out = r.out /\ ledger[i].mid = r.mid
  PROVE  ProducersSound'
<1>1. Len(ledger) \in Nat
  BY DEF TypeOK
<1>2. PICK n \in Nat : n = Len(ledger)
  BY <1>1
<1>3. /\ n = Len(ledger) /\ Len(ledger') = n + 1 /\ ledger'[n + 1] = r
      /\ \A i \in 1..n : ledger'[i] = ledger[i]
  BY <1>2, AppendFacts DEF TypeOK
<1>4. \A i \in 1..(n + 1) : i \in 1..n \/ i = n + 1
  BY <1>2
<1>5. \A i \in 1..n : i \in 1..(n + 1) /\ n + 1 \in 1..(n + 1)
  BY <1>2
<1>6. ASSUME NEW i \in 1..(n + 1), NEW j \in 1..(n + 1),
             ledger'[i].src = ledger'[j].src, ledger'[i].seq = ledger'[j].seq
      PROVE  i = j
  <2>1. \A k \in 1..n : ~(ledger'[k].src = r.src /\ ledger'[k].seq = r.seq)
    BY <1>3 DEF IdentityFree
  <2>2. CASE i \in 1..n /\ j \in 1..n
    BY <1>3, <1>6, <2>2 DEF ProducersSound
  <2> QED
    BY <1>3, <1>4, <1>6, <2>1, <2>2
<1>7. ASSUME NEW i \in 1..n, ledger[i].out # None
      PROVE  \E k \in 1..(n + 1) :
               /\ IdOf(ledger'[k]) = ledger[i].out.prod /\ ledger'[k].produced
               /\ ledger'[k].out = ledger[i].out /\ ledger'[k].mid = ledger[i].mid
  <2>1. PICK k \in 1..n :
          /\ IdOf(ledger[k]) = ledger[i].out.prod /\ ledger[k].produced
          /\ ledger[k].out = ledger[i].out /\ ledger[k].mid = ledger[i].mid
    BY <1>3, <1>7 DEF ProducersSound
  <2>2. k \in 1..(n + 1) /\ ledger'[k] = ledger[k]
    BY <1>3, <1>5
  <2> QED
    BY <2>1, <2>2
<1>8. ASSUME NEW i \in 1..(n + 1), ledger'[i].out # None
      PROVE  /\ ledger'[i].out.prod.src = ledger'[i].src
             /\ ledger'[i].out.path[1] = ledger'[i].out.date
             /\ \E k \in 1..(n + 1) :
                  /\ IdOf(ledger'[k]) = ledger'[i].out.prod /\ ledger'[k].produced
                  /\ ledger'[k].out = ledger'[i].out /\ ledger'[k].mid = ledger'[i].mid
  <2>1. CASE i \in 1..n
    <3>1. ledger'[i] = ledger[i]
      BY <1>3, <2>1
    <3>2. ledger[i].out # None
      BY <1>8, <3>1
    <3>3. ledger[i].out.prod.src = ledger[i].src /\ ledger[i].out.path[1] = ledger[i].out.date
      BY <1>3, <2>1, <3>2 DEF ProducersSound
    <3> QED
      BY <1>7, <2>1, <3>1, <3>2, <3>3
  <2>2. CASE i = n + 1
    <3>1. ledger'[i] = r /\ i \in 1..(n + 1)
      BY <1>3, <2>2
    <3>2. CASE IdOf(r) = r.out.prod /\ r.produced
      BY <1>8, <3>1, <3>2
    <3>3. CASE \E k \in 1..Len(ledger) : ledger[k].out = r.out /\ ledger[k].mid = r.mid
      <4>1. PICK k \in 1..n : ledger[k].out = r.out /\ ledger[k].mid = r.mid
        BY <1>3, <3>3
      <4>2. \E l \in 1..(n + 1) :
              /\ IdOf(ledger'[l]) = r.out.prod /\ ledger'[l].produced
              /\ ledger'[l].out = r.out /\ ledger'[l].mid = r.mid
        <5>1. ledger[k].out # None
          BY <1>8, <3>1, <4>1
        <5>2. PICK l \in 1..(n + 1) :
                /\ IdOf(ledger'[l]) = ledger[k].out.prod /\ ledger'[l].produced
                /\ ledger'[l].out = ledger[k].out /\ ledger'[l].mid = ledger[k].mid
          BY <1>7, <5>1
        <5> QED
          BY <4>1, <5>2
      <4> QED
        BY <1>8, <3>1, <4>2
    <3> QED
      BY <1>8, <3>1, <3>2, <3>3
  <2> QED
    BY <1>4, <2>1, <2>2
<1>9. Len(ledger') = n + 1
  BY <1>3
<1> QED
  BY ONLY <1>6, <1>8, <1>9 DEF ProducersSound, IdOf

\* ProducersSound is preserved by every append.
LEMMA ProducersAppend ==
  ASSUME WorkingInvariant, DiskInvariant, NEW p \in Proc, AppendStep(p)
  PROVE  ProducersSound'
<1>1. /\ TypeOK /\ LedgerSound /\ JobReady(p)
      /\ ProducersSound /\ CopiesKept /\ FilesKnown(p)
  BY DEF WorkingInvariant, DiskInvariant
<1>2. PICK r \in Record : /\ ledger' = Append(ledger, r) /\ IdentityFree(r)
                          /\ r.src = job[p].src /\ AppendedBy(p, r)
  BY <1>1, AppendedLine
<1>3. ASSUME pc[p] \in OutputSteps, Originates(p, r)
      PROVE  /\ r.out.prod.src = r.src /\ r.out.path[1] = r.out.date
             /\ IdOf(r) = r.out.prod /\ r.produced
  BY <1>1, <1>2, <1>3 DEF Originates, JobOutput, JobReady, FilesKnown
<1>4. ASSUME NEW i \in 1..Len(ledger), Repeats(r, i)
      PROVE  /\ r.out.prod.src = r.src /\ r.out.path[1] = r.out.date
             /\ ledger[i].out = r.out /\ ledger[i].mid = r.mid
  BY <1>1, <1>4 DEF Repeats, IsCurrent, ProducersSound
<1>5. AppendPrimary(p) \/ RedateAppend(p) => pc[p] \in OutputSteps
  BY DEF AppendPrimary, RedateAppend, Step, OutputSteps, MintedSteps, RedateSteps
<1>6. r.out # None =>
        /\ r.out.prod.src = r.src /\ r.out.path[1] = r.out.date
        /\ \/ IdOf(r) = r.out.prod /\ r.produced
           \/ \E i \in 1..Len(ledger) : ledger[i].out = r.out /\ ledger[i].mid = r.mid
  BY <1>2, <1>3, <1>4, <1>5 DEF AppendedBy
<1> QED
  BY <1>1, <1>2, <1>6, ProducersGrow

\* A processed copy, whole or cut short, is never removed.
LEMMA CopiesStay ==
  ASSUME TypeOK, NEW s \in Source, HasProcessedCopy(s), [Next]_vars
  PROVE  HasProcessedCopy(s)'
<1>1. places \in [Source -> SUBSET Places]
  BY DEF TypeOK
<1>2. CASE places' = places
  BY <1>2 DEF HasProcessedCopy
<1>3. ASSUME NEW x, NEW y, places' = [places EXCEPT ![x] = y],
             places[x] \cap {"processed", "truncated"} # {} =>
               y \cap {"processed", "truncated"} # {}
      PROVE  HasProcessedCopy(s)'
  BY <1>1, <1>3 DEF HasProcessedCopy
<1>4. ASSUME NEW p \in Proc,
             \/ Quarantine(p) \/ ArchiveCopy(p) \/ ReconcileMove(p)
             \/ RepairCopy(p) \/ RepairMove(p)
      PROVE  HasProcessedCopy(s)'
  <2>1. CASE Quarantine(p)
    BY <1>3, <2>1 DEF Quarantine
  <2>2. CASE ArchiveCopy(p)
    BY <1>3, <2>2 DEF ArchiveCopy, Archived
  <2>3. CASE ReconcileMove(p) \/ RepairMove(p)
    BY <1>2, <1>3, <2>3 DEF ReconcileMove, RepairMove, MoveToDone
  <2>4. CASE RepairCopy(p)
    BY <1>3, <2>4 DEF RepairCopy, Archived
  <2> QED
    BY <1>4, <2>1, <2>2, <2>3, <2>4
<1>5. ASSUME NEW p \in Proc, CutShort(p)
      PROVE  HasProcessedCopy(s)'
  <2>1. places' = places \/ \E x : places' = [places EXCEPT ![x] = (@ \ {"processed"}) \cup {"truncated"}]
    BY <1>5 DEF CutShort
  <2> QED
    BY <1>2, <1>3, <2>1
<1>6. ASSUME NEW p \in Proc, Start(p) \/ Advance(p) \/ Abort(p) \/ Crash(p)
      PROVE  HasProcessedCopy(s)'
  <2>1. CASE Start(p) \/ Acquire(p) \/ LockConflict(p) \/ Release(p)
    BY <1>2, <2>1, UnlockedFrame
  <2>2. CASE Ingest(p)
    BY <1>2, <1>4, <2>2
    DEF Ingest, PrepareDuplicate, PrepareFresh, PrepareUnreadable, PrepareGone,
        ProviderAccepted, ProviderRejected, RecordFailure, Mint, WriteSignals,
        WriteArtifact, AppendPrimary, VerifyLink, AppendCompleted, disk
  <2>3. CASE Reconcile(p)
    BY <1>2, <1>4, <2>3 DEF Reconcile, ReconcileScan, RepairDone, RepairAppend, disk
  <2>4. CASE RepairDate(p)
    BY <1>2, <2>4
    DEF RepairDate, RepairNothing, RepairTarget, RedateUnreadable, RedateWrite,
        RedateUnlink, RedateSignals, RedateAppend, RedateVerify, disk
  <2>5. CASE Abort(p) \/ Crash(p)
    BY <1>5, <2>5 DEF Abort, Crash
  <2> QED
    BY <1>6, <2>1, <2>2, <2>3, <2>4, <2>5 DEF Advance
<1>7. CASE RemoveStaleLock \/ UNCHANGED vars
  BY <1>2, <1>7 DEF RemoveStaleLock, vars, disk
<1>8. CASE \E x \in Source : Drop(x)
  BY <1>3, <1>8 DEF Drop
<1> QED
  BY <1>6, <1>7, <1>8 DEF Next

\* CopiesKept is preserved by every step.
LEMMA CopiesNext ==
  ASSUME WorkingInvariant, DiskInvariant, [Next]_vars
  PROVE  CopiesKept'
<1>1. /\ TypeOK /\ ledger \in Seq(Record) /\ CopiesKept /\ Len(ledger) \in Nat
      /\ \A p \in Proc : FilesKnown(p)
  BY DEF WorkingInvariant, DiskInvariant, TypeOK
<1>2. \A i \in 1..Len(ledger) : \A s \in Source :
        ledger[i].archived /\ ledger[i].src = s => HasProcessedCopy(s)'
  BY <1>1, CopiesStay DEF CopiesKept
<1>0. \A i \in 1..Len(ledger) : ledger[i].src \in Source
  <2> SUFFICES ASSUME NEW i \in 1..Len(ledger)
               PROVE  ledger[i].src \in Source
    OBVIOUS
  <2>1. ledger[i] \in Record
    BY <1>1
  <2> QED
    BY <2>1 DEF Record
<1>3. CASE ledger' = ledger
  BY <1>0, <1>2, <1>3 DEF CopiesKept, HasProcessedCopy
<1>4. ASSUME NEW p \in Proc, AppendStep(p)
      PROVE  CopiesKept'
  <2>1. PICK r \in Record : /\ ledger' = Append(ledger, r)
                            /\ r.archived => HasProcessedCopy(r.src)
    BY <1>1, <1>4, AppendedLine
  <2>2. /\ Len(ledger') = Len(ledger) + 1 /\ ledger'[Len(ledger) + 1] = r
        /\ \A i \in 1..Len(ledger) : ledger'[i] = ledger[i]
    BY <1>1, <2>1, AppendFacts
  <2>3. r.archived => HasProcessedCopy(r.src)'
    BY <1>1, <2>1, CopiesStay DEF Record
  <2>4. \A i \in 1..Len(ledger') : i \in 1..Len(ledger) \/ i = Len(ledger) + 1
    BY <1>1, <2>2
  <2> QED
    BY <1>0, <1>2, <2>2, <2>3, <2>4 DEF CopiesKept, HasProcessedCopy
<1>5. ASSUME NEW p \in Proc, Start(p) \/ Advance(p) \/ Abort(p) \/ Crash(p)
      PROVE  CopiesKept'
  BY <1>3, <1>4, <1>5, LedgerFrame
<1>6. CASE RemoveStaleLock \/ (\E s \in Source : Drop(s)) \/ UNCHANGED vars
  BY <1>3, <1>6 DEF RemoveStaleLock, Drop, vars, disk
<1> QED
  BY <1>5, <1>6 DEF Next

\* ProducersSound is preserved by every step.
LEMMA ProducersNext ==
  ASSUME WorkingInvariant, DiskInvariant, [Next]_vars
  PROVE  ProducersSound'
<1>1. CASE ledger' = ledger
  BY <1>1 DEF DiskInvariant, ProducersSound, IdOf
<1>2. ASSUME NEW p \in Proc, Start(p) \/ Advance(p) \/ Abort(p) \/ Crash(p)
      PROVE  ProducersSound'
  BY <1>1, <1>2, LedgerFrame, ProducersAppend
<1>3. CASE RemoveStaleLock \/ (\E s \in Source : Drop(s)) \/ UNCHANGED vars
  BY <1>1, <1>3 DEF RemoveStaleLock, Drop, vars, disk
<1> QED
  BY <1>2, <1>3 DEF Next

\* Outside these steps a process knows nothing of the files.
LEMMA FilesRest ==
  ASSUME NEW p \in Proc, pc'[p] \notin OutputSteps \cup {"repair_append"}
  PROVE  FilesKnown(p)'
  BY DEF FilesKnown, OutputSteps, MintedSteps, FiledSteps

\* An ingest and a date repair choose a name that begins with their date.
LEMMA FilesMint ==
  ASSUME WorkingInvariant, NEW p \in Proc, Mint(p) \/ RepairTarget(p)
  PROVE  FilesKnown(p)'
<1>1. pc \in [Proc -> Steps] /\ job \in [Proc -> Job] /\ job[p] \in Job
  BY DEF WorkingInvariant, TypeOK
<1>2. pc'[p] \in {"write_signals", "redate_write"}
  BY <1>1 DEF Mint, RepairTarget, Step
<1>3. PICK snap, prod, n :
        Local(p, [job[p] EXCEPT !.snap = snap, !.prod = prod, !.path = <<job[p].date, n>>])
  <2>1. CASE Mint(p)
    <3>1. PICK prod, n : Local(p, [job[p] EXCEPT !.prod = prod, !.path = <<job[p].date, n>>])
      BY <2>1 DEF Mint
    <3>2. [job[p] EXCEPT !.prod = prod, !.path = <<job[p].date, n>>] =
            [job[p] EXCEPT !.snap = job[p].snap, !.prod = prod, !.path = <<job[p].date, n>>]
      BY <1>1 DEF Job
    <3> QED
      BY <3>1, <3>2
  <2>2. CASE RepairTarget(p)
    BY <2>2 DEF RepairTarget
  <2> QED
    BY <2>1, <2>2
<1>4. job'[p].path = <<job[p].date, n>> /\ job'[p].date = job[p].date
  BY <1>1, <1>3 DEF Local, Job
<1> QED
  BY <1>2, <1>4 DEF FilesKnown, FiledSteps

\* The signals and the artifact are there once they are written.
LEMMA FilesWrite ==
  ASSUME WorkingInvariant, NEW p \in Proc, FilesKnown(p), WriteSignals(p) \/ WriteArtifact(p)
  PROVE  FilesKnown(p)'
<1>1. /\ pc \in [Proc -> Steps] /\ JobReady(p)
      /\ signals \in [Meeting -> [prod : RecordId, date : Date] \cup {None}]
  BY DEF WorkingInvariant, TypeOK
<1>2. CASE WriteSignals(p)
  <2>1. pc[p] = "write_signals" /\ pc'[p] = "write_artifact" /\ job' = job
    BY <1>1, <1>2 DEF WriteSignals, Step
  <2>2. <<job[p].src, job[p].date>> \in Meeting
    BY <1>1, <2>1 DEF JobReady, SourceSteps, DateSteps, FreshSteps, Meeting
  <2>3. signals'[<<job[p].src, job[p].date>>] = SignalsOf(job[p].prod, job[p].date)
    BY <1>1, <1>2, <2>2 DEF WriteSignals
  <2>4. job[p].path[1] = job[p].date
    BY <2>1 DEF FilesKnown, OutputSteps, MintedSteps
  <2> QED
    BY <2>1, <2>3, <2>4 DEF FilesKnown, FiledSteps, SignalsOf
<1>3. CASE WriteArtifact(p)
  <2>1. /\ pc[p] = "write_artifact" /\ pc'[p] = "append_primary"
        /\ job' = job /\ signals' = signals
    BY <1>1, <1>3 DEF WriteArtifact, Step
  <2>2. /\ job[p].path \in DOMAIN artifacts'
        /\ artifacts'[job[p].path] =
             ArtifactOf(<<job[p].src, job[p].date>>, job[p].prod, job[p].date)
    BY <1>3 DEF WriteArtifact, WithFile
  <2>3. /\ job[p].path[1] = job[p].date
        /\ signals[<<job[p].src, job[p].date>>] = SignalsOf(job[p].prod, job[p].date)
    BY <2>1 DEF FilesKnown, OutputSteps, MintedSteps
  <2> QED
    BY <2>1, <2>2, <2>3 DEF FilesKnown, FiledSteps, SignalsOf, ArtifactOf
<1> QED
  BY <1>2, <1>3

\* From its line on the source of an ingest has the outputs of its job.
LEMMA FilesFiled ==
  ASSUME WorkingInvariant, DiskInvariant, [Next]_vars, NEW p \in Proc,
         AppendPrimary(p) \/ VerifyLink(p) \/ ArchiveCopy(p) \/ ReconcileMove(p)
  PROVE  FilesKnown(p)'
<1>1. /\ TypeOK /\ LedgerSound /\ PrimaryStable /\ pc \in [Proc -> Steps]
      /\ job \in [Proc -> Job] /\ job[p] \in Job
      /\ JobReady(p) /\ WorkSound(p) /\ CopiesKept /\ FilesKnown(p)
  BY DEF WorkingInvariant, DiskInvariant, TypeOK
<1>2. CASE AppendPrimary(p)
  <2>1. pc[p] = "append_primary" /\ pc'[p] \in {"verify", "release"} /\ job' = job
    BY <1>1, <1>2 DEF AppendPrimary, Step
  <2>2. job[p].path[1] = job[p].date
    BY <1>1, <2>1 DEF FilesKnown, OutputSteps, MintedSteps
  <2>3. PICK r \in Record :
          /\ ledger' = Append(ledger, r) /\ r.src = job[p].src /\ LineFits(r)
          /\ AppendedBy(p, r)
    BY <1>1, <1>2, AppendedLine DEF AppendStep
  <2>4. r.mid = <<job[p].src, job[p].date>> /\ r.out = JobOutput(p)
    <3>1. \A from, to : Step(p, from, to) => from = "append_primary"
      BY <2>1 DEF Step
    <3> QED
      BY <2>3, <3>1
      DEF AppendedBy, Originates, RecordFailure, AppendCompleted, RepairAppend, RedateAppend
  <2>5. /\ Len(ledger') \in 1..Len(ledger') /\ ledger'[Len(ledger')] = r
        /\ IsLatest(Len(ledger), r.src, Len(ledger))'
    BY <1>1, <2>3, AppendFacts, FittingAppend DEF TypeOK
  <2>6. (\E i \in 1..Len(ledger) :
           /\ IsLatest(i, job[p].src, Len(ledger))
           /\ ledger[i].mid = <<job[p].src, job[p].date>> /\ ledger[i].out = JobOutput(p))'
    BY <2>1, <2>3, <2>4, <2>5 DEF IsLatest, JobOutput
  <2> QED
    BY <2>1, <2>2, <2>6 DEF FilesKnown, FiledSteps
<1>3. CASE VerifyLink(p) \/ ArchiveCopy(p) \/ ReconcileMove(p)
  <2>1. /\ pc[p] \in FiledSteps
        /\ pc'[p] \in {"archive", "move", "append_completed", "release"}
        /\ ledger' = ledger
    BY <1>1, <1>3 DEF VerifyLink, ArchiveCopy, ReconcileMove, Step, FiledSteps, disk
  <2>2. /\ job'[p].src = job[p].src /\ job'[p].date = job[p].date
        /\ job'[p].path = job[p].path /\ job'[p].prod = job[p].prod
    BY <1>1, <1>3 DEF VerifyLink, ArchiveCopy, ReconcileMove, Local, Job
  <2>3. /\ job[p].path[1] = job[p].date
        /\ \E i \in 1..Len(ledger) :
             /\ IsLatest(i, job[p].src, Len(ledger))
             /\ ledger[i].mid = <<job[p].src, job[p].date>> /\ ledger[i].out = JobOutput(p)
    BY <1>1, <2>1 DEF FilesKnown, OutputSteps
  <2>4. pc'[p] = "append_completed" => HasProcessedCopy(job[p].src)'
    <3> SUFFICES ASSUME pc'[p] = "append_completed"
                 PROVE  HasProcessedCopy(job[p].src)'
      OBVIOUS
    <3>1. pc[p] = "move"
      BY <1>1, <1>3 DEF VerifyLink, ArchiveCopy, ReconcileMove, Step
    <3>2. HasProcessedCopy(job[p].src) /\ job[p].src \in Source
      BY <1>1, <3>1 DEF WorkSound, JobReady, SourceSteps, FiledSteps
    <3>3. PICK s \in Source : s = job[p].src
      BY <3>2
    <3>4. HasProcessedCopy(s)'
      BY <1>1, <3>2, <3>3, CopiesStay
    <3> QED
      BY <2>2, <3>3, <3>4 DEF HasProcessedCopy
  <2> QED
    BY <2>1, <2>2, <2>3, <2>4 DEF FilesKnown, JobOutput, IsLatest, FiledSteps
<1> QED
  BY <1>2, <1>3

\* A source on the list of the duplicate repair has a copy when its line is due.
LEMMA FilesRepair ==
  ASSUME WorkingInvariant, [Next]_vars, NEW p \in Proc, RepairMove(p)
  PROVE  FilesKnown(p)'
<1>1. /\ TypeOK /\ pc \in [Proc -> Steps] /\ job \in [Proc -> Job] /\ job[p] \in Job
      /\ JobReady(p) /\ WorkSound(p)
  BY DEF WorkingInvariant, TypeOK
<1>2. pc[p] = "repair_move" /\ pc'[p] \in {"repair_append", "repair_copy"}
  BY <1>1 DEF RepairMove, Step
<1>3. HasProcessedCopy(job[p].src) /\ job[p].src \in Source
  BY <1>1, <1>2 DEF WorkSound, JobReady, SourceSteps, RepairSteps
<1>4. job'[p].src = job[p].src
  BY <1>1 DEF RepairMove, Local, Job
<1>5. PICK s \in Source : s = job[p].src
  BY <1>3
<1>6. HasProcessedCopy(s)'
  BY <1>1, <1>3, <1>5, CopiesStay
<1>7. HasProcessedCopy(job[p].src)'
  BY <1>4, <1>5, <1>6 DEF HasProcessedCopy
<1> QED
  BY <1>2, <1>7 DEF FilesKnown, OutputSteps, MintedSteps, FiledSteps, RedateSteps

\* A date repair keeps its name until its line.
LEMMA FilesRedate ==
  ASSUME WorkingInvariant, NEW p \in Proc, FilesKnown(p),
         RedateWrite(p) \/ RedateUnlink(p) \/ RedateSignals(p)
  PROVE  FilesKnown(p)'
<1>1. pc \in [Proc -> Steps]
  BY DEF WorkingInvariant, TypeOK
<1>2. job' = job /\ pc[p] \in RedateSteps /\ pc'[p] \in RedateSteps
  BY <1>1 DEF RedateWrite, RedateUnlink, RedateSignals, Step, RedateSteps
<1>3. job[p].path[1] = job[p].date
  BY <1>2 DEF FilesKnown, OutputSteps, MintedSteps
<1> QED
  BY <1>2, <1>3 DEF FilesKnown, FiledSteps, RedateSteps

\* FilesKnown is preserved by every step.
LEMMA FilesNext ==
  ASSUME WorkingInvariant, DiskInvariant, [Next]_vars
  PROVE  \A q \in Proc : FilesKnown(q)'
<1>1. /\ TypeOK /\ pc \in [Proc -> Steps] /\ job \in [Proc -> Job]
      /\ \A q \in Proc : FilesKnown(q) /\ JobReady(q)
  BY DEF WorkingInvariant, DiskInvariant, TypeOK
<1> SUFFICES ASSUME NEW q \in Proc
             PROVE  FilesKnown(q)'
  OBVIOUS
<1>2. CASE pc'[q] \notin OutputSteps \cup {"repair_append"}
  BY <1>2, FilesRest
<1>3. ASSUME pc'[q] = pc[q], job'[q] = job[q], ledger' = ledger, artifacts' = artifacts,
             signals' = signals, \A s \in Source : HasProcessedCopy(s) => HasProcessedCopy(s)'
      PROVE  FilesKnown(q)'
  <2>1. pc[q] \in {"append_completed", "repair_append"} => job[q].src \in Source
    BY <1>1 DEF JobReady, SourceSteps, FiledSteps, RepairSteps
  <2>2. pc[q] \in {"append_completed", "repair_append"} => HasProcessedCopy(job[q].src)'
    BY <1>1, <1>3, <2>1 DEF FilesKnown, HasProcessedCopy
  <2>3. (/\ pc[q] \in OutputSteps => job[q].path[1] = job[q].date
         /\ pc[q] \in {"write_artifact", "append_primary"} =>
              signals[<<job[q].src, job[q].date>>] = SignalsOf(job[q].prod, job[q].date)
         /\ pc[q] = "append_primary" =>
              /\ job[q].path \in DOMAIN artifacts
              /\ artifacts[job[q].path] =
                   ArtifactOf(<<job[q].src, job[q].date>>, job[q].prod, job[q].date))'
    BY <1>1, <1>3 DEF FilesKnown, SignalsOf, ArtifactOf
  <2>4. (pc[q] \in FiledSteps =>
           \E i \in 1..Len(ledger) :
             /\ IsLatest(i, job[q].src, Len(ledger))
             /\ ledger[i].mid = <<job[q].src, job[q].date>> /\ ledger[i].out = JobOutput(q))'
    <3>1. JobOutput(q)' = JobOutput(q)
      BY <1>3 DEF JobOutput
    <3>2. \A i : IsLatest(i, job[q].src, Len(ledger)) => IsLatest(i, job[q].src, Len(ledger))'
      BY <1>3 DEF IsLatest
    <3> QED
      BY <1>1, <1>3, <3>1, <3>2 DEF FilesKnown
  <2> QED
    BY <1>3, <2>2, <2>3, <2>4 DEF FilesKnown
<1>4. \A s \in Source : HasProcessedCopy(s) => HasProcessedCopy(s)'
  BY <1>1, CopiesStay
<1>5. ASSUME NEW p \in Proc \ {q}, Start(p) \/ Advance(p) \/ Abort(p) \/ Crash(p)
      PROVE  FilesKnown(q)'
  <2>1. pc'[q] = pc[q] /\ job'[q] = job[q]
    BY <1>1, <1>5, OthersKept
  <2>2. CASE Locked(q)
    BY <1>3, <1>4, <1>5, <2>2, OthersFrame
  <2>3. CASE ~Locked(q)
    BY <1>2, <2>1, <2>3 DEF Locked, OutputSteps, MintedSteps, FiledSteps, RedateSteps
  <2> QED
    BY <2>2, <2>3
<1>6. ASSUME Start(q) \/ Advance(q) \/ Abort(q) \/ Crash(q)
      PROVE  FilesKnown(q)'
  <2>1. CASE Start(q) \/ LockConflict(q) \/ Release(q) \/ Abort(q) \/ Crash(q)
    <3>1. pc'[q] \in {"idle", "acquire", "release"}
      BY <1>1, <2>1 DEF Start, StartIngest, StartRepairDate, StartReconcile, LockConflict,
                        Release, Abort, Crash, Step
    <3> QED
      BY <1>2, <3>1 DEF OutputSteps, MintedSteps, FiledSteps, RedateSteps
  <2>2. CASE Acquire(q)
    <3>1. job[q].op \in {"ingest", "reconcile", "repair-date"}
      <4>1. pc[q] = "acquire"
        BY <2>2 DEF Acquire, Step
      <4> QED
        BY <1>1, <4>1 DEF JobReady, Job
    <3>2. pc'[q] \in {"prepare", "scan", "target"}
      BY <1>1, <2>2, <3>1 DEF Acquire, Step
    <3> QED
      BY <1>2, <3>2 DEF OutputSteps, MintedSteps, FiledSteps, RedateSteps
  <2>3. CASE Ingest(q)
    <3>1. CASE \/ PrepareDuplicate(q) \/ PrepareFresh(q) \/ PrepareUnreadable(q)
               \/ PrepareGone(q) \/ Quarantine(q) \/ ProviderAccepted(q)
               \/ ProviderRejected(q) \/ RecordFailure(q) \/ AppendCompleted(q)
      <4>1. pc'[q] \in {"repair_copy", "extract", "quarantine", "fail", "release", "mint"}
        BY <1>1, <3>1
        DEF PrepareDuplicate, PrepareFresh, PrepareUnreadable, PrepareGone, Quarantine,
            ProviderAccepted, ProviderRejected, RecordFailure, AppendCompleted, Step
      <4> QED
        BY <1>2, <4>1 DEF OutputSteps, MintedSteps, FiledSteps, RedateSteps
    <3> QED
      BY <1>1, <2>3, <3>1, FilesMint, FilesWrite, FilesFiled DEF Ingest
  <2>4. CASE Reconcile(q)
    <3>1. CASE ReconcileScan(q) \/ RepairDone(q) \/ RepairCopy(q) \/ RepairAppend(q)
      <4>1. pc'[q] \in {"repair_copy", "repair_move", "release"}
        BY <1>1, <3>1 DEF ReconcileScan, RepairDone, RepairCopy, RepairAppend, Step
      <4> QED
        BY <1>2, <4>1 DEF OutputSteps, MintedSteps, FiledSteps, RedateSteps
    <3> QED
      BY <2>4, <3>1, FilesRepair DEF Reconcile
  <2>5. CASE RepairDate(q)
    <3>1. CASE RepairNothing(q) \/ RedateUnreadable(q) \/ RedateAppend(q) \/ RedateVerify(q)
      <4>1. pc'[q] \in {"redate_verify", "release"}
        BY <1>1, <3>1 DEF RepairNothing, RedateUnreadable, RedateAppend, RedateVerify, Step
      <4> QED
        BY <1>2, <4>1 DEF OutputSteps, MintedSteps, FiledSteps, RedateSteps
    <3> QED
      BY <1>1, <2>5, <3>1, FilesMint, FilesRedate DEF RepairDate
  <2> QED
    BY <1>6, <2>1, <2>2, <2>3, <2>4, <2>5 DEF Advance
<1>7. CASE RemoveStaleLock \/ (\E s \in Source : Drop(s)) \/ UNCHANGED vars
  BY <1>3, <1>4, <1>7 DEF RemoveStaleLock, Drop, vars, disk
<1> QED
  BY <1>5, <1>6, <1>7 DEF Next

\* After an append the current records are the new line and the old ones of the
\* other sources.
LEMMA CurrentAfter ==
  ASSUME TypeOK, NEW r \in Record, ledger' = Append(ledger, r), NEW i, IsCurrent(i)'
  PROVE  \/ ledger'[i] = r
         \/ IsCurrent(i) /\ ledger'[i] = ledger[i] /\ ledger[i].src # r.src
<1>1. ledger \in Seq(Record) /\ Len(ledger) \in Nat
  BY DEF TypeOK
<1>2. /\ Len(ledger') = Len(ledger) + 1 /\ ledger'[Len(ledger) + 1] = r
      /\ \A k \in 1..Len(ledger) : ledger'[k] = ledger[k]
  BY <1>1, AppendFacts
<1>3. /\ i \in 1..Len(ledger') /\ ledger'[i].out # None
      /\ \A j \in (i + 1)..Len(ledger') : ledger'[j].src # ledger'[i].src
  BY DEF IsCurrent, IsLatest
<1>4. CASE i = Len(ledger) + 1
  BY <1>2, <1>4
<1>5. CASE i \in 1..Len(ledger)
  <2>1. ledger'[i] = ledger[i]
    BY <1>2, <1>5
  <2>2. Len(ledger) + 1 \in (i + 1)..Len(ledger')
    BY <1>1, <1>2, <1>5
  <2>3. \A j \in (i + 1)..Len(ledger) :
          j \in (i + 1)..Len(ledger') /\ j \in 1..Len(ledger)
    BY <1>1, <1>2, <1>5
  <2>4. IsLatest(i, ledger[i].src, Len(ledger))
    BY <1>2, <1>3, <1>5, <2>1, <2>3 DEF IsLatest
  <2> QED
    BY <1>2, <1>3, <1>5, <2>1, <2>2, <2>4 DEF IsCurrent
<1> QED
  BY <1>1, <1>2, <1>3, <1>4, <1>5

\* A process at work on a date repair was so before, or writes its artifact.
LEMMA RedatingBefore ==
  ASSUME WorkingInvariant, [Next]_vars, NEW q \in Proc, Redating(q)'
  PROVE  job'[q] = job[q] /\ (Redating(q) \/ RedateWrite(q))
<1>1. /\ TypeOK /\ pc \in [Proc -> Steps] /\ JobReady(q)
  BY DEF WorkingInvariant, TypeOK
<1>2. CASE pc'[q] = pc[q] /\ job'[q] = job[q]
  BY <1>2 DEF Redating
<1>3. ASSUME NEW p \in Proc \ {q}, Start(p) \/ Advance(p) \/ Abort(p) \/ Crash(p)
      PROVE  pc'[q] = pc[q] /\ job'[q] = job[q]
  BY <1>1, <1>3, OthersKept
<1>4. ASSUME Start(q) \/ Advance(q) \/ Abort(q) \/ Crash(q)
      PROVE  job'[q] = job[q] /\ (Redating(q) \/ RedateWrite(q))
  <2>1. \/ Mint(q) \/ RepairTarget(q)
        \/ WriteSignals(q) \/ WriteArtifact(q)
        \/ RedateWrite(q) \/ RedateUnlink(q) \/ RedateSignals(q)
    BY <1>1, <1>4, MintedBy DEF Redating, MintedSteps, RedateSteps
  <2>2. RedateWrite(q) \/ RedateUnlink(q) \/ RedateSignals(q)
    BY <1>1, <2>1 DEF Mint, RepairTarget, WriteSignals, WriteArtifact, Step, Redating
  <2> QED
    BY <2>2 DEF RedateWrite, RedateUnlink, RedateSignals, Redating, Step
<1>5. CASE RemoveStaleLock \/ (\E s \in Source : Drop(s)) \/ UNCHANGED vars
  BY <1>2, <1>5 DEF RemoveStaleLock, Drop, vars
<1> QED
  BY <1>2, <1>3, <1>4, <1>5 DEF Next

\* Nobody comes to name or to remove what a stopped repair has left.
LEMMA LeftStays ==
  ASSUME WorkingInvariant, PathsFree, DiskInvariant, [Next]_vars,
         NEW f \in DOMAIN artifacts, LeftByRepair(f)
  PROVE  f \in DOMAIN artifacts' /\ LeftByRepair(f)'
<1>1. /\ TypeOK /\ LedgerSound /\ PrimaryStable
      /\ CopiesKept /\ \A p \in Proc : JobReady(p) /\ FilesKnown(p) /\ PathFree(p)
  BY DEF WorkingInvariant, DiskInvariant, PathsFree
<1>2. /\ artifacts[f].prod \in RecordId /\ artifacts[f].prod.event = "date_repaired"
      /\ \A p \in Proc : Redating(p) => job[p].path # f
      /\ \A i : IsCurrent(i) => ledger[i].out.path # f
  BY DEF LeftByRepair, IsCurrent
<1>3. ASSUME NEW s, NEW k \in 1..Len(ledger), IsTarget(k, s, Len(ledger))
      PROVE  ledger[k].out.path # f
  BY <1>1, <1>2, <1>3, TargetCurrent
<1>4. f \in DOMAIN artifacts' /\ artifacts'[f] = artifacts[f]
  <2>1. ~BeingRedated(f)
    BY <1>3 DEF BeingRedated
  <2> QED
    BY <2>1, OutputsNext DEF vars
<1>5. ASSUME NEW p \in Proc, Redating(p)'
      PROVE  job'[p].path # f
  <2>1. job'[p] = job[p] /\ (Redating(p) \/ RedateWrite(p))
    BY <1>5, RedatingBefore
  <2>2. ASSUME RedateWrite(p)
        PROVE  job[p].path # f
    <3>1. pc[p] = "redate_write"
      BY <2>2 DEF RedateWrite, Step
    <3> QED
      BY <1>1, <1>3, <3>1 DEF PathFree
  <2> QED
    BY <1>2, <2>1, <2>2
<1>6. ASSUME NEW i, IsCurrent(i)'
      PROVE  ledger'[i].out.path # f
  <2>1. CASE ledger' = ledger
    BY <1>2, <1>6, <2>1 DEF IsCurrent, IsLatest
  <2>2. ASSUME NEW p \in Proc, AppendStep(p)
        PROVE  ledger'[i].out.path # f
    <3>1. PICK r \in Record : /\ ledger' = Append(ledger, r) /\ r.src = job[p].src
                              /\ AppendedBy(p, r)
      BY <1>1, <2>2, AppendedLine
    <3>2. CASE IsCurrent(i) /\ ledger'[i] = ledger[i]
      BY <1>2, <3>2
    <3>3. CASE ledger'[i] = r
      <4>1. r.out # None
        BY <1>6, <3>3 DEF IsCurrent
      <4>2. ASSUME NEW k \in 1..Len(ledger), Repeats(r, k)
            PROVE  r.out.path # f
        BY <1>2, <4>2 DEF Repeats
      <4>3. ASSUME AppendPrimary(p), Originates(p, r)
            PROVE  r.out.path # f
        <5>1. pc[p] = "append_primary"
          BY <4>3 DEF AppendPrimary, Step
        <5>2. artifacts[job[p].path].prod = job[p].prod
          <6>1. FilesKnown(p)
            BY <1>1
          <6>2. artifacts[job[p].path] =
                  ArtifactOf(<<job[p].src, job[p].date>>, job[p].prod, job[p].date)
            BY <5>1, <6>1 DEF FilesKnown
          <6> QED
            BY <6>2 DEF ArtifactOf
        <5>3. job[p].prod.event = "primary_artifacts_ready"
          BY <1>1, <5>1 DEF JobReady, MintedSteps, RedateSteps
        <5> QED
          BY <1>2, <4>3, <5>2, <5>3 DEF Originates, JobOutput
      <4>4. ASSUME RedateAppend(p), Originates(p, r)
            PROVE  r.out.path # f
        BY <1>2, <4>4 DEF RedateAppend, Step, Redating, Originates, JobOutput
      <4> QED
        BY <3>1, <3>3, <4>1, <4>2, <4>3, <4>4 DEF AppendedBy
    <3> QED
      BY <1>1, <1>6, <3>1, <3>2, <3>3, CurrentAfter
  <2>3. ASSUME NEW p \in Proc, Start(p) \/ Advance(p) \/ Abort(p) \/ Crash(p)
        PROVE  ledger'[i].out.path # f
    BY <2>1, <2>2, <2>3, LedgerFrame
  <2>4. CASE RemoveStaleLock \/ (\E s \in Source : Drop(s)) \/ UNCHANGED vars
    BY <2>1, <2>4 DEF RemoveStaleLock, Drop, vars, disk
  <2> QED
    BY <2>3, <2>4 DEF Next
<1>7. \A p \in Proc : Redating(p)' => job'[p].path # f
  BY <1>5
<1>8. \A i \in 1..Len(ledger') : IsCurrent(i)' => ledger'[i].out.path # f
  BY <1>6
<1> QED
  BY <1>2, <1>4, <1>7, <1>8 DEF LeftByRepair, IsCurrent, Redating

\* Repairs that are settled after a step were settled before it.
LEMMA SettledBefore ==
  ASSUME WorkingInvariant, PathsFree, DiskInvariant, [Next]_vars, RepairsSettled'
  PROVE  RepairsSettled /\ DiskSound
<1>1. RepairsSettled
  <2> SUFFICES ASSUME NEW f \in DOMAIN artifacts, LeftByRepair(f)
               PROVE  FALSE
    BY DEF RepairsSettled
  <2>1. f \in DOMAIN artifacts' /\ LeftByRepair(f)'
    BY LeftStays
  <2> QED
    BY <2>1 DEF RepairsSettled
<1> QED
  BY <1>1 DEF DiskInvariant

\* While one process works nobody else repairs a date.
LEMMA OthersIdle ==
  ASSUME WorkingInvariant, NEW p \in Proc, Locked(p),
         Start(p) \/ Advance(p) \/ Abort(p) \/ Crash(p), NEW q \in Proc \ {p}
  PROVE  pc[q] \notin RedateSteps /\ pc'[q] \notin RedateSteps
<1>1. ~Locked(q) /\ pc'[q] = pc[q]
  BY OthersAtRest, OthersKept DEF WorkingInvariant
<1> QED
  BY <1>1 DEF Locked, RedateSteps

\* A step that leaves the files and the ledger alone keeps them sound, unless it
\* stops a date repair half way.
LEMMA DiskQuiet ==
  ASSUME DiskSound, ledger' = ledger, artifacts' = artifacts, signals' = signals,
         \A q \in Proc : \/ pc'[q] = pc[q] /\ job'[q] = job[q]
                         \/ ~Redating(q) /\ pc'[q] \notin RedateSteps
  PROVE  DiskSound'
<1>1. ASSUME NEW i
      PROVE  IsCurrent(i)' <=> IsCurrent(i)
  BY DEF IsCurrent, IsLatest
<1>2. ASSUME NEW i \in 1..Len(ledger), IsCurrent(i)
      PROVE  OutputsOnDisk(i)'
  <2>1. OutputsOnDisk(i)
    BY <1>2 DEF DiskSound
  <2>2. ASSUME NEW q \in Proc, pc[q] \in {"redate_signals", "redate_append"}
        PROVE  pc'[q] = pc[q] /\ job'[q] = job[q]
    BY <2>2 DEF Redating
  <2> QED
    BY <2>1, <2>2 DEF OutputsOnDisk, ArtifactOf, SignalsOf
<1>3. ASSUME NEW q \in Proc
      PROVE  RepairKnown(q)'
  <2>1. RepairKnown(q)
    BY DEF DiskSound
  <2>2. CASE pc'[q] \notin RedateSteps
    BY <2>2 DEF RepairKnown, Redating, RedateSteps
  <2>3. CASE pc'[q] = pc[q] /\ job'[q] = job[q]
    <3>1. pc[q] = "redate_write" => job'[q].path \notin DOMAIN artifacts
      BY <2>1, <2>3 DEF RepairKnown
    <3>2. ASSUME Redating(q)'
          PROVE  /\ job'[q].path \in DOMAIN artifacts
                 /\ \E i \in 1..Len(ledger) :
                      /\ IsCurrent(i)' /\ ledger[i].src = job'[q].src
                      /\ ledger[i].out.path # job'[q].path
                      /\ artifacts[job'[q].path] =
                           ArtifactOf(ledger[i].mid, job'[q].prod, job'[q].date)
                      /\ pc'[q] = "redate_append" =>
                           signals[ledger[i].mid] = SignalsOf(job'[q].prod, job'[q].date)
      <4>1. Redating(q)
        BY <2>3, <3>2 DEF Redating
      <4> QED
        BY <1>1, <2>1, <2>3, <4>1 DEF RepairKnown
    <3> QED
      BY <2>3, <3>1, <3>2 DEF RepairKnown, ArtifactOf, SignalsOf
  <2> QED
    BY <2>2, <2>3
<1> QED
  BY <1>1, <1>2, <1>3 DEF DiskSound

\* A step outside the date repair that keeps the files of the current records
\* keeps them sound.
LEMMA DiskCalm ==
  ASSUME DiskSound, ledger' = ledger,
         \A q \in Proc : ~Redating(q) /\ pc'[q] \notin RedateSteps,
         \A i \in 1..Len(ledger) : IsCurrent(i) =>
           /\ ledger[i].out.path \in DOMAIN artifacts =>
                /\ ledger[i].out.path \in DOMAIN artifacts'
                /\ artifacts'[ledger[i].out.path] = artifacts[ledger[i].out.path]
           /\ signals'[ledger[i].mid] = signals[ledger[i].mid]
  PROVE  DiskSound'
<1>1. ASSUME NEW i \in 1..Len(ledger), IsCurrent(i)'
      PROVE  OutputsOnDisk(i)'
  <2>1. IsCurrent(i)
    BY <1>1 DEF IsCurrent, IsLatest
  <2>2. /\ ledger[i].out.path \in DOMAIN artifacts
        /\ artifacts[ledger[i].out.path] =
             ArtifactOf(ledger[i].mid, ledger[i].out.prod, ledger[i].out.date)
        /\ signals[ledger[i].mid] = SignalsOf(ledger[i].out.prod, ledger[i].out.date)
    BY <2>1 DEF DiskSound, OutputsOnDisk, Redating
  <2> QED
    BY <2>1, <2>2 DEF OutputsOnDisk, ArtifactOf, SignalsOf
<1>2. ASSUME NEW q \in Proc
      PROVE  RepairKnown(q)'
  BY DEF RepairKnown, Redating, RedateSteps
<1> QED
  BY <1>1, <1>2 DEF DiskSound

\* An append keeps the files sound when the outputs of its line are on disk.
LEMMA DiskAppend ==
  ASSUME TypeOK, DiskSound, NEW r \in Record, ledger' = Append(ledger, r),
         artifacts' = artifacts, signals' = signals,
         \A q \in Proc : /\ Redating(q) => job[q].src = r.src
                         /\ pc'[q] \notin RedateSteps,
         r.out # None =>
           /\ r.out.path \in DOMAIN artifacts
           /\ artifacts[r.out.path] = ArtifactOf(r.mid, r.out.prod, r.out.date)
           /\ signals[r.mid] = SignalsOf(r.out.prod, r.out.date)
  PROVE  DiskSound'
<1>1. ASSUME NEW i \in 1..Len(ledger'), IsCurrent(i)'
      PROVE  OutputsOnDisk(i)'
  <2>1. CASE ledger'[i] = r
    <3>1. r.out # None
      BY <1>1, <2>1 DEF IsCurrent
    <3> QED
      BY <2>1, <3>1 DEF OutputsOnDisk, ArtifactOf, SignalsOf
  <2>2. CASE IsCurrent(i) /\ ledger'[i] = ledger[i] /\ ledger[i].src # r.src
    <3>1. i \in 1..Len(ledger) /\ OutputsOnDisk(i)
      BY <2>2 DEF DiskSound, IsCurrent
    <3>2. /\ ledger[i].out.path \in DOMAIN artifacts
          /\ artifacts[ledger[i].out.path] =
               ArtifactOf(ledger[i].mid, ledger[i].out.prod, ledger[i].out.date)
          /\ signals[ledger[i].mid] = SignalsOf(ledger[i].out.prod, ledger[i].out.date)
      BY <2>2, <3>1 DEF OutputsOnDisk, Redating
    <3> QED
      BY <2>2, <3>2 DEF OutputsOnDisk, ArtifactOf, SignalsOf
  <2> QED
    BY <1>1, <2>1, <2>2, CurrentAfter
<1>2. ASSUME NEW q \in Proc
      PROVE  RepairKnown(q)'
  BY DEF RepairKnown, Redating, RedateSteps
<1> QED
  BY <1>1, <1>2 DEF DiskSound

\* An ingest writes its signals and its artifact next to those of the records.
LEMMA DiskWrite ==
  ASSUME WorkingInvariant, PathsFree, DiskInvariant, DiskSound, NEW p \in Proc,
         WriteSignals(p) \/ WriteArtifact(p)
  PROVE  DiskSound'
<1>1. /\ TypeOK /\ LedgerSound /\ pc \in [Proc -> Steps] /\ JobReady(p) /\ WorkSound(p)
      /\ PathFree(p)
      /\ signals \in [Meeting -> [prod : RecordId, date : Date] \cup {None}]
  BY DEF WorkingInvariant, PathsFree, TypeOK
<1>2. /\ pc[p] \in {"write_signals", "write_artifact"}
      /\ pc'[p] \in {"write_artifact", "append_primary"}
      /\ ledger' = ledger /\ Locked(p)
  BY <1>1 DEF WriteSignals, WriteArtifact, Step, Locked
<1>3. \A q \in Proc : ~Redating(q) /\ pc'[q] \notin RedateSteps
  <2>1. Advance(p)
    BY DEF Advance, Ingest
  <2>2. \A q \in Proc \ {p} : pc[q] \notin RedateSteps /\ pc'[q] \notin RedateSteps
    BY <1>2, <2>1, OthersIdle
  <2> QED
    BY <1>2, <2>2 DEF Redating, RedateSteps
<1>4. CASE WriteSignals(p)
  <2>1. artifacts' = artifacts
    BY <1>4 DEF WriteSignals
  <2>2. ASSUME NEW i \in 1..Len(ledger), IsCurrent(i)
        PROVE  signals'[ledger[i].mid] = signals[ledger[i].mid]
    <3>1. ledger[i].mid \in Meeting /\ ledger[i].mid[1] = ledger[i].src
      BY <1>1, <2>2 DEF LedgerSound, IsCurrent
    <3>2. HasPrimaryArtifacts(ledger[i])
      BY <1>1, <2>2 DEF LedgerSound, IsCurrent, HasPrimaryArtifacts
    <3>3. ~Primary(job[p].src)
      BY <1>2, <1>1 DEF WorkSound, FreshSteps
    <3>4. ledger[i].src # job[p].src
      BY <2>2, <3>2, <3>3 DEF Primary, PrimaryAt, IsCurrent
    <3>5. ledger[i].mid # <<job[p].src, job[p].date>>
      BY <3>1, <3>4
    <3> QED
      BY <1>1, <1>4, <3>1, <3>5 DEF WriteSignals
  <2> QED
    BY <1>2, <1>3, <2>1, <2>2, DiskCalm
<1>5. CASE WriteArtifact(p)
  <2>1. signals' = signals /\ pc[p] = "write_artifact"
    BY <1>5 DEF WriteArtifact, Step
  <2>2. ASSUME NEW f \in DOMAIN artifacts
        PROVE  f \in DOMAIN artifacts' /\ artifacts'[f] = artifacts[f]
    <3>1. f # job[p].path
      BY <1>1, <2>1, <2>2 DEF PathFree
    <3> QED
      BY <1>5, <3>1, OthersUntouched DEF WriteArtifact
  <2> QED
    BY <1>2, <1>3, <2>1, <2>2, DiskCalm
<1> QED
  BY <1>4, <1>5

\* A fault leaves the files of the records alone, unless it stops a date repair
\* half way.
LEMMA DiskFault ==
  ASSUME WorkingInvariant, PathsFree, DiskInvariant, DiskSound, NEW p \in Proc,
         Abort(p) \/ Crash(p), [Next]_vars, RepairsSettled'
  PROVE  DiskSound'
<1>1. /\ TypeOK /\ LedgerSound /\ pc \in [Proc -> Steps] /\ job \in [Proc -> Job]
      /\ JobReady(p) /\ PathFree(p) /\ RepairKnown(p)
  BY DEF WorkingInvariant, PathsFree, TypeOK, DiskSound
<1>2. /\ Locked(p) /\ pc'[p] \in {"release", "idle"} /\ CutShort(p)
      /\ ledger' = ledger /\ signals' = signals
  BY <1>1 DEF Abort, Crash, Step
<1>3. \A q \in Proc \ {p} : pc[q] \notin RedateSteps /\ pc'[q] \notin RedateSteps
  BY <1>2, OthersIdle
<1>4. CASE Redating(p)
  <2>0. PICK f : f = job[p].path
    OBVIOUS
  <2>1. artifacts' = artifacts
    BY <1>2, <1>4 DEF CutShort, Redating
  <2>2. f \in DOMAIN artifacts
    BY <1>1, <1>4, <2>0 DEF RepairKnown
  <2>3. PICK i \in 1..Len(ledger) :
          /\ IsCurrent(i) /\ ledger[i].src = job[p].src /\ ledger[i].out.path # f
          /\ artifacts[f] = ArtifactOf(ledger[i].mid, job[p].prod, job[p].date)
    BY <1>1, <1>4, <2>0 DEF RepairKnown
  <2>4. artifacts[f].prod \in RecordId /\ artifacts[f].prod.event = "date_repaired"
    <3>1. artifacts[f].prod = job[p].prod
      BY <2>3 DEF ArtifactOf
    <3> QED
      BY <1>1, <1>4, <3>1
      DEF JobReady, Redating, OutputSteps, MintedSteps, RedateSteps
  <2>5. \A q \in Proc : ~Redating(q)'
    BY <1>2, <1>3 DEF Redating, RedateSteps
  <2>6. ASSUME NEW k \in 1..Len(ledger), IsCurrent(k)
        PROVE  ledger[k].out.path # f
    <3>1. CASE ledger[k].src = job[p].src
      <4>1. k = i
        BY <1>1, <2>3, <2>6, <3>1, CurrentUnique DEF IsCurrent
      <4> QED
        BY <2>3, <4>1
    <3>2. CASE ledger[k].src # job[p].src
      <4>1. \A q \in Proc : pc[q] \in RedateSteps => job[q].src # ledger[k].src
        BY <1>3, <3>2
      <4>2. artifacts[ledger[k].out.path] =
              ArtifactOf(ledger[k].mid, ledger[k].out.prod, ledger[k].out.date)
        BY <2>6, <4>1 DEF DiskSound, OutputsOnDisk, RedateSteps
      <4>3. ledger[k].out.prod.src = ledger[k].src
        BY <2>6 DEF DiskInvariant, ProducersSound, IsCurrent
      <4>4. artifacts[ledger[k].out.path].prod.src # job[p].src
        BY <3>2, <4>2, <4>3 DEF ArtifactOf
      <4>5. artifacts[f].prod.src = job[p].src
        BY <1>1, <1>4, <2>3
        DEF ArtifactOf, JobReady, Redating, OutputSteps, MintedSteps, RedateSteps
      <4> QED
        BY <4>4, <4>5
    <3> QED
      BY <3>1, <3>2
  <2>7. \A k \in 1..Len(ledger) : IsCurrent(k)' => ledger[k].out.path # f
    BY <1>2, <2>6 DEF IsCurrent, IsLatest
  <2>8. LeftByRepair(f)'
    BY <1>2, <2>1, <2>4, <2>5, <2>7 DEF LeftByRepair, IsCurrent
  <2> QED
    BY <2>1, <2>2, <2>8 DEF RepairsSettled
<1>5. CASE ~Redating(p)
  <2>1. \A q \in Proc : ~Redating(q) /\ pc'[q] \notin RedateSteps
    BY <1>2, <1>3, <1>5 DEF Redating, RedateSteps
  <2>2. CASE artifacts' = artifacts
    BY <1>2, <2>1, <2>2, DiskCalm
  <2>3. CASE /\ pc[p] \in {"write_artifact", "redate_write"}
             /\ artifacts' = WithFile(job[p].path, PartialFile)
    <3>1. job[p].path \notin DOMAIN artifacts
      BY <1>1, <2>3 DEF PathFree, RepairKnown
    <3>2. ASSUME NEW g \in DOMAIN artifacts
          PROVE  g \in DOMAIN artifacts' /\ artifacts'[g] = artifacts[g]
      BY <2>3, <3>1, <3>2, OthersUntouched
    <3> QED
      BY <1>2, <2>1, <3>2, DiskCalm
  <2> QED
    BY <1>2, <2>2, <2>3 DEF CutShort
<1> QED
  BY <1>4, <1>5

\* What a date repair works on: the current record of its source, which no other
\* process is repairing.
LEMMA RepairScene ==
  ASSUME WorkingInvariant, DiskSound, NEW p \in Proc, RepairDate(p),
         NEW i \in 1..Len(ledger), IsTarget(i, job[p].src, Len(ledger))
  PROVE  /\ IsCurrent(i) /\ ledger[i].src = job[p].src
         /\ \A q \in Proc \ {p} : pc[q] \notin RedateSteps /\ pc'[q] \notin RedateSteps
         /\ \A k \in 1..Len(ledger) : IsCurrent(k) /\ k # i => ledger[k].src # job[p].src
<1>1. TypeOK /\ LedgerSound /\ PrimaryStable
  BY DEF WorkingInvariant
<1>2. IsCurrent(i) /\ ledger[i].src = job[p].src
  BY <1>1, TargetCurrent
<1>3. \A q \in Proc \ {p} : pc[q] \notin RedateSteps /\ pc'[q] \notin RedateSteps
  BY WorkLocked, OthersIdle DEF Advance
<1>4. ASSUME NEW k \in 1..Len(ledger), IsCurrent(k), ledger[k].src = job[p].src
      PROVE  k = i
  BY <1>1, <1>2, <1>4, CurrentUnique DEF IsCurrent
<1> QED
  BY <1>2, <1>3, <1>4

\* A date repair chooses a name that no file has.
LEMMA DiskTarget ==
  ASSUME WorkingInvariant, DiskInvariant, DiskSound, NEW p \in Proc, RepairTarget(p)
  PROVE  DiskSound'
<1>1. /\ TypeOK /\ pc \in [Proc -> Steps] /\ job \in [Proc -> Job] /\ job[p] \in Job
  BY DEF WorkingInvariant, TypeOK
<1>2. /\ pc[p] = "target" /\ pc'[p] = "redate_write"
      /\ ledger' = ledger /\ artifacts' = artifacts /\ signals' = signals
  BY <1>1 DEF RepairTarget, Step, disk
<1>3. PICK i \in 1..Len(ledger),
           n \in 1..(Cardinality(DOMAIN artifacts) + 1), k \in 1..(Len(ledger) + 1) :
        /\ IsTarget(i, job[p].src, Len(ledger))
        /\ ~DateCurrent(ledger[i], job[p].date)
        /\ FreePath(<<job[p].date, n>>, job[p].date, {ledger[i].out.path})
        /\ Local(p, [job[p] EXCEPT !.snap = Len(ledger),
                       !.prod = [src |-> job[p].src, seq |-> k,
                                 event |-> "date_repaired", run |-> 0],
                       !.path = <<job[p].date, n>>])
  BY DEF RepairTarget
<1>4. /\ IsCurrent(i) /\ ledger[i].src = job[p].src
      /\ \A q \in Proc \ {p} : pc[q] \notin RedateSteps /\ pc'[q] \notin RedateSteps
  BY <1>3, RepairScene DEF RepairDate
<1>5. job'[p].path = <<job[p].date, n>>
  BY <1>1, <1>3 DEF Local, Job
<1>6. \A q \in Proc : ~Redating(q) /\ ~Redating(q)'
  BY <1>2, <1>4 DEF Redating, RedateSteps
<1>7. \A k1 \in 1..Len(ledger) : IsCurrent(k1) =>
        /\ ledger[k1].out.path \in DOMAIN artifacts
        /\ artifacts[ledger[k1].out.path] =
             ArtifactOf(ledger[k1].mid, ledger[k1].out.prod, ledger[k1].out.date)
        /\ signals[ledger[k1].mid] = SignalsOf(ledger[k1].out.prod, ledger[k1].out.date)
  BY <1>6 DEF DiskSound, OutputsOnDisk, Redating
<1>8. <<job[p].date, n>> \notin DOMAIN artifacts
  <2>1. <<job[p].date, n>> \notin DOMAIN artifacts \ {ledger[i].out.path}
    BY <1>3 DEF FreePath
  <2>2. ledger[i].out.path[1] = ledger[i].out.date
    BY <1>4 DEF DiskInvariant, ProducersSound, IsCurrent
  <2>3. artifacts[ledger[i].out.path].date = ledger[i].out.date
    <3>1. artifacts[ledger[i].out.path] =
            ArtifactOf(ledger[i].mid, ledger[i].out.prod, ledger[i].out.date)
      BY <1>4, <1>7
    <3> QED
      BY <3>1 DEF ArtifactOf
  <2>4. ledger[i].out.path[1] # job[p].date
    BY <1>3, <2>2, <2>3 DEF DateCurrent
  <2>5. <<job[p].date, n>>[1] = job[p].date
    OBVIOUS
  <2> QED
    BY <2>1, <2>4, <2>5
<1>9. ASSUME NEW k1 \in 1..Len(ledger), IsCurrent(k1)'
      PROVE  OutputsOnDisk(k1)'
  <2>1. IsCurrent(k1)
    BY <1>2, <1>9 DEF IsCurrent, IsLatest
  <2> QED
    BY <1>2, <1>7, <2>1 DEF OutputsOnDisk, ArtifactOf, SignalsOf
<1>10. ASSUME NEW q \in Proc
       PROVE  RepairKnown(q)'
  <2>1. CASE q = p
    BY <1>2, <1>5, <1>6, <1>8, <2>1 DEF RepairKnown
  <2>2. CASE q # p
    BY <1>4, <1>6, <2>2 DEF RepairKnown, RedateSteps
  <2> QED
    BY <2>1, <2>2
<1> QED
  BY <1>2, <1>9, <1>10 DEF DiskSound

\* The repaired artifact is written next to the one its record names.
LEMMA DiskRewrite ==
  ASSUME WorkingInvariant, DiskInvariant, DiskSound, NEW p \in Proc, RedateWrite(p)
  PROVE  DiskSound'
<1>1. TypeOK /\ pc \in [Proc -> Steps] /\ WorkSound(p) /\ RepairKnown(p)
  BY DEF WorkingInvariant, TypeOK, DiskSound
<1>2. /\ pc[p] = "redate_write" /\ pc'[p] = "redate_unlink" /\ job' = job
      /\ ledger' = ledger /\ signals' = signals /\ job[p].snap = Len(ledger)
  BY <1>1 DEF RedateWrite, Step, WorkSound, RedateSteps
<1>3. PICK i \in 1..Len(ledger) :
        /\ IsTarget(i, job[p].src, Len(ledger))
        /\ artifacts' = WithFile(job[p].path, ArtifactOf(artifacts[ledger[i].out.path].mid,
                                                         job[p].prod, job[p].date))
  BY <1>2 DEF RedateWrite, IsReadable
<1>4. /\ IsCurrent(i) /\ ledger[i].src = job[p].src
      /\ \A q \in Proc \ {p} : pc[q] \notin RedateSteps /\ pc'[q] \notin RedateSteps
  BY <1>3, RepairScene DEF RepairDate
<1>5. \A k \in 1..Len(ledger) : IsCurrent(k) =>
        /\ ledger[k].out.path \in DOMAIN artifacts
        /\ artifacts[ledger[k].out.path] =
             ArtifactOf(ledger[k].mid, ledger[k].out.prod, ledger[k].out.date)
        /\ signals[ledger[k].mid] = SignalsOf(ledger[k].out.prod, ledger[k].out.date)
  <2>1. \A q \in Proc : ~Redating(q)
    BY <1>2, <1>4 DEF Redating, RedateSteps
  <2> QED
    BY <2>1 DEF DiskSound, OutputsOnDisk, Redating
<1>6. job[p].path \notin DOMAIN artifacts
  BY <1>1, <1>2 DEF RepairKnown
<1>7. /\ job[p].path \in DOMAIN artifacts'
      /\ artifacts'[job[p].path] = ArtifactOf(ledger[i].mid, job[p].prod, job[p].date)
  <2>1. artifacts[ledger[i].out.path].mid = ledger[i].mid
    <3>1. artifacts[ledger[i].out.path] =
            ArtifactOf(ledger[i].mid, ledger[i].out.prod, ledger[i].out.date)
      BY <1>4, <1>5
    <3> QED
      BY <3>1 DEF ArtifactOf
  <2> QED
    BY <1>3, <2>1 DEF WithFile
<1>8. ASSUME NEW k \in 1..Len(ledger), IsCurrent(k)'
      PROVE  OutputsOnDisk(k)'
  <2>1. IsCurrent(k)
    BY <1>2, <1>8 DEF IsCurrent, IsLatest
  <2>2. ledger[k].out.path # job[p].path
    BY <1>5, <1>6, <2>1
  <2>3. /\ ledger[k].out.path \in DOMAIN artifacts'
        /\ artifacts'[ledger[k].out.path] = artifacts[ledger[k].out.path]
    BY <1>3, <1>5, <2>1, <2>2, OthersUntouched
  <2> QED
    BY <1>2, <1>5, <2>1, <2>3 DEF OutputsOnDisk, ArtifactOf, SignalsOf
<1>9. ASSUME NEW q \in Proc
      PROVE  RepairKnown(q)'
  <2>1. CASE q = p
    <3>1. IsCurrent(i)' /\ ledger[i].out.path # job[p].path
      BY <1>2, <1>4, <1>5, <1>6 DEF IsCurrent, IsLatest
    <3> QED
      BY <1>2, <1>4, <1>7, <2>1, <3>1 DEF RepairKnown, ArtifactOf
  <2>2. CASE q # p
    BY <1>4, <2>2 DEF RepairKnown, Redating, RedateSteps
  <2> QED
    BY <2>1, <2>2
<1> QED
  BY <1>2, <1>8, <1>9 DEF DiskSound

\* The old artifact is removed, and no other record's with it: an artifact names
\* the source that produced it.
LEMMA DiskUnlink ==
  ASSUME WorkingInvariant, DiskInvariant, DiskSound, NEW p \in Proc, RedateUnlink(p)
  PROVE  DiskSound'
<1>1. TypeOK /\ pc \in [Proc -> Steps] /\ WorkSound(p) /\ RepairKnown(p)
  BY DEF WorkingInvariant, TypeOK, DiskSound
<1>2. /\ pc[p] = "redate_unlink" /\ pc'[p] = "redate_signals" /\ job' = job
      /\ ledger' = ledger /\ signals' = signals /\ job[p].snap = Len(ledger)
  BY <1>1 DEF RedateUnlink, Step, WorkSound, RedateSteps
<1>3. PICK i \in 1..Len(ledger) :
        /\ IsTarget(i, job[p].src, Len(ledger))
        /\ artifacts' = IF ledger[i].out.path = job[p].path
                          THEN artifacts ELSE WithoutFile(ledger[i].out.path)
  BY <1>2 DEF RedateUnlink
<1>4. /\ IsCurrent(i) /\ ledger[i].src = job[p].src
      /\ \A q \in Proc \ {p} : pc[q] \notin RedateSteps /\ pc'[q] \notin RedateSteps
      /\ \A k \in 1..Len(ledger) : IsCurrent(k) /\ k # i => ledger[k].src # job[p].src
  BY <1>3, RepairScene DEF RepairDate
<1>5. \A k \in 1..Len(ledger) : IsCurrent(k) =>
        /\ ledger[k].out.path \in DOMAIN artifacts
        /\ artifacts[ledger[k].out.path] =
             ArtifactOf(ledger[k].mid, ledger[k].out.prod, ledger[k].out.date)
        /\ signals[ledger[k].mid] = SignalsOf(ledger[k].out.prod, ledger[k].out.date)
  BY <1>2, <1>4 DEF DiskSound, OutputsOnDisk, RedateSteps
<1>6. /\ job[p].path \in DOMAIN artifacts /\ ledger[i].out.path # job[p].path
      /\ artifacts[job[p].path] = ArtifactOf(ledger[i].mid, job[p].prod, job[p].date)
  <2>1. PICK k \in 1..Len(ledger) :
          /\ IsCurrent(k) /\ ledger[k].src = job[p].src /\ ledger[k].out.path # job[p].path
          /\ artifacts[job[p].path] = ArtifactOf(ledger[k].mid, job[p].prod, job[p].date)
    BY <1>1, <1>2 DEF RepairKnown, Redating
  <2>2. k = i
    BY <1>4, <2>1
  <2> QED
    BY <1>1, <1>2, <2>1, <2>2 DEF RepairKnown, Redating
<1>7. ASSUME NEW f \in DOMAIN artifacts, f # ledger[i].out.path
      PROVE  f \in DOMAIN artifacts' /\ artifacts'[f] = artifacts[f]
  BY <1>3, <1>6, <1>7 DEF WithoutFile
<1>8. ASSUME NEW k \in 1..Len(ledger), IsCurrent(k)'
      PROVE  OutputsOnDisk(k)'
  <2>1. IsCurrent(k)
    BY <1>2, <1>8 DEF IsCurrent, IsLatest
  <2>2. CASE k = i
    BY <1>2, <1>4, <1>5, <2>2 DEF OutputsOnDisk, SignalsOf
  <2>3. CASE k # i
    <3>1. ledger[k].src # ledger[i].src
      BY <1>4, <2>1, <2>3
    <3>2. /\ artifacts[ledger[k].out.path] =
               ArtifactOf(ledger[k].mid, ledger[k].out.prod, ledger[k].out.date)
          /\ artifacts[ledger[i].out.path] =
               ArtifactOf(ledger[i].mid, ledger[i].out.prod, ledger[i].out.date)
      BY <1>4, <1>5, <2>1
    <3>3. /\ artifacts[ledger[k].out.path].prod = ledger[k].out.prod
          /\ artifacts[ledger[i].out.path].prod = ledger[i].out.prod
      BY <3>2 DEF ArtifactOf
    <3>4. ledger[k].out.prod.src = ledger[k].src /\ ledger[i].out.prod.src = ledger[i].src
      BY <1>4, <2>1 DEF DiskInvariant, ProducersSound, IsCurrent
    <3>5. ledger[k].out.path # ledger[i].out.path
      BY <3>1, <3>3, <3>4
    <3>6. /\ ledger[k].out.path \in DOMAIN artifacts'
          /\ artifacts'[ledger[k].out.path] = artifacts[ledger[k].out.path]
      BY <1>5, <1>7, <2>1, <3>5
    <3> QED
      BY <1>2, <1>5, <2>1, <3>6 DEF OutputsOnDisk, ArtifactOf, SignalsOf
  <2> QED
    BY <2>2, <2>3
<1>9. ASSUME NEW q \in Proc
      PROVE  RepairKnown(q)'
  <2>1. CASE q = p
    <3>1. IsCurrent(i)'
      BY <1>2, <1>4 DEF IsCurrent, IsLatest
    <3>2. job[p].path \in DOMAIN artifacts' /\ artifacts'[job[p].path] = artifacts[job[p].path]
      BY <1>6, <1>7
    <3> QED
      BY <1>2, <1>4, <1>6, <2>1, <3>1, <3>2 DEF RepairKnown, ArtifactOf
  <2>2. CASE q # p
    BY <1>4, <2>2 DEF RepairKnown, Redating, RedateSteps
  <2> QED
    BY <2>1, <2>2
<1> QED
  BY <1>2, <1>8, <1>9 DEF DiskSound

\* The signals are rewritten, and no other record's with them: a meeting has one
\* source.
LEMMA DiskResign ==
  ASSUME WorkingInvariant, DiskInvariant, DiskSound, NEW p \in Proc, RedateSignals(p)
  PROVE  DiskSound'
<1>1. /\ TypeOK /\ LedgerSound /\ pc \in [Proc -> Steps] /\ WorkSound(p) /\ RepairKnown(p)
      /\ signals \in [Meeting -> [prod : RecordId, date : Date] \cup {None}]
  BY DEF WorkingInvariant, TypeOK, DiskSound
<1>2. /\ pc[p] = "redate_signals" /\ pc'[p] = "redate_append" /\ job' = job
      /\ ledger' = ledger /\ artifacts' = artifacts /\ job[p].snap = Len(ledger)
  BY <1>1 DEF RedateSignals, Step, WorkSound, RedateSteps
<1>3. PICK i \in 1..Len(ledger) :
        /\ IsTarget(i, job[p].src, Len(ledger))
        /\ signals' = [signals EXCEPT ![ledger[i].mid] = SignalsOf(job[p].prod, job[p].date)]
  BY <1>2 DEF RedateSignals
<1>4. /\ IsCurrent(i) /\ ledger[i].src = job[p].src
      /\ \A q \in Proc \ {p} : pc[q] \notin RedateSteps /\ pc'[q] \notin RedateSteps
      /\ \A k \in 1..Len(ledger) : IsCurrent(k) /\ k # i => ledger[k].src # job[p].src
  BY <1>3, RepairScene DEF RepairDate
<1>5. \A k \in 1..Len(ledger) : IsCurrent(k) =>
        ledger[k].mid \in Meeting /\ ledger[k].mid[1] = ledger[k].src
  BY <1>1 DEF LedgerSound, IsCurrent
<1>6. \A k \in 1..Len(ledger) : IsCurrent(k) /\ k # i =>
        /\ ledger[k].out.path \in DOMAIN artifacts
        /\ artifacts[ledger[k].out.path] =
             ArtifactOf(ledger[k].mid, ledger[k].out.prod, ledger[k].out.date)
        /\ signals[ledger[k].mid] = SignalsOf(ledger[k].out.prod, ledger[k].out.date)
  BY <1>4 DEF DiskSound, OutputsOnDisk, RedateSteps
<1>7. /\ job[p].path \in DOMAIN artifacts /\ ledger[i].out.path # job[p].path
      /\ artifacts[job[p].path] = ArtifactOf(ledger[i].mid, job[p].prod, job[p].date)
  <2>1. PICK k \in 1..Len(ledger) :
          /\ IsCurrent(k) /\ ledger[k].src = job[p].src /\ ledger[k].out.path # job[p].path
          /\ artifacts[job[p].path] = ArtifactOf(ledger[k].mid, job[p].prod, job[p].date)
    BY <1>1, <1>2 DEF RepairKnown, Redating
  <2>2. k = i
    BY <1>4, <2>1
  <2> QED
    BY <1>1, <1>2, <2>1, <2>2 DEF RepairKnown, Redating
<1>8. signals'[ledger[i].mid] = SignalsOf(job[p].prod, job[p].date)
  BY <1>1, <1>3, <1>4, <1>5
<1>9. ASSUME NEW k \in 1..Len(ledger), IsCurrent(k)'
      PROVE  OutputsOnDisk(k)'
  <2>1. IsCurrent(k)
    BY <1>2, <1>9 DEF IsCurrent, IsLatest
  <2>2. CASE k = i
    BY <1>2, <1>4, <2>2 DEF OutputsOnDisk
  <2>3. CASE k # i
    <3>1. ledger[k].mid # ledger[i].mid
      BY <1>4, <1>5, <2>1, <2>3
    <3>2. signals'[ledger[k].mid] = signals[ledger[k].mid]
      BY <1>1, <1>3, <1>5, <2>1, <3>1
    <3> QED
      BY <1>2, <1>6, <2>1, <2>3, <3>2 DEF OutputsOnDisk, ArtifactOf, SignalsOf
  <2> QED
    BY <2>2, <2>3
<1>10. ASSUME NEW q \in Proc
       PROVE  RepairKnown(q)'
  <2>1. CASE q = p
    <3>1. IsCurrent(i)'
      BY <1>2, <1>4 DEF IsCurrent, IsLatest
    <3> QED
      BY <1>2, <1>4, <1>7, <1>8, <2>1, <3>1 DEF RepairKnown, ArtifactOf, SignalsOf
  <2>2. CASE q # p
    BY <1>4, <2>2 DEF RepairKnown, Redating, RedateSteps
  <2> QED
    BY <2>1, <2>2
<1> QED
  BY <1>2, <1>9, <1>10 DEF DiskSound

\* The outputs of a new line are on disk.
LEMMA DiskFiled ==
  ASSUME WorkingInvariant, DiskInvariant, DiskSound, NEW p \in Proc, AppendStep(p)
  PROVE  DiskSound'
<1>1. /\ TypeOK /\ LedgerSound /\ pc \in [Proc -> Steps] /\ FilesKnown(p) /\ RepairKnown(p)
      /\ CopiesKept
  BY DEF WorkingInvariant, DiskInvariant, TypeOK, DiskSound
<1>2. artifacts' = artifacts /\ signals' = signals
  BY DEF AppendStep, RecordFailure, AppendPrimary, AppendCompleted, RepairAppend, RedateAppend
<1>3. /\ pc[p] \in {"fail", "append_primary", "append_completed", "repair_append", "redate_append"}
      /\ pc'[p] \in {"release", "verify", "repair_copy", "redate_verify"}
      /\ Redating(p) => RedateAppend(p)
  BY <1>1 DEF AppendStep, RecordFailure, AppendPrimary, AppendCompleted, RepairAppend,
              RedateAppend, Step, Redating
<1>4. \A q \in Proc \ {p} : pc[q] \notin RedateSteps /\ pc'[q] \notin RedateSteps
  <2>1. Locked(p)
    BY <1>3 DEF Locked
  <2>2. Advance(p)
    BY DEF AppendStep, Advance, Ingest, Reconcile, RepairDate
  <2> QED
    BY <2>1, <2>2, OthersIdle
<1>5. PICK r \in Record : /\ ledger' = Append(ledger, r)
                          /\ r.src = job[p].src /\ AppendedBy(p, r)
  BY <1>1, AppendedLine
<1>6. \A q \in Proc : (Redating(q) => job[q].src = r.src) /\ pc'[q] \notin RedateSteps
  BY <1>3, <1>4, <1>5 DEF Redating, RedateSteps
<1>7. ASSUME NEW i \in 1..Len(ledger), Repeats(r, i), ~Redating(p)
      PROVE  /\ r.out.path \in DOMAIN artifacts
             /\ artifacts[r.out.path] = ArtifactOf(r.mid, r.out.prod, r.out.date)
             /\ signals[r.mid] = SignalsOf(r.out.prod, r.out.date)
  <2>1. \A q \in Proc : ~Redating(q)
    BY <1>4, <1>7 DEF Redating, RedateSteps
  <2>2. OutputsOnDisk(i)
    BY <1>7 DEF DiskSound, Repeats
  <2> QED
    BY <1>7, <2>1, <2>2 DEF OutputsOnDisk, Redating, Repeats
<1>8. ASSUME AppendPrimary(p), Originates(p, r), r.mid = <<job[p].src, job[p].date>>
      PROVE  /\ r.out.path \in DOMAIN artifacts
             /\ artifacts[r.out.path] = ArtifactOf(r.mid, r.out.prod, r.out.date)
             /\ signals[r.mid] = SignalsOf(r.out.prod, r.out.date)
  <2>1. pc[p] = "append_primary"
    BY <1>8 DEF AppendPrimary, Step
  <2>2. /\ job[p].path \in DOMAIN artifacts
        /\ artifacts[job[p].path] =
             ArtifactOf(<<job[p].src, job[p].date>>, job[p].prod, job[p].date)
        /\ signals[<<job[p].src, job[p].date>>] = SignalsOf(job[p].prod, job[p].date)
    BY <1>1, <2>1 DEF FilesKnown
  <2>3. r.out.path = job[p].path /\ r.out.prod = job[p].prod /\ r.out.date = job[p].date
    BY <1>8 DEF Originates, JobOutput
  <2> QED
    BY <1>8, <2>2, <2>3
<1>9. ASSUME RedateAppend(p), Originates(p, r), NEW i \in 1..Len(ledger),
             IsCurrent(i), ledger[i].src = r.src, r.mid = ledger[i].mid
      PROVE  /\ r.out.path \in DOMAIN artifacts
             /\ artifacts[r.out.path] = ArtifactOf(r.mid, r.out.prod, r.out.date)
             /\ signals[r.mid] = SignalsOf(r.out.prod, r.out.date)
  <2>1. pc[p] = "redate_append" /\ Redating(p)
    BY <1>9 DEF RedateAppend, Step, Redating
  <2>2. PICK k \in 1..Len(ledger) :
          /\ IsCurrent(k) /\ ledger[k].src = job[p].src
          /\ artifacts[job[p].path] = ArtifactOf(ledger[k].mid, job[p].prod, job[p].date)
          /\ signals[ledger[k].mid] = SignalsOf(job[p].prod, job[p].date)
    BY <1>1, <2>1 DEF RepairKnown
  <2>3. k = i
    BY <1>1, <1>5, <1>9, <2>2, CurrentUnique DEF IsCurrent
  <2>4. r.out.path = job[p].path /\ r.out.prod = job[p].prod /\ r.out.date = job[p].date
    BY <1>9 DEF Originates, JobOutput
  <2>5. job[p].path \in DOMAIN artifacts
    BY <1>1, <2>1 DEF RepairKnown
  <2> QED
    BY <1>9, <2>2, <2>3, <2>4, <2>5
<1>10. r.out # None =>
         /\ r.out.path \in DOMAIN artifacts
         /\ artifacts[r.out.path] = ArtifactOf(r.mid, r.out.prod, r.out.date)
         /\ signals[r.mid] = SignalsOf(r.out.prod, r.out.date)
  <2>1. AppendCompleted(p) \/ RepairAppend(p) => ~Redating(p)
    BY DEF AppendCompleted, RepairAppend, Step, Redating
  <2> QED
    BY <1>5, <1>7, <1>8, <1>9, <2>1 DEF AppendedBy
<1> QED
  BY <1>1, <1>2, <1>5, <1>6, <1>10, DiskAppend

\* DiskSound is preserved by a step of a process.
LEMMA DiskProcess ==
  ASSUME WorkingInvariant, PathsFree, DiskInvariant, DiskSound, RepairsSettled',
         [Next]_vars, NEW p \in Proc, Start(p) \/ Advance(p) \/ Abort(p) \/ Crash(p)
  PROVE  DiskSound'
<1>1. TypeOK /\ pc \in [Proc -> Steps] /\ job \in [Proc -> Job] /\ JobReady(p)
  BY DEF WorkingInvariant, TypeOK
<1>2. ASSUME ledger' = ledger, artifacts' = artifacts, signals' = signals,
             ~Redating(p), pc'[p] \notin RedateSteps
      PROVE  DiskSound'
  <2>1. \A q \in Proc : \/ pc'[q] = pc[q] /\ job'[q] = job[q]
                        \/ ~Redating(q) /\ pc'[q] \notin RedateSteps
    BY <1>1, <1>2, OthersKept
  <2> QED
    BY <1>2, <2>1, DiskQuiet
<1>3. CASE Start(p) \/ Acquire(p) \/ LockConflict(p) \/ Release(p)
  <2>1. ~Redating(p)
    BY <1>3 DEF Start, StartIngest, StartRepairDate, StartReconcile, Acquire, LockConflict,
                Release, Step, Redating
  <2>2. pc'[p] \notin RedateSteps
    <3>1. CASE Acquire(p)
      <4>1. job[p].op \in {"ingest", "reconcile", "repair-date"}
        <5>1. pc[p] = "acquire"
          BY <3>1 DEF Acquire, Step
        <5> QED
          BY <1>1, <5>1 DEF JobReady, Job
      <4> QED
        BY <1>1, <3>1, <4>1 DEF Acquire, Step, RedateSteps
    <3>2. CASE Start(p) \/ LockConflict(p) \/ Release(p)
      BY <1>1, <3>2 DEF Start, StartIngest, StartRepairDate, StartReconcile, LockConflict,
                        Release, Step, RedateSteps
    <3> QED
      BY <1>3, <3>1, <3>2
  <2> QED
    BY <1>2, <1>3, <2>1, <2>2, UnlockedFrame
<1>4. CASE Ingest(p)
  <2>1. CASE \/ PrepareDuplicate(p) \/ PrepareFresh(p) \/ PrepareUnreadable(p)
             \/ PrepareGone(p) \/ Quarantine(p) \/ ProviderAccepted(p)
             \/ ProviderRejected(p) \/ Mint(p)
             \/ VerifyLink(p) \/ ArchiveCopy(p) \/ ReconcileMove(p)
    <3>1. /\ pc[p] \notin RedateSteps /\ pc'[p] \notin RedateSteps
          /\ ledger' = ledger /\ artifacts' = artifacts /\ signals' = signals
      BY <1>1, <2>1
      DEF PrepareDuplicate, PrepareFresh, PrepareUnreadable, PrepareGone, Quarantine,
          ProviderAccepted, ProviderRejected, Mint, VerifyLink, ArchiveCopy,
          ReconcileMove, Step, RedateSteps, disk
    <3> QED
      BY <1>2, <3>1 DEF Redating, RedateSteps
  <2> QED
    BY <1>4, <2>1, DiskWrite, DiskFiled DEF Ingest, AppendStep
<1>5. CASE Reconcile(p)
  <2>1. CASE ReconcileScan(p) \/ RepairDone(p) \/ RepairCopy(p) \/ RepairMove(p)
    <3>1. /\ pc[p] \notin RedateSteps /\ pc'[p] \notin RedateSteps
          /\ ledger' = ledger /\ artifacts' = artifacts /\ signals' = signals
      BY <1>1, <2>1
      DEF ReconcileScan, RepairDone, RepairCopy, RepairMove, Step, RedateSteps, disk
    <3> QED
      BY <1>2, <3>1 DEF Redating, RedateSteps
  <2> QED
    BY <1>5, <2>1, DiskFiled DEF Reconcile, AppendStep
<1>6. CASE RepairDate(p)
  <2>1. CASE RepairNothing(p) \/ RedateUnreadable(p) \/ RedateVerify(p)
    <3>1. /\ ~Redating(p) /\ pc'[p] \notin RedateSteps
          /\ ledger' = ledger /\ artifacts' = artifacts /\ signals' = signals
      BY <1>1, <2>1
      DEF RepairNothing, RedateUnreadable, RedateVerify, Step, Redating, RedateSteps, disk
    <3> QED
      BY <1>2, <3>1
  <2> QED
    BY <1>6, <2>1, DiskTarget, DiskRewrite, DiskUnlink, DiskResign, DiskFiled
    DEF RepairDate, AppendStep
<1>7. CASE Abort(p) \/ Crash(p)
  BY <1>7, DiskFault
<1> QED
  BY <1>3, <1>4, <1>5, <1>6, <1>7 DEF Advance

\* DiskInvariant is preserved by every step.
LEMMA DiskNext ==
  ASSUME WorkingInvariant, PathsFree, DiskInvariant, [Next]_vars
  PROVE  DiskInvariant'
<1>1. ASSUME RepairsSettled'
      PROVE  DiskSound'
  <2>1. DiskSound
    BY <1>1, SettledBefore
  <2>2. ASSUME NEW p \in Proc, Start(p) \/ Advance(p) \/ Abort(p) \/ Crash(p)
        PROVE  DiskSound'
    BY <1>1, <2>1, <2>2, DiskProcess
  <2>3. CASE RemoveStaleLock \/ (\E s \in Source : Drop(s)) \/ UNCHANGED vars
    <3>1. /\ ledger' = ledger /\ artifacts' = artifacts /\ signals' = signals
          /\ \A q \in Proc : pc'[q] = pc[q] /\ job'[q] = job[q]
      BY <2>3 DEF RemoveStaleLock, Drop, vars, disk
    <3> QED
      BY <2>1, <3>1, DiskQuiet
  <2> QED
    BY <2>2, <2>3 DEF Next
<1> QED
  BY <1>1, ProducersNext, CopiesNext, FilesNext DEF DiskInvariant

\* The files of a current record whose source is not being repaired give doctor
\* nothing to report.
LEMMA SoundOnDisk ==
  ASSUME WorkingInvariant, DiskInvariant
  PROVE  CurrentStateSound
<1>1. SUFFICES ASSUME RepairsSettled, NEW i \in 1..Len(ledger),
                      IsLatest(i, ledger[i].src, Len(ledger)),
                      \A p \in Proc : Redating(p) => job[p].src # ledger[i].src
               PROVE  ~Unsound(ledger[i])
  BY DEF CurrentStateSound
<1> DEFINE r == ledger[i]
<1>2. DiskSound /\ ProducersSound /\ CopiesKept
  BY <1>1 DEF DiskInvariant
<1>3. ~MissingProcessedSource(r)
  BY <1>2 DEF CopiesKept, MissingProcessedSource
<1>4. ASSUME r.out # None
      PROVE  ~MissingArtifact(r) /\ ~SignalLinkInvalid(r) /\ ~ArtifactProvenanceMismatch(r)
  <2>1. IsCurrent(i)
    BY <1>1, <1>4 DEF IsCurrent
  <2>2. OutputsOnDisk(i)
    BY <1>2, <2>1 DEF DiskSound
  <2>3. /\ r.out.path \in DOMAIN artifacts
        /\ artifacts[r.out.path] = ArtifactOf(r.mid, r.out.prod, r.out.date)
        /\ signals[r.mid] = SignalsOf(r.out.prod, r.out.date)
    BY <1>1, <2>2 DEF OutputsOnDisk, Redating
  <2>4. PICK k \in 1..Len(ledger) :
          /\ IdOf(ledger[k]) = r.out.prod /\ ledger[k].produced
          /\ ledger[k].out = r.out /\ ledger[k].mid = r.mid
    BY <1>2, <1>4 DEF ProducersSound
  <2>5. ProducersOf(r) = {k}
    <3>1. k \in ProducersOf(r)
      BY <1>4, <2>4 DEF ProducersOf
    <3>2. ASSUME NEW j \in ProducersOf(r)
          PROVE  j = k
      <4>1. j \in 1..Len(ledger) /\ IdOf(ledger[j]) = IdOf(ledger[k])
        BY <2>4 DEF ProducersOf
      <4>2. ledger[j].src = ledger[k].src /\ ledger[j].seq = ledger[k].seq
        BY <4>1 DEF IdOf
      <4> QED
        BY <1>2, <4>1, <4>2 DEF ProducersSound
    <3> QED
      BY <3>1, <3>2
  <2>6. Cardinality(ProducersOf(r)) = 1
    BY <2>5, FS_Singleton
  <2>7. artifacts[r.out.path].prod = r.out.prod
    BY <2>3 DEF ArtifactOf
  <2> HIDE DEF r
  <2>8. ~MissingArtifact(r)
    BY <2>3 DEF MissingArtifact
  <2>9. ~SignalLinkInvalid(r)
    BY <2>3, <2>4, <2>5, <2>6 DEF SignalLinkInvalid
  <2>10. ~ArtifactProvenanceMismatch(r)
    BY <2>4, <2>5, <2>6, <2>7 DEF ArtifactProvenanceMismatch
  <2> QED
    BY <2>8, <2>9, <2>10
<1> QED
  BY <1>3, <1>4 DEF Unsound

-----------------------------------------------------------------------------
(* The theorems.                                                           *)

\* WorkingInvariant holds initially.
LEMMA InitWorks ==
  ASSUME Init
  PROVE  WorkingInvariant
<1>1. TypeOK
  <2>1. ledger \in Seq(Record) /\ Len(ledger) = 0
    BY DEF Init
  <2>2. places \in [Source -> SUBSET Places]
    BY DEF Init, Places
  <2>3. /\ DOMAIN artifacts \subseteq Date \X Nat
        /\ IsFiniteSet(DOMAIN artifacts)
        /\ artifacts \in [DOMAIN artifacts -> File]
    <3>1. artifacts = <<>> /\ DOMAIN artifacts = {}
      BY DEF Init
    <3>2. IsFiniteSet({})
      BY FS_EmptySet
    <3> QED
      BY <3>1, <3>2
  <2>4. signals \in [Meeting -> [prod : RecordId, date : Date] \cup {None}]
    BY DEF Init
  <2>5. pc \in [Proc -> Steps] /\ job \in [Proc -> Job]
    BY NoJobTyped DEF Init, Steps
  <2> QED
    BY <2>1, <2>2, <2>3, <2>4, <2>5 DEF Init, TypeOK
<1>2. Len(ledger) = 0
  BY DEF Init
<1>3. \A p \in Proc : pc[p] = "idle" /\ ~Locked(p)
  BY DEF Init, Locked
<1>4. OneWriter
  BY <1>3 DEF OneWriter
<1>5. \A p \in Proc : JobReady(p) /\ WorkSound(p)
  BY <1>3 DEF JobReady, WorkSound, SourceSteps, DateSteps, OutputSteps, MintedSteps,
              FreshSteps, FiledSteps, RepairSteps, RedateSteps
<1>6. LedgerSound /\ PrimaryStable
  BY <1>2 DEF LedgerSound, PrimaryStable
<1>7. MintedIdentityHolds
  BY <1>3 DEF MintedIdentityHolds
<1> QED
  BY <1>1, <1>4, <1>5, <1>6, <1>7 DEF WorkingInvariant

\* WorkingInvariant holds in every reachable state: of any number of commands,
\* killed, failing and restarted at any step, each works on a ledger and on a
\* disk that are as it last saw them.
THEOREM Invariance == Spec => []WorkingInvariant
<1>1. Init => WorkingInvariant
  BY InitWorks
<1>2. WorkingInvariant /\ [Next]_vars => WorkingInvariant'
  BY TypeNext, OneWriterNext, WorkNext, LedgerNext, MintedNext DEF WorkingInvariant
<1> QED
  BY <1>1, <1>2, PTL DEF Spec

\* Every variable stays within its type.
THEOREM TypeCorrect == Spec => []TypeOK
<1>1. WorkingInvariant => TypeOK
  BY DEF WorkingInvariant
<1> QED
  BY <1>1, Invariance, PTL

\* The project lock admits one command at a time (ProjectLock): whoever is in
\* the locked section made the lock file, also after kills and hand-removals.
THEOREM MutualExclusion == Spec => []OneWriter
<1>1. WorkingInvariant => OneWriter
  BY DEF WorkingInvariant
<1> QED
  BY <1>1, Invariance, PTL

\* A source keeps its outputs and its meeting: the ledger never takes back
\* what it once said, and never produces a source twice (_prepare_ingest,
\* _record_source_failure, _finish_ingest).
THEOREM OutputsAreStable == Spec => []PrimaryStable
<1>1. WorkingInvariant => PrimaryStable
  BY DEF WorkingInvariant
<1> QED
  BY <1>1, Invariance, PTL

\* An identity minted before the files are written is still the next one when
\* its line is appended (mint_ledger_identity, append_snapshot), so the append
\* is never refused with ledger_identity_conflict.
THEOREM IdentityIsKept == Spec => []MintedIdentityHolds
<1>1. WorkingInvariant => MintedIdentityHolds
  BY DEF WorkingInvariant
<1> QED
  BY <1>1, Invariance, PTL

\* An artifact on disk is touched by nothing but a date repair of the source
\* whose record names it (_next_artifact_path, _repaired_artifact_path): also
\* when kills and I/O errors leave half-written files and unnamed ones behind.
THEOREM OutputsAreUntouched == Spec => OutputsUntouched
<1>1. Init => PathsFree
  BY DEF Init, PathsFree, PathFree
<1>2. WorkingInvariant /\ PathsFree /\ [Next]_vars => PathsFree'
  BY PathsNext
<1>3. WorkingInvariant /\ PathsFree /\ [Next]_vars =>
        [\A path \in DOMAIN artifacts :
           ~BeingRedated(path) =>
             path \in DOMAIN artifacts' /\ artifacts'[path] = artifacts[path]]_vars
  BY OutputsNext
<1> QED
  BY <1>1, <1>2, <1>3, Invariance, PTL DEF Spec, OutputsUntouched

\* Nothing is on disk when the project begins.
LEMMA InitDisk ==
  ASSUME Init
  PROVE  DiskInvariant
<1>1. Len(ledger) = 0 /\ \A p \in Proc : pc[p] = "idle"
  BY DEF Init
<1>2. \A i : i \notin 1..Len(ledger)
  BY <1>1
<1>3. ProducersSound /\ CopiesKept
  BY <1>2 DEF ProducersSound, CopiesKept
<1>4. \A p \in Proc : FilesKnown(p)
  BY <1>1 DEF FilesKnown, OutputSteps, MintedSteps, FiledSteps, RedateSteps
<1>5. DiskSound
  BY <1>1, <1>2 DEF DiskSound, RepairKnown, Redating
<1> QED
  BY <1>3, <1>4, <1>5 DEF DiskInvariant

\* The readiness guard never blocks the project because of an interleaving or a
\* fault, as long as no date repair was stopped half way.
THEOREM CurrentStateIsSound == Spec => []CurrentStateSound
<1>1. Init => PathsFree /\ DiskInvariant
  <2>1. Init => PathsFree
    BY DEF Init, PathsFree, PathFree
  <2> QED
    BY <2>1, InitDisk
<1>2. WorkingInvariant /\ PathsFree /\ DiskInvariant /\ [Next]_vars
        => PathsFree' /\ DiskInvariant'
  BY PathsNext, DiskNext
<1>3. WorkingInvariant /\ DiskInvariant => CurrentStateSound
  BY SoundOnDisk
<1> QED
  BY <1>1, <1>2, <1>3, Invariance, PTL DEF Spec

-----------------------------------------------------------------------------
(***************************************************************************)
(* IngestPipeline implements IngestPromise, for any number of processes,   *)
(* sources and dates: every step of a command, every kill and every error  *)
(* is a step of the promise or leaves all that it speaks of unchanged.     *)
(***************************************************************************)

-----------------------------------------------------------------------------
(* The meetings that are filed.                                            *)

\* The promise's notion of a filed source is the pipeline's.
LEMMA FiledIsPrimary ==
  ASSUME TypeOK, LedgerSound, NEW s \in Source
  PROVE  Promise!Filed(s) <=> Primary(s)
<1>1. ASSUME NEW m \in FiledMeetings, m[1] = s
      PROVE  Primary(s)
  BY <1>1 DEF FiledMeetings, Primary, PrimaryAt
<1>2. ASSUME Primary(s)
      PROVE  \E m \in FiledMeetings : m[1] = s
  <2>1. PICK i \in 1..Len(ledger) :
          IsLatest(i, s, Len(ledger)) /\ HasPrimaryArtifacts(ledger[i])
    BY <1>2 DEF Primary, PrimaryAt
  <2>2. ledger[i].mid \in Meeting /\ ledger[i].mid[1] = s
    BY <2>1 DEF LedgerSound, HasPrimaryArtifacts, IsLatest
  <2> QED
    BY <2>1, <2>2 DEF FiledMeetings
<1> QED
  BY <1>1, <1>2 DEF Promise!Filed

\* A new line decides alone whether a meeting of its source is filed, and has
\* no say about the others.
LEMMA FiledAppend ==
  ASSUME TypeOK, NEW r \in Record, ledger' = Append(ledger, r), NEW m \in Meeting
  PROVE  m \in FiledMeetings' <=>
           IF m[1] = r.src THEN HasPrimaryArtifacts(r) /\ r.mid = m ELSE m \in FiledMeetings
<1>a. Len(ledger) \in Nat
  BY DEF TypeOK
<1>0. PICK n \in Nat : n = Len(ledger)
  BY <1>a
<1>1. /\ n = Len(ledger) /\ Len(ledger') = n + 1 /\ ledger'[n + 1] = r
      /\ \A i \in 1..n : ledger'[i] = ledger[i]
  BY <1>0, AppendFacts DEF TypeOK
<1> DEFINE Last(i) == /\ ledger'[i].src = m[1]
                      /\ \A k \in (i + 1)..(n + 1) : ledger'[k].src # m[1]
<1>2. m \in FiledMeetings' <=>
        \E i \in 1..(n + 1) : /\ Last(i) /\ HasPrimaryArtifacts(ledger'[i])
                              /\ ledger'[i].mid = m
  BY <1>1 DEF FiledMeetings, IsLatest, HasPrimaryArtifacts
<1>3. m \in FiledMeetings <=>
        \E i \in 1..n : /\ ledger[i].src = m[1]
                        /\ \A k \in (i + 1)..n : ledger[k].src # m[1]
                        /\ HasPrimaryArtifacts(ledger[i]) /\ ledger[i].mid = m
  BY <1>1 DEF FiledMeetings, IsLatest, HasPrimaryArtifacts
<1>4. CASE m[1] = r.src
  <2>1. \A i \in 1..n : n + 1 \in (i + 1)..(n + 1)
    BY <1>0
  <2>2. \A i \in 1..(n + 1) : Last(i) => i = n + 1
    <3>1. \A i \in 1..(n + 1) : i \in 1..n \/ i = n + 1
      BY <1>0
    <3> QED
      BY <1>1, <1>4, <2>1, <3>1
  <2>3. Last(n + 1) /\ n + 1 \in 1..(n + 1)
    <3>1. \A k \in (n + 1 + 1)..(n + 1) : FALSE
      BY <1>0
    <3>2. n + 1 \in 1..(n + 1)
      BY <1>0
    <3> QED
      BY <1>1, <1>4, <3>1, <3>2
  <2> HIDE DEF Last
  <2> QED
    BY <1>1, <1>2, <1>4, <2>2, <2>3
<1>5. CASE m[1] # r.src
  <2>1. \A i \in 1..n : Last(i) <=> /\ ledger[i].src = m[1]
                                    /\ \A k \in (i + 1)..n : ledger[k].src # m[1]
    <3>1. ASSUME NEW i \in 1..n
          PROVE  /\ \A k \in (i + 1)..n : k \in (i + 1)..(n + 1) /\ k \in 1..n
                 /\ \A k \in (i + 1)..(n + 1) : k = n + 1 \/ k \in (i + 1)..n
      BY <1>0
    <3> QED
      BY <1>1, <1>5, <3>1
  <2>2. ~Last(n + 1)
    BY <1>1, <1>5
  <2>3. \A i \in 1..(n + 1) : i \in 1..n \/ i = n + 1
    BY <1>0
  <2>4. \A i \in 1..n : i \in 1..(n + 1)
    BY <1>0
  <2> HIDE DEF Last
  <2> QED
    BY <1>1, <1>2, <1>3, <1>5, <2>1, <2>2, <2>3, <2>4
<1> QED
  BY <1>4, <1>5

\* A source that is filed keeps exactly its meeting.
LEMMA FiledKeeps ==
  ASSUME TypeOK, LedgerSound, PrimaryStable, NEW p \in Proc, NEW r, Appends(p, r),
         \/ r.out = None /\ ~Primary(r.src)
         \/ HasPrimaryArtifacts(r) /\ Primary(r.src)
  PROVE  FiledMeetings' = FiledMeetings
<1>1. r \in Record /\ ledger' = Append(ledger, r) /\ LineFits(r)
  BY DEF Appends
<1>2. ASSUME NEW m \in Meeting, m[1] = r.src
      PROVE  m \in FiledMeetings <=> HasPrimaryArtifacts(r) /\ r.mid = m
  <2>1. CASE r.out = None /\ ~Primary(r.src)
    <3>1. m \notin FiledMeetings
      BY <1>2, <2>1 DEF FiledMeetings, Primary, PrimaryAt
    <3> QED
      BY <2>1, <3>1 DEF HasPrimaryArtifacts
  <2>2. CASE HasPrimaryArtifacts(r) /\ Primary(r.src)
    <3>1. PICK i \in 1..Len(ledger) :
            IsLatest(i, r.src, Len(ledger)) /\ HasPrimaryArtifacts(ledger[i])
      BY <2>2 DEF Primary, PrimaryAt
    <3>2. r.mid = ledger[i].mid
      BY <1>1, <3>1 DEF LineFits, IsLatest
    <3>3. ASSUME NEW k \in 1..Len(ledger), IsLatest(k, r.src, Len(ledger))
          PROVE  k = i
      <4>1. Len(ledger) \in Nat
        BY DEF TypeOK
      <4> QED
        BY <3>1, <3>3, <4>1, LatestUnique
    <3> QED
      BY <1>2, <2>2, <3>1, <3>2, <3>3 DEF FiledMeetings
  <2> QED
    BY <2>1, <2>2
<1>3. \A m \in Meeting : m \in FiledMeetings' <=> m \in FiledMeetings
  BY <1>1, <1>2, FiledAppend
<1>4. FiledMeetings \subseteq Meeting /\ FiledMeetings' \subseteq Meeting
  BY DEF FiledMeetings, Meeting
<1> QED
  BY <1>3, <1>4

\* The first outputs of a source file it under one meeting.
LEMMA FiledGrows ==
  ASSUME TypeOK, NEW p \in Proc, NEW r, Appends(p, r), ~Primary(r.src),
         HasPrimaryArtifacts(r), r.mid \in Meeting, r.mid[1] = r.src
  PROVE  FiledMeetings' = FiledMeetings \cup {r.mid}
<1>1. r \in Record /\ ledger' = Append(ledger, r)
  BY DEF Appends
<1>2. \A m \in Meeting : m[1] = r.src => m \notin FiledMeetings
  BY DEF FiledMeetings, Primary, PrimaryAt
<1>3. \A m \in Meeting : m \in FiledMeetings' <=> m \in FiledMeetings \cup {r.mid}
  BY <1>1, <1>2, FiledAppend
<1>4. FiledMeetings \subseteq Meeting /\ FiledMeetings' \subseteq Meeting
  BY DEF FiledMeetings, Meeting
<1> QED
  BY <1>3, <1>4

-----------------------------------------------------------------------------
(* The steps of the promise.                                               *)

\* With the ledger and the places unchanged nothing the promise speaks of
\* changes.
LEMMA PromiseStutters ==
  ASSUME FiledMeetings' = FiledMeetings, places' = places
  PROVE  UNCHANGED Promise!vars
  BY DEF Promise!vars, WaitingSources, ArchivedSources, RejectedSources, HasProcessedCopy

\* What is filed is a matter of the ledger alone.
LEMMA FiledFrame ==
  ASSUME ledger' = ledger
  PROVE  FiledMeetings' = FiledMeetings
  BY DEF FiledMeetings, IsLatest

\* A source that was filed when the ledger was read, and has no line since,
\* is filed now.
LEMMA StillPrimaryNow ==
  ASSUME TypeOK, NEW s, NEW n, StillPrimary(s, n)
  PROVE  Primary(s)
<1>1. Len(ledger) \in Nat
  BY DEF TypeOK
<1>2. PICK m \in 0..Len(ledger) : m = n
  BY DEF StillPrimary
<1>3. PICK i \in 1..m :
        /\ ledger[i].src = s /\ HasPrimaryArtifacts(ledger[i])
        /\ \A k \in (i + 1)..m : ledger[k].src # s
  BY <1>2 DEF StillPrimary, PrimaryAt, IsLatest
<1>4. \A k \in (m + 1)..Len(ledger) : ledger[k].src # s
  BY <1>2 DEF StillPrimary
<1>5. /\ i \in 1..Len(ledger)
      /\ \A k \in (i + 1)..Len(ledger) : k \in (i + 1)..m \/ k \in (m + 1)..Len(ledger)
  BY <1>1
<1>6. \A k \in (i + 1)..Len(ledger) : ledger[k].src # s
  BY <1>3, <1>4, <1>5
<1> QED
  BY <1>3, <1>5, <1>6 DEF Primary, PrimaryAt, IsLatest

\* The three ways in which the places of one source change.
LEMMA ArchiveStep ==
  ASSUME TypeOK, LedgerSound, NEW s \in Source, Primary(s), FiledMeetings' = FiledMeetings,
         NEW copies, places' = [places EXCEPT ![s] = copies],
         copies \cap {"processed", "truncated"} # {},
         "inbox" \in copies <=> "inbox" \in places[s],
         "quarantine" \in copies <=> "quarantine" \in places[s]
  PROVE  Promise!Archive(s)
<1>1. places'[s] = copies /\ \A x \in Source \ {s} : places'[x] = places[x]
  BY DEF TypeOK
<1>2. WaitingSources' = WaitingSources
  BY <1>1 DEF WaitingSources
<1>3. RejectedSources' = RejectedSources
  BY <1>1 DEF RejectedSources
<1>4. ArchivedSources' = ArchivedSources \cup {s}
  BY <1>1 DEF ArchivedSources, HasProcessedCopy
<1>5. Promise!Filed(s)
  BY FiledIsPrimary
<1> QED
  BY <1>2, <1>3, <1>4, <1>5 DEF Promise!Archive

\* An inbox copy of a filed and archived source is put away.
LEMMA RetireStep ==
  ASSUME TypeOK, LedgerSound, NEW s \in Source, Primary(s), HasProcessedCopy(s),
         FiledMeetings' = FiledMeetings,
         places' = [places EXCEPT ![s] = (@ \ {"inbox"}) \cup {"done"}]
  PROVE  Promise!Retire(s)
<1>1. /\ places'[s] = (places[s] \ {"inbox"}) \cup {"done"}
      /\ \A x \in Source \ {s} : places'[x] = places[x]
  BY DEF TypeOK
<1>2. WaitingSources' = WaitingSources \ {s}
  BY <1>1 DEF WaitingSources
<1>3. RejectedSources' = RejectedSources
  BY <1>1 DEF RejectedSources
<1>4. \A x \in Source : HasProcessedCopy(x)' <=> HasProcessedCopy(x)
  BY <1>1 DEF HasProcessedCopy
<1>5. ArchivedSources' = ArchivedSources
  BY <1>4 DEF ArchivedSources
<1>6. Promise!Filed(s) /\ s \in ArchivedSources
  BY FiledIsPrimary DEF ArchivedSources
<1> QED
  BY <1>2, <1>3, <1>5, <1>6 DEF Promise!Retire

\* An inbox copy of a source that is not filed goes into quarantine.
LEMMA RejectStep ==
  ASSUME TypeOK, LedgerSound, NEW s \in Source, ~Primary(s), "inbox" \in places[s],
         FiledMeetings' = FiledMeetings,
         places' = [places EXCEPT ![s] = (@ \ {"inbox"}) \cup {"quarantine"}]
  PROVE  Promise!Reject(s)
<1>1. /\ places'[s] = (places[s] \ {"inbox"}) \cup {"quarantine"}
      /\ \A x \in Source \ {s} : places'[x] = places[x]
  BY DEF TypeOK
<1>2. WaitingSources' = WaitingSources \ {s} /\ s \in WaitingSources
  BY <1>1 DEF WaitingSources
<1>3. RejectedSources' = RejectedSources \cup {s}
  BY <1>1 DEF RejectedSources
<1>4. \A x \in Source : HasProcessedCopy(x)' <=> HasProcessedCopy(x)
  BY <1>1 DEF HasProcessedCopy
<1>5. ArchivedSources' = ArchivedSources
  BY <1>4 DEF ArchivedSources
<1>6. ~Promise!Filed(s)
  BY FiledIsPrimary
<1> QED
  BY <1>2, <1>3, <1>5, <1>6 DEF Promise!Reject

-----------------------------------------------------------------------------
(* The steps of the pipeline.                                              *)

PromiseStep == [Promise!Next]_Promise!vars

\* A command files a source when it appends its primary line; the other
\* appends leave what is filed as it is.
LEMMA AppendKeeps ==
  ASSUME WorkingInvariant, NEW p \in Proc, AppendStep(p)
  PROVE  PromiseStep
<1>1. TypeOK /\ LedgerSound /\ PrimaryStable /\ JobReady(p) /\ WorkSound(p)
  BY DEF WorkingInvariant
<1>2. places' = places
  BY DEF AppendStep, RecordFailure, AppendPrimary, AppendCompleted, RepairAppend, RedateAppend
<1>3. CASE FiledMeetings' = FiledMeetings
  BY <1>2, <1>3, PromiseStutters DEF PromiseStep
<1>4. CASE ledger' = ledger
  BY <1>3, <1>4, FiledFrame
<1>5. CASE RecordFailure(p)
  <2>1. pc[p] = "fail"
    BY <1>5 DEF RecordFailure, Step
  <2>2. ~Primary(job[p].src)
    BY <1>1, <2>1 DEF WorkSound, FreshSteps
  <2>3. ASSUME NEW r, Appends(p, r), r.out = None
        PROVE  FiledMeetings' = FiledMeetings
    <3>1. r.src = job[p].src
      BY <2>3 DEF Appends
    <3> QED
      BY <1>1, <2>2, <2>3, <3>1, FiledKeeps
  <2> QED
    BY <1>3, <1>4, <1>5, <2>3, FailureLine
<1>6. CASE AppendPrimary(p)
  <2>1. ASSUME NEW r, Appends(p, r), HasPrimaryArtifacts(r),
               r.mid = <<job[p].src, job[p].date>>
        PROVE  PromiseStep
    <3>1. job[p].src \in Source /\ job[p].date \in Date
      <4>1. pc[p] = "append_primary"
        BY <1>6 DEF AppendPrimary, Step
      <4> QED
        BY <1>1, <4>1 DEF JobReady, SourceSteps, DateSteps, FreshSteps
    <3>2. r.src = job[p].src /\ ~Primary(r.src)
      BY <1>6, <2>1, PrimaryLine DEF Appends
    <3>3. r.mid \in Meeting /\ r.mid[1] = r.src
      BY <2>1, <3>1, <3>2 DEF Meeting
    <3>4. FiledMeetings' = FiledMeetings \cup {<<job[p].src, job[p].date>>}
      BY <1>1, <2>1, <3>2, <3>3, FiledGrows
    <3>5. ~Promise!Filed(job[p].src)
      BY <1>1, <3>1, <3>2, FiledIsPrimary
    <3>6. UNCHANGED <<WaitingSources, ArchivedSources, RejectedSources>>
      BY <1>2 DEF WaitingSources, ArchivedSources, RejectedSources, HasProcessedCopy
    <3>7. Promise!File(job[p].src, job[p].date)
      BY <3>4, <3>5, <3>6 DEF Promise!File
    <3> QED
      BY <3>1, <3>7 DEF PromiseStep, Promise!Next
  <2> QED
    BY <1>4, <1>6, <2>1, PrimaryLine
<1>7. CASE AppendCompleted(p) \/ RepairAppend(p) \/ RedateAppend(p)
  <2>1. ASSUME NEW r, Appends(p, r), HasPrimaryArtifacts(r)
        PROVE  FiledMeetings' = FiledMeetings
    <3>1. r.src = job[p].src
      BY <2>1 DEF Appends
    <3>2. Primary(job[p].src)
      BY <1>7, CarriedLine
    <3> QED
      BY <1>1, <2>1, <3>1, <3>2, FiledKeeps
  <2> QED
    BY <1>3, <1>4, <1>7, <2>1, CarriedLine
<1> QED
  BY <1>5, <1>6, <1>7 DEF AppendStep

\* The steps that copy or move a source.
PlaceStep(p) ==
  \/ Quarantine(p) \/ ArchiveCopy(p) \/ ReconcileMove(p) \/ RepairCopy(p) \/ RepairMove(p)
  \/ Abort(p) \/ Crash(p)

\* Nothing but those steps changes where the copies of a source are.
LEMMA PlacesFrame ==
  ASSUME NEW p \in Proc, Start(p) \/ Advance(p) \/ Abort(p) \/ Crash(p), ~PlaceStep(p)
  PROVE  places' = places
<1>1. CASE Start(p)
  BY <1>1 DEF Start, StartIngest, StartRepairDate, StartReconcile, disk
<1>2. CASE Acquire(p) \/ LockConflict(p) \/ Release(p)
  BY <1>2 DEF Acquire, LockConflict, Release, disk
<1>3. CASE Ingest(p)
  BY <1>3 DEF PlaceStep, Ingest, PrepareDuplicate, PrepareFresh, PrepareUnreadable,
              PrepareGone, ProviderAccepted, ProviderRejected, RecordFailure, Mint,
              WriteSignals, WriteArtifact, AppendPrimary, VerifyLink, AppendCompleted, disk
<1>4. CASE Reconcile(p)
  BY <1>4 DEF PlaceStep, Reconcile, ReconcileScan, RepairDone, RepairAppend, disk
<1>5. CASE RepairDate(p)
  BY <1>5 DEF RepairDate, RepairNothing, RepairTarget, RedateWrite, RedateUnlink,
              RedateSignals, RedateAppend, RedateUnreadable, RedateVerify, disk
<1> QED
  BY <1>1, <1>2, <1>3, <1>4, <1>5 DEF Advance, PlaceStep

\* A copy is archived, put away or rejected only when the promise allows it.
LEMMA PlaceKeeps ==
  ASSUME WorkingInvariant, NEW p \in Proc, PlaceStep(p)
  PROVE  PromiseStep
<1>1. /\ TypeOK /\ LedgerSound /\ JobReady(p) /\ WorkSound(p)
      /\ job[p] \in Job /\ places \in [Source -> SUBSET Places]
  BY DEF WorkingInvariant, TypeOK
<1>2. FiledMeetings' = FiledMeetings
  <2>1. ledger' = ledger
    BY DEF PlaceStep, Quarantine, ArchiveCopy, ReconcileMove, RepairCopy, RepairMove,
           Abort, Crash
  <2> QED
    BY <2>1, FiledFrame
<1>3. CASE places' = places
  BY <1>2, <1>3, PromiseStutters DEF PromiseStep
<1>4. ASSUME NEW s \in Source,
             Promise!Archive(s) \/ Promise!Retire(s) \/ Promise!Reject(s)
      PROVE  PromiseStep
  BY <1>4 DEF PromiseStep, Promise!Next
<1>5. ASSUME pc[p] \in FiledSteps
      PROVE  job[p].src \in Source /\ Primary(job[p].src)
  BY <1>1, <1>5 DEF JobReady, SourceSteps, WorkSound, Primary, PrimaryAt
<1>6. ASSUME pc[p] \in RepairSteps \cup {"repair_copy"}, NEW s \in job[p].todo
      PROVE  s \in Source /\ Primary(s)
  BY <1>1, <1>6, StillPrimaryNow DEF WorkSound, Job
<1>7. CASE Quarantine(p)
  <2>1. pc[p] = "quarantine"
    BY <1>7 DEF Quarantine, Step
  <2>2. /\ job[p].src \in Source /\ ~Primary(job[p].src)
        /\ "inbox" \in places[job[p].src]
    BY <1>1, <2>1 DEF JobReady, SourceSteps, FreshSteps, WorkSound
  <2>3. Promise!Reject(job[p].src)
    BY <1>1, <1>2, <1>7, <2>2, RejectStep DEF Quarantine
  <2> QED
    BY <1>4, <2>2, <2>3
<1>8. CASE ArchiveCopy(p)
  <2>1. job[p].src \in Source /\ Primary(job[p].src)
    BY <1>5, <1>8 DEF ArchiveCopy, Step, FiledSteps
  <2>2. places' = [places EXCEPT ![job[p].src] = Archived(job[p].src)] \/ places' = places
    BY <1>1, <1>8 DEF ArchiveCopy
  <2>3. /\ Archived(job[p].src) \cap {"processed", "truncated"} # {}
        /\ "inbox" \in Archived(job[p].src) <=> "inbox" \in places[job[p].src]
        /\ "quarantine" \in Archived(job[p].src) <=> "quarantine" \in places[job[p].src]
    BY DEF Archived
  <2> QED
    BY <1>1, <1>2, <1>3, <1>4, <2>1, <2>2, <2>3, ArchiveStep
<1>9. CASE ReconcileMove(p)
  <2>1. /\ job[p].src \in Source /\ Primary(job[p].src)
        /\ HasProcessedCopy(job[p].src)
    BY <1>1, <1>5, <1>9 DEF ReconcileMove, Step, FiledSteps, WorkSound
  <2>2. \/ places' = [places EXCEPT ![job[p].src] = (@ \ {"inbox"}) \cup {"done"}]
        \/ places' = places
    BY <1>9 DEF ReconcileMove, MoveToDone
  <2> QED
    BY <1>1, <1>2, <1>3, <1>4, <2>1, <2>2, RetireStep
<1>10. CASE RepairCopy(p)
  <2>1. PICK s \in job[p].todo :
          \/ places' = [places EXCEPT ![s] = Archived(s)]
          \/ places' = [places EXCEPT ![s] = places[s]]
    BY <1>10 DEF RepairCopy
  <2>2. s \in Source /\ Primary(s)
    BY <1>6, <1>10 DEF RepairCopy, Step
  <2>3. /\ Archived(s) \cap {"processed", "truncated"} # {}
        /\ "inbox" \in Archived(s) <=> "inbox" \in places[s]
        /\ "quarantine" \in Archived(s) <=> "quarantine" \in places[s]
    BY DEF Archived
  <2>4. CASE places' = [places EXCEPT ![s] = places[s]]
    BY <1>1, <1>3, <2>4
  <2>5. CASE places' = [places EXCEPT ![s] = Archived(s)]
    BY <1>1, <1>2, <1>4, <2>2, <2>3, <2>5, ArchiveStep
  <2> QED
    BY <2>1, <2>4, <2>5
<1>11. CASE RepairMove(p)
  <2>1. job[p].src \in job[p].todo /\ HasProcessedCopy(job[p].src)
    BY <1>1, <1>11 DEF RepairMove, Step, WorkSound, RepairSteps
  <2>2. job[p].src \in Source /\ Primary(job[p].src)
    BY <1>6, <1>11, <2>1 DEF RepairMove, Step, RepairSteps
  <2>3. \/ places' = [places EXCEPT ![job[p].src] = (@ \ {"inbox"}) \cup {"done"}]
        \/ places' = places
    BY <1>11 DEF RepairMove, MoveToDone
  <2> QED
    BY <1>1, <1>2, <1>3, <1>4, <2>1, <2>2, <2>3, RetireStep
<1>12. CASE Abort(p) \/ Crash(p)
  <2>1. CutShort(p)
    BY <1>12 DEF Abort, Crash
  <2>2. CASE \E s \in IF pc[p] = "archive" THEN {job[p].src}
                        ELSE IF pc[p] = "repair_copy"
                               THEN {d \in job[p].todo : ~HasProcessedCopy(d)} ELSE {} :
               places' = [places EXCEPT ![s] = (@ \ {"processed"}) \cup {"truncated"}]
    <3>1. PICK s : /\ places' = [places EXCEPT ![s] = (@ \ {"processed"}) \cup {"truncated"}]
                   /\ \/ pc[p] = "archive" /\ s = job[p].src
                      \/ pc[p] = "repair_copy" /\ s \in job[p].todo
      BY <2>2
    <3>2. s \in Source /\ Primary(s)
      BY <1>5, <1>6, <3>1 DEF FiledSteps
    <3> DEFINE copies == (places[s] \ {"processed"}) \cup {"truncated"}
    <3>3. /\ copies \cap {"processed", "truncated"} # {}
          /\ "inbox" \in copies <=> "inbox" \in places[s]
          /\ "quarantine" \in copies <=> "quarantine" \in places[s]
      OBVIOUS
    <3>4. places' = [places EXCEPT ![s] = copies]
      BY <3>1
    <3> HIDE DEF copies
    <3> QED
      BY <1>1, <1>2, <1>4, <3>2, <3>3, <3>4, ArchiveStep
  <2> QED
    BY <1>3, <2>1, <2>2 DEF CutShort
<1> QED
  BY <1>7, <1>8, <1>9, <1>10, <1>11, <1>12 DEF PlaceStep

\* Every step of the pipeline is a step of the promise or a stutter.
LEMMA StepKept ==
  ASSUME WorkingInvariant, [Next]_vars
  PROVE  PromiseStep
<1>1. CASE ledger' = ledger /\ places' = places
  BY <1>1, FiledFrame, PromiseStutters DEF PromiseStep
<1>2. ASSUME NEW p \in Proc, Start(p) \/ Advance(p) \/ Abort(p) \/ Crash(p)
      PROVE  PromiseStep
  BY <1>1, <1>2, LedgerFrame, PlacesFrame, AppendKeeps, PlaceKeeps
<1>3. CASE \E s \in Source : Drop(s)
  <2>1. PICK s \in Source : Drop(s)
    BY <1>3
  <2>2. TypeOK /\ ledger' = ledger /\ places' = [places EXCEPT ![s] = @ \cup {"inbox"}]
    BY <2>1 DEF Drop, WorkingInvariant
  <2>3. /\ places'[s] = places[s] \cup {"inbox"}
        /\ \A x \in Source \ {s} : places'[x] = places[x]
    BY <2>2 DEF TypeOK
  <2>4. WaitingSources' = WaitingSources \cup {s}
    BY <2>3 DEF WaitingSources
  <2>5. RejectedSources' = RejectedSources
    BY <2>3 DEF RejectedSources
  <2>6. \A x \in Source : HasProcessedCopy(x)' <=> HasProcessedCopy(x)
    BY <2>3 DEF HasProcessedCopy
  <2>7. ArchivedSources' = ArchivedSources
    BY <2>6 DEF ArchivedSources
  <2>8. Promise!Arrive(s)
    BY <2>2, <2>4, <2>5, <2>7, FiledFrame DEF Promise!Arrive
  <2> QED
    BY <2>8 DEF PromiseStep, Promise!Next
<1>4. CASE RemoveStaleLock \/ UNCHANGED vars
  BY <1>1, <1>4 DEF RemoveStaleLock, vars, disk
<1> QED
  BY <1>2, <1>3, <1>4 DEF Next

\* The initial states of the pipeline are initial states of the promise.
LEMMA InitKept ==
  ASSUME Init
  PROVE  Promise!Init
<1>1. Len(ledger) = 0
  BY DEF Init
<1>2. FiledMeetings = {}
  BY <1>1 DEF FiledMeetings
<1>3. \A s \in Source : places[s] = {"inbox"} \/ places[s] = {"outside"}
  BY DEF Init
<1>4. ArchivedSources = {} /\ RejectedSources = {}
  BY <1>3 DEF ArchivedSources, RejectedSources, HasProcessedCopy
<1>5. WaitingSources \in SUBSET Source
  BY DEF WaitingSources
<1> QED
  BY <1>2, <1>4, <1>5 DEF Promise!Init

\* The pipeline implements the promise: however its commands interleave, fail
\* and are killed, a source is filed once and for good, archived only when
\* filed, put away only when archived, and rejected only while not filed.
THEOREM Refinement == Spec => PromiseKept
<1>1. Init => Promise!Init
  BY InitKept
<1>2. WorkingInvariant /\ [Next]_vars => [Promise!Next]_Promise!vars
  BY StepKept DEF PromiseStep
<1> QED
  BY <1>1, <1>2, Invariance, PTL DEF Spec, PromiseKept, Promise!Spec
=============================================================================
