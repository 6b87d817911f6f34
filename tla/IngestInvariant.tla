--------------------------- MODULE IngestInvariant ---------------------------
(***************************************************************************)
(* The inductive invariant behind the safety of IngestPipeline: what a     *)
(* process that holds the lock knows of the ledger and of the disk at each *)
(* of its steps.                                                           *)
(***************************************************************************)
EXTENDS IngestRefinement

\* Steps of an ingest that has found the source to be new.
FreshSteps == {"extract", "quarantine", "fail", "mint", "write_signals",
               "write_artifact", "append_primary"}

\* Steps of an ingest whose outputs are in the ledger.
FiledSteps == {"verify", "archive", "move", "append_completed"}

RepairSteps == {"repair_move", "repair_append"}

RedateSteps == {"redate_write", "redate_unlink", "redate_signals", "redate_append"}

MintedSteps == {"write_signals", "write_artifact", "append_primary"} \cup RedateSteps

\* Steps at which the job names a source, a date, outputs.
SourceSteps == FreshSteps \cup FiledSteps \cup RepairSteps \cup RedateSteps
                 \cup {"prepare", "target"}

DateSteps == (FreshSteps \ {"quarantine", "fail"}) \cup FiledSteps \cup RedateSteps
               \cup {"target"}

OutputSteps == MintedSteps \cup FiledSteps

\* The local variables that a step reads have been set.
JobReady(p) ==
  /\ pc[p] = "acquire" =>
       /\ job[p].op # "none"
       /\ job[p].op # "reconcile" => job[p].src \in Source
       /\ job[p].op = "repair-date" => job[p].date \in Date
  /\ pc[p] \in SourceSteps => job[p].src \in Source
  /\ pc[p] \in DateSteps => job[p].date \in Date
  /\ pc[p] \in OutputSteps =>
       /\ job[p].prod \in RecordId
       /\ job[p].prod.src = job[p].src
       /\ job[p].path \in Date \X Nat
  /\ pc[p] \in MintedSteps \ RedateSteps => job[p].prod.event = "primary_artifacts_ready"
  /\ pc[p] \in RedateSteps => job[p].prod.event = "date_repaired"
  /\ pc[p] \in {"quarantine", "fail"} => job[p].event # "none"

\* A line with outputs is an event that announces them and names a meeting of
\* its own source, and every source on the ledger has a last line.
LedgerSound ==
  /\ \A i \in 1..Len(ledger) :
       ledger[i].out # None =>
         /\ ledger[i].event \in PrimaryEvents
         /\ ledger[i].mid \in Meeting
         /\ ledger[i].mid[1] = ledger[i].src
  /\ \A i \in 1..Len(ledger) : \E j \in 1..Len(ledger) :
       IsLatest(j, ledger[i].src, Len(ledger))

\* The first n lines say all the ledger says about s, and say it has outputs.
StillPrimary(s, n) ==
  /\ n \in 0..Len(ledger)
  /\ PrimaryAt(s, n)
  /\ \A j \in (n + 1)..Len(ledger) : ledger[j].src # s

\* What the holder of the lock relies on.
WorkSound(p) ==
  /\ pc[p] \in FreshSteps => ~Primary(job[p].src)
  /\ pc[p] \in FiledSteps =>
       \E i \in 1..Len(ledger) :
         /\ IsLatest(i, job[p].src, Len(ledger))
         /\ HasPrimaryArtifacts(ledger[i])
         /\ ledger[i].mid = <<job[p].src, job[p].date>>
  /\ pc[p] \in RepairSteps \cup {"repair_copy"} =>
       \A s \in job[p].todo : StillPrimary(s, job[p].snap)
  /\ pc[p] \in RepairSteps => job[p].src \in job[p].todo
  /\ pc[p] \in RedateSteps => job[p].snap = Len(ledger)
  /\ pc[p] \in {"move", "repair_move"} => HasProcessedCopy(job[p].src)
  /\ pc[p] = "quarantine" => "inbox" \in places[job[p].src]

\* Inductive: it implies TypeOK, OneWriter, PrimaryStable and
\* MintedIdentityHolds, and with it every step of the pipeline is a step of
\* the promise or leaves it unchanged.
WorkingInvariant ==
  /\ TypeOK
  /\ OneWriter
  /\ \A p \in Proc : JobReady(p) /\ WorkSound(p)
  /\ LedgerSound
  /\ PrimaryStable
  /\ MintedIdentityHolds

\* A name chosen for an artifact is still free when the artifact is written,
\* or, in a date repair, is the name of the outputs that are being repaired.
PathFree(p) ==
  /\ pc[p] \in {"write_signals", "write_artifact"} =>
       job[p].path \notin DOMAIN artifacts
  /\ pc[p] = "redate_write" /\ job[p].path \in DOMAIN artifacts =>
       \E k \in 1..Len(ledger) :
         /\ IsTarget(k, job[p].src, Len(ledger))
         /\ ledger[k].out.path = job[p].path

\* Inductive together with WorkingInvariant; it implies OutputsUntouched.
PathsFree == \A p \in Proc : PathFree(p)

-----------------------------------------------------------------------------
(* What the ledger says of the disk: the invariant behind CurrentStateSound. *)

\* ledger[i] is the current record of its source and has outputs.
IsCurrent(i) ==
  /\ i \in 1..Len(ledger)
  /\ IsLatest(i, ledger[i].src, Len(ledger)) /\ ledger[i].out # None

\* No identity is appended twice, and the outputs of every line are those of one
\* that says it produced them, under a name that begins with their date.
ProducersSound ==
  /\ \A i, j \in 1..Len(ledger) :
       ledger[i].src = ledger[j].src /\ ledger[i].seq = ledger[j].seq => i = j
  /\ \A i \in 1..Len(ledger) : ledger[i].out # None =>
       /\ ledger[i].out.prod.src = ledger[i].src
       /\ ledger[i].out.path[1] = ledger[i].out.date
       /\ \E k \in 1..Len(ledger) :
            /\ IdOf(ledger[k]) = ledger[i].out.prod /\ ledger[k].produced
            /\ ledger[k].out = ledger[i].out /\ ledger[k].mid = ledger[i].mid

\* A line that says its source is archived says the truth.
CopiesKept ==
  \A i \in 1..Len(ledger) : ledger[i].archived => HasProcessedCopy(ledger[i].src)

\* The outputs, as the job of p would write them into a line.
JobOutput(p) == [path |-> job[p].path, prod |-> job[p].prod, date |-> job[p].date]

\* What p knows of the files that it or its predecessors wrote.
FilesKnown(p) ==
  LET mid == <<job[p].src, job[p].date>> IN
  /\ pc[p] \in OutputSteps => job[p].path[1] = job[p].date
  /\ pc[p] \in {"write_artifact", "append_primary"} =>
       signals[mid] = SignalsOf(job[p].prod, job[p].date)
  /\ pc[p] = "append_primary" =>
       /\ job[p].path \in DOMAIN artifacts
       /\ artifacts[job[p].path] = ArtifactOf(mid, job[p].prod, job[p].date)
  /\ pc[p] \in FiledSteps =>
       \E i \in 1..Len(ledger) :
         /\ IsLatest(i, job[p].src, Len(ledger))
         /\ ledger[i].mid = mid /\ ledger[i].out = JobOutput(p)
  /\ pc[p] \in {"append_completed", "repair_append"} => HasProcessedCopy(job[p].src)

\* The outputs of the current record i are on disk, except for what the repair
\* of its source has already replaced.
OutputsOnDisk(i) ==
  LET r == ledger[i]
      Repairing(steps) == \E p \in Proc : pc[p] \in steps /\ job[p].src = r.src
  IN
  /\ ~Repairing({"redate_signals", "redate_append"}) =>
       /\ r.out.path \in DOMAIN artifacts
       /\ artifacts[r.out.path] = ArtifactOf(r.mid, r.out.prod, r.out.date)
  /\ ~Repairing({"redate_append"}) => signals[r.mid] = SignalsOf(r.out.prod, r.out.date)

\* A date repair writes a new file, next to the one that its record names.
RepairKnown(p) ==
  /\ pc[p] = "redate_write" => job[p].path \notin DOMAIN artifacts
  /\ Redating(p) =>
       /\ job[p].path \in DOMAIN artifacts
       /\ \E i \in 1..Len(ledger) :
            /\ IsCurrent(i) /\ ledger[i].src = job[p].src
            /\ ledger[i].out.path # job[p].path
            /\ artifacts[job[p].path] = ArtifactOf(ledger[i].mid, job[p].prod, job[p].date)
            /\ pc[p] = "redate_append" =>
                 signals[ledger[i].mid] = SignalsOf(job[p].prod, job[p].date)

DiskSound ==
  /\ \A i \in 1..Len(ledger) : IsCurrent(i) => OutputsOnDisk(i)
  /\ \A p \in Proc : RepairKnown(p)

\* Inductive together with WorkingInvariant and PathsFree; it implies
\* CurrentStateSound.  What a stopped repair leaves is never named or removed
\* again, so that RepairsSettled, once false, stays false.
DiskInvariant ==
  /\ ProducersSound
  /\ CopiesKept
  /\ \A p \in Proc : FilesKnown(p)
  /\ RepairsSettled => DiskSound
=============================================================================
