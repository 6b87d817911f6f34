--------------------------- MODULE IngestPipeline ---------------------------
(***************************************************************************)
(* The core of meeting-ingest: the commands that turn one source           *)
(* transcript into durable project outputs, run by independent processes   *)
(* that share nothing but the project directory.                           *)
(*                                                                         *)
(*   ingest       pipeline.py  _ingest_locked, _finish_ingest              *)
(*   reconcile    pipeline.py  reconcile                                   *)
(*   repair-date  pipeline.py  _repair_date_locked                         *)
(*                                                                         *)
(* Every file-system effect is a step of its own: a process may be killed  *)
(* (Crash) or see an OSError (Abort) between any two of them.  The project *)
(* lock is a file made with O_CREAT|O_EXCL, so a killed process leaves it  *)
(* behind until somebody removes it by hand.                               *)
(***************************************************************************)
EXTENDS Naturals, Sequences, FiniteSets

CONSTANTS
  Proc,        \* command processes
  Source,      \* source transcripts, each one a distinct content hash
  Date,        \* calendar dates a meeting can be given
  None,        \* no lock holder, no meeting id, no outputs, no file
  Commands,    \* the commands the operator uses in this project
  MaxRuns,     \* bound: ingest and repair-date invocations
  MaxFaults,   \* bound: kills and I/O errors while a command holds the lock
  MaxDrops     \* bound: copies dropped into the inbox

ASSUME ConstantsAssumption ==
  /\ None \notin Proc
  /\ Commands \subseteq {"ingest", "reconcile", "repair-date"}
  /\ MaxRuns \in Nat
  /\ MaxFaults \in Nat
  /\ MaxDrops \in Nat

VARIABLES
  lock,       \* content of _cache/meeting-ingest.lock: the process that made it
  ledger,     \* the lines of the append-only source ledger
  places,     \* directories that hold a copy of each source
  artifacts,  \* Markdown files: path -> content
  signals,    \* signal files: meeting id -> content
  pc,         \* next step of each process
  job,        \* local variables of each process
  runs,       \* ingest and repair-date invocations so far
  faults,     \* kills and I/O errors so far
  drops       \* copies dropped so far

disk == <<ledger, places, artifacts, signals>>
budget == <<runs, faults, drops>>
vars == <<lock, ledger, places, artifacts, signals, pc, job, runs, faults, drops>>

-----------------------------------------------------------------------------
(* Values.                                                                 *)

\* _inbox, _inbox/_done, _processed, _quarantine, or a directory of the
\* operator's.  "truncated" is a file in _processed that a kill cut short.
Places == {"inbox", "done", "processed", "truncated", "quarantine", "outside"}

\* mint_meeting_id: the date of the attempt that minted it, and the source.
Meeting == Source \X Date

Events == {"primary_artifacts_ready", "ingest_completed", "reconcile_repaired",
           "date_repaired", "ingest_failed", "source_quarantined"}

PrimaryEvents == {"primary_artifacts_ready", "ingest_completed",
                  "reconcile_repaired", "date_repaired"}

\* A ledger record id is a hash of exactly these fields.
RecordId == [src : Source, seq : Nat, event : Events, run : Nat]

\* What a snapshot says of the current artifact and signal file.  One output
\* mode exists, and the artifact and the signals are always written by the
\* same operation, so they have one producer.  prod and date stand for the
\* signal fingerprint: the bytes are a function of them.
Output == [path : Date \X Nat, prod : RecordId, date : Date]

ASSUME NoneAssumption == None \notin Output

Record == [src : Source, seq : Nat, event : Events, run : Nat,
           mid : Meeting \cup {None}, out : Output \cup {None},
           produced : BOOLEAN, archived : BOOLEAN,
           reconcile : {"pending", "completed", "skipped"}]

\* A write_text cut short by a kill: no front matter that parses.
PartialFile == [mid |-> None, prod |-> None, date |-> None]

NoJob == [op |-> "none", src |-> None, at |-> "outside", date |-> None,
          run |-> 0, snap |-> 0, prod |-> None, path |-> None,
          todo |-> {}, event |-> "none", moved |-> FALSE, changed |-> FALSE]

-----------------------------------------------------------------------------
(* The source ledger.                                                      *)

IdOf(r) == [src |-> r.src, seq |-> r.seq, event |-> r.event, run |-> r.run]

HasPrimaryArtifacts(r) == r.event \in PrimaryEvents /\ r.out # None

\* ledger[i] is the last of the first n lines that is about source s.
IsLatest(i, s, n) ==
  /\ i \in 1..n
  /\ ledger[i].src = s
  /\ \A j \in (i + 1)..n : ledger[j].src # s

\* The record a reader of the first n lines works with has outputs.
PrimaryAt(s, n) ==
  \E i \in 1..n : IsLatest(i, s, n) /\ HasPrimaryArtifacts(ledger[i])

Primary(s) == PrimaryAt(s, Len(ledger))

\* k is one more than the highest sequence appended for s.
IsNextSequence(k, s) ==
  /\ \A i \in 1..Len(ledger) : ledger[i].src = s => ledger[i].seq < k
  /\ k = 1 \/ \E i \in 1..Len(ledger) : ledger[i].src = s /\ ledger[i].seq = k - 1

\* mint_ledger_identity
MintIdentity(id, s, event, run) ==
  \E k \in 1..(Len(ledger) + 1) :
    /\ IsNextSequence(k, s)
    /\ id = [src |-> s, seq |-> k, event |-> event, run |-> run]

IdentityFree(id) ==
  \A i \in 1..Len(ledger) :
    ledger[i].src = id.src => ledger[i].seq # id.seq

\* append_snapshot: an identity that has already been appended is refused
\* with ledger_identity_conflict, and nothing is written.
AppendSnapshot(id, mid, out, produced, archived, reconcile) ==
  ledger' =
    IF IdentityFree(id)
      THEN Append(ledger,
             [src |-> id.src, seq |-> id.seq, event |-> id.event, run |-> id.run,
              mid |-> mid, out |-> out, produced |-> produced,
              archived |-> archived, reconcile |-> reconcile])
      ELSE ledger

\* append_snapshot called without an identity mints one on the spot.
AppendMinted(s, event, run, mid, out, archived, reconcile) ==
  \E k \in 1..(Len(ledger) + 1) :
    /\ IsNextSequence(k, s)
    /\ AppendSnapshot([src |-> s, seq |-> k, event |-> event, run |-> run],
                      mid, out, FALSE, archived, reconcile)

-----------------------------------------------------------------------------
(* Artifacts and signal files.                                             *)

\* Mutant: a name is free when no file of the same operation has it.
FreePathUnchecked(path, d, current) == path = <<d, 1>>

\* _next_artifact_path, _repaired_artifact_path: the first free numeric
\* suffix; a file that is already there counts as taken unless it is the
\* current one, being repaired.  Titles are alike, so dates and suffixes tell
\* all.
FreePath(path, d, current) ==
  LET Taken(n) == <<d, n>> \in DOMAIN artifacts \ current
  IN \E n \in 1..(Cardinality(DOMAIN artifacts) + 1) :
       /\ path = <<d, n>>
       /\ ~Taken(n)
       /\ \A m \in 1..(n - 1) : Taken(m)

WithFile(path, content) ==
  [f \in DOMAIN artifacts \cup {path} |->
     IF f = path THEN content ELSE artifacts[f]]

WithoutFile(path) == [f \in DOMAIN artifacts \ {path} |-> artifacts[f]]

ArtifactOf(mid, prod, d) == [mid |-> mid, prod |-> prod, date |-> d]

SignalsOf(prod, d) == [prod |-> prod, date |-> d]

\* The ledger lines that claim to have produced the outputs of r.
ProducersOf(r) ==
  {i \in 1..Len(ledger) :
     /\ IdOf(ledger[i]) = r.out.prod
     /\ ledger[i].out # None
     /\ ledger[i].out.prod = r.out.prod
     /\ ledger[i].produced}

\* _verify_signal_producer_link
ProducerLinkHolds(mid, prod, d) ==
  /\ signals[mid] = SignalsOf(prod, d)
  /\ Cardinality({i \in 1..Len(ledger) :
                    /\ IdOf(ledger[i]) = prod
                    /\ ledger[i].out # None
                    /\ ledger[i].out.prod = prod
                    /\ ledger[i].out.date = d
                    /\ ledger[i].produced}) = 1

-----------------------------------------------------------------------------
(* What doctor reports of the current record r of a source, and the        *)
(* readiness guard that every command evaluates before it takes the lock.  *)

MissingArtifact(r) ==
  /\ r.out.path \notin DOMAIN artifacts
  /\ Cardinality({f \in DOMAIN artifacts : artifacts[f].mid = r.mid}) # 1

\* processed_path_for_source names one file; doctor and the duplicate repair
\* only ask whether it exists.
HasProcessedCopy(s) == places[s] \cap {"processed", "truncated"} # {}

MissingProcessedSource(r) == r.archived /\ ~HasProcessedCopy(r.src)

SignalLinkInvalid(r) ==
  \/ signals[r.mid] # SignalsOf(r.out.prod, r.out.date)
  \/ Cardinality(ProducersOf(r)) # 1
  \/ \E i \in ProducersOf(r) :
       ledger[i].out.date # r.out.date \/ ledger[i].mid # r.mid

ArtifactProvenanceMismatch(r) ==
  /\ r.out.path \in DOMAIN artifacts
  /\ artifacts[r.out.path] # PartialFile
  /\ \/ artifacts[r.out.path].prod # r.out.prod
     \/ Cardinality(ProducersOf(r)) # 1
     \/ \E i \in ProducersOf(r) : ledger[i].out.path # r.out.path

IncompleteReconcile(r) == HasPrimaryArtifacts(r) /\ r.reconcile = "pending"

\* Findings that no command of this module is exempt from.
Unsound(r) ==
  \/ MissingProcessedSource(r)
  \/ r.out # None /\ \/ MissingArtifact(r)
                     \/ SignalLinkInvalid(r)
                     \/ ArtifactProvenanceMismatch(r)

\* require_write_readiness
Ready(op) ==
  /\ lock = None
  /\ \A i \in 1..Len(ledger) :
       IsLatest(i, ledger[i].src, Len(ledger)) =>
         /\ ~Unsound(ledger[i])
         /\ op = "repair-date" => ~IncompleteReconcile(ledger[i])

-----------------------------------------------------------------------------
(* Process steps.                                                          *)

Step(p, from, to) == pc[p] = from /\ pc' = [pc EXCEPT ![p] = to]

\* The local variables of p become j.
Local(p, j) == job' = [job EXCEPT ![p] = j]

\* The steps at which a process holds, or believes it holds, the lock.
Locked(p) == pc[p] \notin {"idle", "acquire"}

Init ==
  /\ lock = None
  /\ ledger = <<>>
  /\ places \in [Source -> {{"inbox"}, {"outside"}}]
  /\ artifacts = <<>>
  /\ signals = [m \in Meeting |-> None]
  /\ pc = [p \in Proc |-> "idle"]
  /\ job = [p \in Proc |-> NoJob]
  /\ runs = 0 /\ faults = 0 /\ drops = 0

\* A command starts: the readiness guard runs before the lock is taken.
StartIngest(p, s, at) ==
  /\ "ingest" \in Commands /\ runs < MaxRuns /\ at \in places[s]
  /\ Ready("ingest")
  /\ Step(p, "idle", "acquire")
  /\ runs' = runs + 1
  /\ Local(p, [NoJob EXCEPT !.op = "ingest", !.src = s,
                         !.at = at, !.run = runs + 1])
  /\ UNCHANGED <<lock, disk, faults, drops>>

StartRepairDate(p, s, d) ==
  /\ "repair-date" \in Commands /\ runs < MaxRuns
  /\ Ready("repair-date")
  /\ Step(p, "idle", "acquire")
  /\ runs' = runs + 1
  /\ Local(p, [NoJob EXCEPT !.op = "repair-date", !.src = s, !.date = d])
  /\ UNCHANGED <<lock, disk, faults, drops>>

StartReconcile(p) ==
  /\ "reconcile" \in Commands
  /\ Ready("reconcile")
  /\ Step(p, "idle", "acquire")
  /\ Local(p, [NoJob EXCEPT !.op = "reconcile", !.at = "inbox"])
  /\ UNCHANGED <<lock, disk, budget>>

\* Mutant: the lock file is opened without O_EXCL.
AcquireShared(p) ==
  /\ lock' = p
  /\ Step(p, "acquire", CASE job[p].op = "ingest" -> "prepare"
                          [] job[p].op = "reconcile" -> "scan"
                          [] job[p].op = "repair-date" -> "target")
  /\ UNCHANGED <<disk, job, budget>>

\* ProjectLock.__enter__: one attempt, no waiting.
Acquire(p) ==
  /\ lock = None
  /\ lock' = p
  /\ Step(p, "acquire", CASE job[p].op = "ingest" -> "prepare"
                          [] job[p].op = "reconcile" -> "scan"
                          [] job[p].op = "repair-date" -> "target")
  /\ UNCHANGED <<disk, job, budget>>

LockConflict(p) ==
  /\ lock # None
  /\ Step(p, "acquire", "idle")
  /\ Local(p, NoJob)
  /\ UNCHANGED <<lock, disk, budget>>

\* ProjectLock.__exit__ unlinks whatever lock file is there.
Release(p) ==
  /\ Step(p, "release", "idle")
  /\ lock' = None
  /\ Local(p, NoJob)
  /\ UNCHANGED <<disk, budget>>

-----------------------------------------------------------------------------
(* ingest.                                                                 *)

\* _prepare_ingest: hash the source and read its latest record.
PrepareDuplicate(p) ==
  LET s == job[p].src IN
  /\ Step(p, "prepare", "repair_copy")
  /\ job[p].at \in places[s] /\ Primary(s)
  /\ Local(p, [job[p] EXCEPT !.snap = Len(ledger), !.todo = {s}])
  /\ UNCHANGED <<lock, disk, budget>>

\* Mutant: the duplicate check is left to somebody else.
PrepareAnyway(p) ==
  LET s == job[p].src IN
  /\ Step(p, "prepare", "extract")
  /\ job[p].at \in places[s]
  /\ \E d \in Date :
       Local(p, [job[p] EXCEPT !.snap = Len(ledger), !.date = d])
  /\ UNCHANGED <<lock, disk, budget>>

\* extract_source read the transcript and chose a date.
PrepareFresh(p) ==
  LET s == job[p].src IN
  /\ Step(p, "prepare", "extract")
  /\ job[p].at \in places[s] /\ ~Primary(s)
  /\ \E d \in Date :
       Local(p, [job[p] EXCEPT !.snap = Len(ledger), !.date = d])
  /\ UNCHANGED <<lock, disk, budget>>

\* Mutant: the source is extracted before the duplicate check.
PrepareUnreadableFirst(p) ==
  LET s == job[p].src IN
  /\ Step(p, "prepare", IF job[p].at = "inbox" THEN "quarantine" ELSE "fail")
  /\ job[p].at \in places[s]
  /\ Local(p, [job[p] EXCEPT !.event = "ingest_failed", !.run = 0])
  /\ UNCHANGED <<lock, disk, budget>>

\* extract_source failed; _record_source_failure quarantines inbox files.
PrepareUnreadable(p) ==
  LET s == job[p].src IN
  /\ Step(p, "prepare", IF job[p].at = "inbox" THEN "quarantine" ELSE "fail")
  /\ job[p].at \in places[s] /\ ~Primary(s)
  /\ Local(p, [job[p] EXCEPT !.event = "ingest_failed", !.run = 0])
  /\ UNCHANGED <<lock, disk, budget>>

\* The file was moved away between the guard and the lock.
PrepareGone(p) ==
  /\ Step(p, "prepare", "release")
  /\ job[p].at \notin places[job[p].src]
  /\ UNCHANGED <<lock, disk, job, budget>>

\* quarantine_source
Quarantine(p) ==
  LET s == job[p].src IN
  /\ Step(p, "quarantine", "fail")
  /\ places' = [places EXCEPT ![s] = (@ \ {"inbox"}) \cup {"quarantine"}]
  /\ Local(p, [job[p] EXCEPT !.event = "source_quarantined"])
  /\ UNCHANGED <<lock, ledger, artifacts, signals, budget>>

\* The provider answered and its response passed validation.
ProviderAccepted(p) ==
  /\ Step(p, "extract", "mint")
  /\ UNCHANGED <<lock, disk, job, budget>>

\* Provider error, invalid or ungrounded response.
ProviderRejected(p) ==
  /\ Step(p, "extract", "fail")
  /\ Local(p, [job[p] EXCEPT !.event = "ingest_failed"])
  /\ UNCHANGED <<lock, disk, budget>>

\* Mutant: a meeting id is minted although no date was found.
RecordFailureDateless(p) ==
  LET j == job[p] IN
  /\ Step(p, "fail", "release")
  /\ AppendMinted(j.src, j.event, j.run, <<j.src, j.date>>, None, FALSE, "skipped")
  /\ UNCHANGED <<lock, places, artifacts, signals, job, budget>>

\* The failure snapshot of _record_source_failure.  Its meeting id is known
\* only when extraction succeeded.
RecordFailure(p) ==
  LET j == job[p]
      mid == IF j.date = None THEN None ELSE <<j.src, j.date>>
  IN
  /\ Step(p, "fail", "release")
  /\ AppendMinted(j.src, j.event, j.run, mid, None, FALSE, "skipped")
  /\ UNCHANGED <<lock, places, artifacts, signals, job, budget>>

\* _finish_ingest: choose the artifact path and mint the producer identity.
Mint(p) ==
  LET j == job[p] IN
  /\ Step(p, "mint", "write_signals")
  /\ \E n \in 1..(Cardinality(DOMAIN artifacts) + 1), k \in 1..(Len(ledger) + 1) :
       LET id == [src |-> j.src, seq |-> k,
                  event |-> "primary_artifacts_ready", run |-> j.run]
       IN /\ FreePath(<<j.date, n>>, j.date, {})
          /\ MintIdentity(id, j.src, id.event, j.run)
          /\ Local(p, [job[p] EXCEPT !.prod = id, !.path = <<j.date, n>>])
  /\ UNCHANGED <<lock, disk, budget>>

\* write_signal_jsonl: a temporary file renamed over the target.
WriteSignals(p) ==
  LET j == job[p] IN
  /\ Step(p, "write_signals", "write_artifact")
  /\ signals' = [signals EXCEPT ![<<j.src, j.date>>] = SignalsOf(j.prod, j.date)]
  /\ UNCHANGED <<lock, ledger, places, artifacts, job, budget>>

WriteArtifact(p) ==
  LET j == job[p] IN
  /\ Step(p, "write_artifact", "append_primary")
  /\ artifacts' = WithFile(j.path, ArtifactOf(<<j.src, j.date>>, j.prod, j.date))
  /\ UNCHANGED <<lock, ledger, places, signals, job, budget>>

AppendPrimary(p) ==
  LET j == job[p] IN
  /\ Step(p, "append_primary", IF IdentityFree(j.prod) THEN "verify" ELSE "release")
  /\ AppendSnapshot(j.prod, <<j.src, j.date>>,
                    [path |-> j.path, prod |-> j.prod, date |-> j.date],
                    TRUE, FALSE, "pending")
  /\ UNCHANGED <<lock, places, artifacts, signals, job, budget>>

VerifyLink(p) ==
  LET j == job[p] IN
  /\ Step(p, "verify", IF ProducerLinkHolds(<<j.src, j.date>>, j.prod, j.date)
                         THEN "archive" ELSE "release")
  /\ UNCHANGED <<lock, disk, job, budget>>

\* archive_and_reconcile, the copy into _processed; it overwrites.
Archived(s) == (places[s] \ {"truncated"}) \cup {"processed"}

ArchiveCopy(p) ==
  LET s == job[p].src
      found == job[p].at \in places[s]
  IN
  /\ Step(p, "archive", IF found THEN "move" ELSE "release")
  /\ places' = [places EXCEPT ![s] = IF found THEN Archived(s) ELSE @]
  /\ UNCHANGED <<lock, ledger, artifacts, signals, job, budget>>

\* _reconcile_inbox_source moves an inbox file to _inbox/_done and skips
\* every other file.
MoveToDone(s, at) ==
  IF at = "inbox"
    THEN places' = [places EXCEPT ![s] = (@ \ {"inbox"}) \cup {"done"}]
    ELSE UNCHANGED places

ReconcileMove(p) ==
  LET j == job[p] IN
  /\ Step(p, "move", "append_completed")
  /\ MoveToDone(j.src, j.at)
  /\ Local(p, [job[p] EXCEPT !.moved = (j.at = "inbox")])
  /\ UNCHANGED <<lock, ledger, artifacts, signals, budget>>

AppendCompleted(p) ==
  LET j == job[p] IN
  /\ Step(p, "append_completed", "release")
  /\ AppendMinted(j.src, "ingest_completed", j.run, <<j.src, j.date>>,
                  [path |-> j.path, prod |-> j.prod, date |-> j.date],
                  TRUE, IF j.moved THEN "completed" ELSE "skipped")
  /\ UNCHANGED <<lock, places, artifacts, signals, job, budget>>

-----------------------------------------------------------------------------
(* Duplicate repair, shared by the no-op ingest and by reconcile.          *)

\* Mutant: only sources that lack an archived copy are repaired.
ReconcileScanUnarchived(p) ==
  /\ Step(p, "scan", "repair_copy")
  /\ Local(p, [job[p] EXCEPT !.snap = Len(ledger),
                       !.todo = {s \in Source : /\ "inbox" \in places[s] /\ Primary(s)
                                                /\ ~HasProcessedCopy(s)}])
  /\ UNCHANGED <<lock, disk, budget>>

\* reconcile: every inbox source with outputs is to be repaired.
ReconcileScan(p) ==
  /\ Step(p, "scan", "repair_copy")
  /\ Local(p, [job[p] EXCEPT !.snap = Len(ledger),
                       !.todo = {s \in Source : "inbox" \in places[s] /\ Primary(s)}])
  /\ UNCHANGED <<lock, disk, budget>>

RepairDone(p) ==
  /\ Step(p, "repair_copy", "release")
  /\ job[p].todo = {}
  /\ UNCHANGED <<lock, disk, job, budget>>

\* repair_duplicate_source, the copy when _processed has none.
RepairCopy(p) ==
  \E s \in job[p].todo :
    LET found == job[p].at \in places[s] IN
    /\ Step(p, "repair_copy", IF found THEN "repair_move" ELSE "release")
    /\ places' = [places EXCEPT ![s] =
                    IF found /\ ~HasProcessedCopy(s) THEN Archived(s) ELSE @]
    /\ Local(p, [job[p] EXCEPT !.src = s, !.changed = ~HasProcessedCopy(s)])
    /\ UNCHANGED <<lock, ledger, artifacts, signals, budget>>

\* Mutant: a source that needed no repair stays on the list.
RepairMoveKeep(p) ==
  LET j == job[p]
      changed == j.changed \/ j.at = "inbox"
  IN
  /\ Step(p, "repair_move", IF changed THEN "repair_append" ELSE "repair_copy")
  /\ MoveToDone(j.src, j.at)
  /\ UNCHANGED <<lock, ledger, artifacts, signals, job, budget>>

RepairMove(p) ==
  LET j == job[p]
      changed == j.changed \/ j.at = "inbox"
  IN
  /\ Step(p, "repair_move", IF changed THEN "repair_append" ELSE "repair_copy")
  /\ MoveToDone(j.src, j.at)
  /\ Local(p, [job[p] EXCEPT !.todo = IF changed THEN @ ELSE @ \ {j.src}])
  /\ UNCHANGED <<lock, ledger, artifacts, signals, budget>>

\* _repair_duplicate_source carries the outputs of the record it read.
RepairAppend(p) ==
  LET j == job[p] IN
  /\ Step(p, "repair_append", "repair_copy")
  /\ \E i \in 1..j.snap :
       /\ IsLatest(i, j.src, j.snap)
       /\ AppendMinted(j.src, "reconcile_repaired", ledger[i].run, ledger[i].mid,
                       ledger[i].out, TRUE,
                       IF j.at = "inbox" THEN "completed" ELSE "skipped")
  /\ Local(p, [job[p] EXCEPT !.todo = @ \ {j.src}])
  /\ UNCHANGED <<lock, places, artifacts, signals, budget>>

-----------------------------------------------------------------------------
(* repair-date.                                                            *)

\* ledger[i] is the last line about s among the first n that has outputs.
IsTarget(i, s, n) ==
  /\ i \in 1..n
  /\ ledger[i].src = s /\ HasPrimaryArtifacts(ledger[i])
  /\ \A j \in (i + 1)..n : ~(ledger[j].src = s /\ HasPrimaryArtifacts(ledger[j]))

FilesPresent(r) == r.out.path \in DOMAIN artifacts /\ signals[r.mid] # None

DateCurrent(r, d) == artifacts[r.out.path].date = d /\ r.out.path[1] = d

\* repair_target_not_found, repair_artifact_missing and the no-op when the
\* date is already current all end the command without a write.
RepairNothing(p) ==
  /\ Step(p, "target", "release")
  /\ \A i \in 1..Len(ledger) :
       IsTarget(i, job[p].src, Len(ledger)) /\ FilesPresent(ledger[i]) =>
         DateCurrent(ledger[i], job[p].date)
  /\ UNCHANGED <<lock, disk, job, budget>>

RepairTarget(p) ==
  LET j == job[p] IN
  /\ Step(p, "target", "redate_write")
  /\ \E i \in 1..Len(ledger),
        n \in 1..(Cardinality(DOMAIN artifacts) + 1), k \in 1..(Len(ledger) + 1) :
       LET r == ledger[i]
           id == [src |-> j.src, seq |-> k, event |-> "date_repaired", run |-> 0]
       IN /\ IsTarget(i, j.src, Len(ledger))
          /\ FilesPresent(r) /\ ~DateCurrent(r, j.date)
          /\ FreePath(<<j.date, n>>, j.date, {r.out.path})
          /\ MintIdentity(id, j.src, id.event, 0)
          /\ Local(p, [job[p] EXCEPT !.snap = Len(ledger), !.prod = id,
                              !.path = <<j.date, n>>])
  /\ UNCHANGED <<lock, disk, budget>>

\* The line whose outputs are to be repaired, if the file that stands under the
\* name of its artifact has front matter.  Whose file that is, is not asked.
IsReadable(p, i) ==
  /\ IsTarget(i, job[p].src, job[p].snap)
  /\ ledger[i].out.path \in DOMAIN artifacts
  /\ artifacts[ledger[i].out.path] # PartialFile

\* repair_artifact_invalid
RedateUnreadable(p) ==
  /\ Step(p, "redate_write", "release")
  /\ ~\E i \in 1..job[p].snap : IsReadable(p, i)
  /\ UNCHANGED <<lock, disk, job, budget>>

\* The artifact is rewritten under its new name ...
RedateWrite(p) ==
  LET j == job[p] IN
  /\ Step(p, "redate_write", "redate_unlink")
  /\ \E i \in 1..j.snap :
       /\ IsReadable(p, i)
       /\ artifacts' = WithFile(j.path, ArtifactOf(artifacts[ledger[i].out.path].mid,
                                                   j.prod, j.date))
  /\ UNCHANGED <<lock, ledger, places, signals, job, budget>>

\* ... the old name is removed ...
RedateUnlink(p) ==
  LET j == job[p] IN
  /\ Step(p, "redate_unlink", "redate_signals")
  /\ \E i \in 1..j.snap :
       /\ IsTarget(i, j.src, j.snap)
       /\ artifacts' = IF ledger[i].out.path = j.path
                         THEN artifacts ELSE WithoutFile(ledger[i].out.path)
  /\ UNCHANGED <<lock, ledger, places, signals, job, budget>>

\* Mutant: the signal file keeps its old producer.
RedateSignalsNot(p) ==
  /\ Step(p, "redate_signals", "redate_append")
  /\ UNCHANGED <<lock, disk, job, budget>>

\* ... the signals are rewritten in place under the same meeting id ...
RedateSignals(p) ==
  LET j == job[p] IN
  /\ Step(p, "redate_signals", "redate_append")
  /\ \E i \in 1..j.snap :
       /\ IsTarget(i, j.src, j.snap)
       /\ signals' = [signals EXCEPT ![ledger[i].mid] = SignalsOf(j.prod, j.date)]
  /\ UNCHANGED <<lock, ledger, places, artifacts, job, budget>>

\* ... and only then does the ledger learn of it.
RedateAppend(p) ==
  LET j == job[p] IN
  /\ Step(p, "redate_append", IF IdentityFree(j.prod) THEN "redate_verify" ELSE "release")
  /\ \E i \in 1..j.snap :
       /\ IsTarget(i, j.src, j.snap)
       /\ AppendSnapshot(j.prod, ledger[i].mid,
                         [path |-> j.path, prod |-> j.prod, date |-> j.date],
                         TRUE, ledger[i].archived, ledger[i].reconcile)
  /\ UNCHANGED <<lock, places, artifacts, signals, job, budget>>

\* Verification reports, it does not undo: both outcomes end the command.
RedateVerify(p) ==
  /\ Step(p, "redate_verify", "release")
  /\ UNCHANGED <<lock, disk, job, budget>>

-----------------------------------------------------------------------------
(* Failures and the world outside.                                         *)

\* Neither write_text nor copy2 is atomic: each may be cut short half way.
CutShort(p) ==
  LET j == job[p] IN
  \/ UNCHANGED <<artifacts, places>>
  \/ /\ \/ pc[p] = "write_artifact"
        \/ pc[p] = "redate_write" /\ \E i \in 1..j.snap : IsReadable(p, i)
     /\ artifacts' = WithFile(j.path, PartialFile)
     /\ UNCHANGED places
  \/ \E s \in IF pc[p] = "archive" THEN {j.src}
                ELSE IF pc[p] = "repair_copy"
                       THEN {d \in j.todo : ~HasProcessedCopy(d)} ELSE {} :
       /\ j.at \in places[s]
       /\ places' = [places EXCEPT ![s] = (@ \ {"processed"}) \cup {"truncated"}]
       /\ UNCHANGED artifacts

\* An OSError: the exception unwinds through the lock.
Abort(p) ==
  /\ Locked(p) /\ pc[p] # "release" /\ faults < MaxFaults
  /\ faults' = faults + 1
  /\ Step(p, pc[p], "release")
  /\ CutShort(p)
  /\ UNCHANGED <<lock, ledger, signals, job, runs, drops>>

\* The process is killed: the lock file stays.
Crash(p) ==
  /\ Locked(p) /\ faults < MaxFaults
  /\ faults' = faults + 1
  /\ Step(p, pc[p], "idle")
  /\ Local(p, NoJob)
  /\ CutShort(p)
  /\ UNCHANGED <<lock, ledger, signals, runs, drops>>

\* The operator removes the lock file of a process that is gone.
RemoveStaleLock ==
  /\ lock # None /\ ~Locked(lock)
  /\ lock' = None
  /\ UNCHANGED <<disk, pc, job, budget>>

\* A copy of a transcript, known or not, is dropped into the inbox.
Drop(s) ==
  /\ drops < MaxDrops /\ "inbox" \notin places[s]
  /\ places' = [places EXCEPT ![s] = @ \cup {"inbox"}]
  /\ drops' = drops + 1
  /\ UNCHANGED <<lock, ledger, artifacts, signals, pc, job, runs, faults>>

-----------------------------------------------------------------------------

Start(p) ==
  \/ \E s \in Source, at \in {"inbox", "done", "outside"} : StartIngest(p, s, at)
  \/ \E s \in Source, d \in Date : StartRepairDate(p, s, d)
  \/ StartReconcile(p)

Ingest(p) ==
  \/ PrepareDuplicate(p) \/ PrepareFresh(p) \/ PrepareUnreadable(p) \/ PrepareGone(p)
  \/ Quarantine(p) \/ ProviderAccepted(p) \/ ProviderRejected(p) \/ RecordFailure(p)
  \/ Mint(p) \/ WriteSignals(p) \/ WriteArtifact(p) \/ AppendPrimary(p)
  \/ VerifyLink(p) \/ ArchiveCopy(p) \/ ReconcileMove(p) \/ AppendCompleted(p)

Reconcile(p) ==
  \/ ReconcileScan(p) \/ RepairDone(p)
  \/ RepairCopy(p) \/ RepairMove(p) \/ RepairAppend(p)

RepairDate(p) ==
  \/ RepairNothing(p) \/ RepairTarget(p) \/ RedateUnreadable(p) \/ RedateWrite(p)
  \/ RedateUnlink(p) \/ RedateSignals(p) \/ RedateAppend(p) \/ RedateVerify(p)

\* What a running command does next when nothing interrupts it.
Advance(p) ==
  Acquire(p) \/ LockConflict(p) \/ Release(p) \/ Ingest(p) \/ Reconcile(p) \/ RepairDate(p)

Next ==
  \/ \E p \in Proc : Start(p) \/ Advance(p) \/ Abort(p) \/ Crash(p)
  \/ RemoveStaleLock
  \/ \E s \in Source : Drop(s)

Spec == Init /\ [][Next]_vars

\* The scheduler lets a command finish; operators keep removing the lock
\* files of dead processes and keep running reconcile.
Fairness ==
  /\ \A p \in Proc : WF_vars(Advance(p)) /\ WF_vars(StartReconcile(p))
  /\ WF_vars(RemoveStaleLock)

FairSpec == Spec /\ Fairness

-----------------------------------------------------------------------------
(* Types.                                                                  *)

File == {PartialFile} \cup [mid : Meeting, prod : RecordId, date : Date]

Steps == {"idle", "acquire", "release", "prepare", "extract", "quarantine", "fail",
          "mint", "write_signals", "write_artifact", "append_primary", "verify",
          "archive", "move", "append_completed",
          "scan", "repair_copy", "repair_move", "repair_append",
          "target", "redate_write", "redate_unlink", "redate_signals",
          "redate_append", "redate_verify"}

Job == [op : {"none", "ingest", "reconcile", "repair-date"},
        src : Source \cup {None}, at : {"inbox", "done", "outside"},
        date : Date \cup {None}, run : Nat, snap : Nat,
        prod : RecordId \cup {None}, path : (Date \X Nat) \cup {None},
        todo : SUBSET Source,
        event : {"none", "ingest_failed", "source_quarantined"},
        moved : BOOLEAN, changed : BOOLEAN]

\* Every variable stays within the values the code can give it: files are
\* named by a date and a suffix, every ledger line is a whole snapshot, and
\* every process is at a step that exists.
TypeOK ==
  /\ lock \in Proc \cup {None}
  /\ ledger \in Seq(Record)
  /\ places \in [Source -> SUBSET Places]
  /\ DOMAIN artifacts \subseteq Date \X Nat
  /\ IsFiniteSet(DOMAIN artifacts)
  /\ artifacts \in [DOMAIN artifacts -> File]
  /\ signals \in [Meeting -> [prod : RecordId, date : Date] \cup {None}]
  /\ pc \in [Proc -> Steps]
  /\ job \in [Proc -> Job]
  /\ runs \in Nat /\ faults \in Nat /\ drops \in Nat

-----------------------------------------------------------------------------
(* Safety.                                                                 *)

\* However commands, kills and hand-removed lock files interleave, a process
\* inside the locked section is the one the lock file was made by, so no two
\* commands write the project at once (ProjectLock).
OneWriter == \A p \in Proc : Locked(p) => lock = p

\* Once a source has outputs the ledger never says otherwise: no failure or
\* quarantine snapshot of a slower attempt hides them, no later line moves
\* them to another meeting, and they are never produced a second time
\* (_prepare_ingest, _record_source_failure).
PrimaryStable ==
  \A i, j \in 1..Len(ledger) :
    i < j /\ ledger[i].src = ledger[j].src /\ HasPrimaryArtifacts(ledger[i]) =>
      /\ HasPrimaryArtifacts(ledger[j])
      /\ ledger[j].mid = ledger[i].mid
      /\ ledger[j].event # "primary_artifacts_ready"

\* An identity is minted long before it is appended: signals and artifact
\* carry it in between.  It is still the next one when it gets there.
MintedIdentityHolds ==
  \A p \in Proc :
    pc[p] \in {"write_signals", "write_artifact", "append_primary", "redate_write",
               "redate_unlink", "redate_signals", "redate_append"} =>
      IsNextSequence(job[p].prod.seq, job[p].src)

\* A date repair has written the new artifact; its ledger line is still to come.
Redating(p) == pc[p] \in {"redate_unlink", "redate_signals", "redate_append"}

\* f is what a date repair left that was stopped before its ledger line: a whole
\* artifact that no current record names.
LeftByRepair(f) ==
  /\ artifacts[f].prod \in RecordId /\ artifacts[f].prod.event = "date_repaired"
  /\ \A p \in Proc : Redating(p) => job[p].path # f
  /\ \A i \in 1..Len(ledger) :
       IsLatest(i, ledger[i].src, Len(ledger)) /\ ledger[i].out # None =>
         ledger[i].out.path # f

RepairsSettled == \A f \in DOMAIN artifacts : ~LeftByRepair(f)

\* As long as no date repair has been stopped half way, the current record of
\* every source, except of one that is being repaired, describes the disk: its
\* artifact, signals and archived copy are there and carry the identity of the
\* one ledger line that says it produced them.  So no interleaving or fault of
\* an ingest, a reconcile or a whole repair makes the readiness guard block the
\* project.
CurrentStateSound ==
  RepairsSettled =>
    \A i \in 1..Len(ledger) :
      /\ IsLatest(i, ledger[i].src, Len(ledger))
      /\ \A p \in Proc : Redating(p) => job[p].src # ledger[i].src
      => ~Unsound(ledger[i])

\* A date repair is about to rewrite or remove the artifact called path, which
\* the last outputs of its source name.
BeingRedated(path) ==
  \E p \in Proc, k \in 1..Len(ledger) :
    /\ pc[p] \in {"redate_write", "redate_unlink"}
    /\ IsTarget(k, job[p].src, Len(ledger)) /\ ledger[k].out.path = path

\* An artifact, or what a killed command left of one, is touched by nothing but
\* a date repair of a source whose record names this very file: no ingest or
\* repair of another meeting with the same title and date overwrites it,
\* although its name was chosen several steps before it is written
\* (_next_artifact_path, _repaired_artifact_path).
OutputsUntouched ==
  [][\A path \in DOMAIN artifacts :
       ~BeingRedated(path) =>
         path \in DOMAIN artifacts' /\ artifacts'[path] = artifacts[path]]_vars

-----------------------------------------------------------------------------
(* Progress.                                                               *)

Pending(s) ==
  \E i \in 1..Len(ledger) :
    IsLatest(i, s, Len(ledger)) /\ IncompleteReconcile(ledger[i])

\* A lock file is always removed in the end: commands finish, and what killed
\* commands leave is cleaned up.
LockFreed == lock # None ~> lock = None

\* Once the faults are over, an ingest that was interrupted after
\* primary_artifacts_ready and has its source in the inbox is completed: by
\* itself, by reconcile or by a later ingest of the same source.
InterruptedIngestHeals ==
  \A s \in Source :
    (Pending(s) /\ "inbox" \in places[s] /\ faults = MaxFaults) ~> ~Pending(s)

-----------------------------------------------------------------------------
(* What the repository says of the program and the code does not do.       *)

\* docs/artifact-contract.md on repair-date: "It must not change `meeting_id`
\* [...] or transcript content".  An artifact that its current record produced
\* is about the meeting of that record.
ArtifactKeepsMeeting ==
  \A i \in 1..Len(ledger) :
    LET r == ledger[i] IN
    /\ IsLatest(i, r.src, Len(ledger)) /\ HasPrimaryArtifacts(r)
    /\ r.out.path \in DOMAIN artifacts /\ artifacts[r.out.path].prod = r.out.prod
    => artifacts[r.out.path].mid = r.mid

=============================================================================
