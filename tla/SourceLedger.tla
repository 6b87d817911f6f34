----------------------------- MODULE SourceLedger -----------------------------
(***************************************************************************)
(* The source ledger as a file (ledger.py), under the commands that append *)
(* to it: ingest, the repair of duplicates, reconcile.                     *)
(*                                                                         *)
(* IngestPipeline reads its ledger as a sequence of whole records.  Here a *)
(* kill or a full disk cuts lines short, and the next append goes on with  *)
(* what it finds.                                                          *)
(***************************************************************************)
EXTENDS AppendLog, FiniteSetsExt

CONSTANTS
  Source,     \* transcripts, by the hash of their content
  Command,    \* command processes
  None,
  MaxLines,   \* bound: lines of the ledger
  MaxFaults   \* bound: kills and failed appends

ASSUME LedgerAssumption ==
  None \notin Command /\ MaxLines \in Nat \ {0} /\ MaxFaults \in Nat

VARIABLES
  ledger,    \* _ledger/source-ledger.jsonl
  appended,  \* history: the records that the ledger ever showed, in order
  lock,      \* the command that made _cache/meeting-ingest.lock
  pc,        \* next step of each command
  job,       \* what the command is about to append
  faults

vars == <<ledger, appended, lock, pc, job, faults>>

-----------------------------------------------------------------------------
(* Records and their readers.                                              *)

PrimaryEvents == {"primary_artifacts_ready", "ingest_completed", "reconcile_repaired"}

\* "legacy" is a line of the three fields that an older release wrote.
Record ==
  [source : Source, seq : Nat, event : PrimaryEvents \cup {"ingest_failed", "legacy"}]

ASSUME GarbledNotARecord == Garbled \notin Record

\* read_records_with_issues: one line, after what was read before it.
ReadLine(read, line) ==
  IF line.record = Garbled \/ line.record.event = "legacy"
    THEN read ELSE Append(read, line.record)

\* The records, in the order of their lines.
Records(log) ==
  LET read[n \in 0..Len(log)] == IF n = 0 THEN <<>> ELSE ReadLine(read[n - 1], log[n])
  IN  read[Len(log)]

\* The places of the records of a source.
PlacesOf(records, s) == {i \in DOMAIN records : records[i].source = s}

\* latest_record_for_source: there is one, and it is of these events.
LatestIs(log, s, events) ==
  LET records == Records(log)
      places == PlacesOf(records, s)
  IN  \E i \in places : records[i].event \in events /\ \A j \in places : j <= i

\* Mutant: what makes no sense is reported only at the end of the file.
IssuesAtEnd(log) == log # <<>> /\ log[Len(log)].record = Garbled

\* malformed_ledger_json; a legacy line is a warning.
Issues(log) == Malformed(log)

\* Mutant: an ingest counts when it was completed.
IsFiledCompleted(log, s) == LatestIs(log, s, PrimaryEvents \ {"primary_artifacts_ready"})

\* _record_has_primary_artifacts of the latest record.
IsFiled(log, s) == LatestIs(log, s, PrimaryEvents)

\* has_legacy_record_for_source.
HasLegacyLine(log, s) ==
  \E i \in Whole(log) : log[i].record.source = s /\ log[i].record.event = "legacy"

\* _raise_if_legacy_source_unresolved: history that no record goes on with.
LegacyUnresolved(log, s) == HasLegacyLine(log, s) /\ PlacesOf(Records(log), s) = {}

\* mint_ledger_identity: one more than the highest of this source.
NextSequence(log, s) ==
  LET records == Records(log)
  IN  1 + Max({0} \cup {records[i].seq : i \in PlacesOf(records, s)})

\* _verify_signal_producer_link: the signals name one record that is there.
LinkHolds(log, s, seq) ==
  LET records == Records(log)
  IN  \E i \in PlacesOf(records, s) :
        {j \in PlacesOf(records, s) :
           records[j].seq = seq /\ records[j].event = "primary_artifacts_ready"} = {i}

-----------------------------------------------------------------------------
(* Commands.                                                               *)

Idle == [todo |-> {}, event |-> "none", link |-> 0]

Step(c, from, to) == pc[c] = from /\ pc' = [pc EXCEPT ![c] = to]

\* An older release may have left its line, with or without its newline.
Init ==
  /\ ledger \in {<<>>} \cup
       {<<[record |-> [source |-> s, seq |-> 0, event |-> "legacy"], ended |-> whole]>> :
          s \in Source, whole \in BOOLEAN}
  /\ appended = <<>> /\ lock = None /\ faults = 0
  /\ pc = [c \in Command |-> "idle"]
  /\ job = [c \in Command |-> Idle]

\* require_write_readiness, before the lock.
Start(c) ==
  /\ lock = None /\ ~Issues(ledger)
  /\ Step(c, "idle", "admitted")
  /\ UNCHANGED <<ledger, appended, lock, job, faults>>

\* Mutant: the lock is not looked at.
BeginUnlocked(c, todo, event) ==
  /\ lock' = c
  /\ Step(c, "admitted", "append")
  /\ job' = [job EXCEPT ![c] = [todo |-> todo, event |-> event, link |-> 0]]
  /\ UNCHANGED <<ledger, appended, faults>>

\* The lock is taken, for one append or more.
Begin(c, todo, event) ==
  /\ lock = None /\ lock' = c
  /\ Step(c, "admitted", "append")
  /\ job' = [job EXCEPT ![c] = [todo |-> todo, event |-> event, link |-> 0]]
  /\ UNCHANGED <<ledger, appended, faults>>

\* ingest of a source without outputs; the provider answers or fails.
Ingest(c, s) ==
  /\ ~IsFiled(ledger, s) /\ ~LegacyUnresolved(ledger, s)
  /\ \E event \in {"primary_artifacts_ready", "ingest_failed"} : Begin(c, {s}, event)

\* ingest of a source that has them, or reconcile of all that lie in the inbox:
\* those that were moved or copied get a line.
Reconcile(c, found) ==
  /\ found # {} /\ \A s \in found : IsFiled(ledger, s)
  /\ Begin(c, found, "reconcile_repaired")

\* Nothing to append: the lock is held by another, or nothing was moved.
GiveUp(c) ==
  /\ Step(c, "admitted", "idle")
  /\ UNCHANGED <<ledger, appended, lock, job, faults>>

\* What the ledger shows of an append.
Shows(log, record) ==
  /\ ledger' = log
  /\ appended' = IF Len(Records(log)) > Len(Records(ledger))
                   THEN Append(appended, record) ELSE appended

Minted(s, event) == [source |-> s, seq |-> NextSequence(ledger, s), event |-> event]

Leave(c) ==
  /\ pc' = [pc EXCEPT ![c] = "idle"] /\ job' = [job EXCEPT ![c] = Idle]
  /\ lock' = None

\* append_snapshot, and what its caller does next.
AppendSnapshot(c, s) ==
  LET record == Minted(s, job[c].event)
      rest == job[c].todo \ {s}
  IN
  /\ pc[c] = "append" /\ s \in job[c].todo
  /\ Len(ledger) < MaxLines
  /\ Shows(Written(ledger, record), record)
  /\ \/ /\ job[c].event = "primary_artifacts_ready"
        /\ pc' = [pc EXCEPT ![c] = "verify"]
        /\ job' = [job EXCEPT ![c].link = record.seq]
        /\ UNCHANGED lock
     \/ /\ job[c].event # "primary_artifacts_ready" /\ rest # {}
        /\ job' = [job EXCEPT ![c].todo = rest]
        /\ UNCHANGED <<pc, lock>>
     \/ /\ job[c].event # "primary_artifacts_ready" /\ rest = {}
        /\ Leave(c)
  /\ UNCHANGED faults

\* Mutant: an ingest goes on without a look at what it has written.
VerifySkipped(c, s) ==
  /\ pc[c] = "verify" /\ s \in job[c].todo
  /\ pc' = [pc EXCEPT ![c] = "append"]
  /\ job' = [job EXCEPT ![c].event = "ingest_completed"]
  /\ UNCHANGED <<ledger, appended, lock, faults>>

\* signal_producer_link_failed ends the command.
Verify(c, s) ==
  /\ pc[c] = "verify" /\ s \in job[c].todo
  /\ \/ /\ LinkHolds(ledger, s, job[c].link)
        /\ pc' = [pc EXCEPT ![c] = "append"]
        /\ job' = [job EXCEPT ![c].event = "ingest_completed"]
        /\ UNCHANGED lock
     \/ /\ ~LinkHolds(ledger, s, job[c].link)
        /\ Leave(c)
  /\ UNCHANGED <<ledger, appended, faults>>

-----------------------------------------------------------------------------
(* Faults.                                                                 *)

\* An append that was cut short.
Broken(c) ==
  /\ faults < MaxFaults /\ faults' = faults + 1
  /\ \/ /\ pc[c] = "append" /\ Len(ledger) < MaxLines
        /\ \E s \in job[c].todo :
             LET record == Minted(s, job[c].event) IN
               \E log \in CutShort(ledger, record) : Shows(log, record)
     \/ /\ pc[c] = "verify"
        /\ UNCHANGED <<ledger, appended>>

\* A kill: the lock file stays.
Kill(c) ==
  /\ Broken(c)
  /\ pc' = [pc EXCEPT ![c] = "dead"]
  /\ UNCHANGED <<lock, job>>

\* ledger_write_failed, or a file that cannot be read.
Fail(c) ==
  /\ Broken(c)
  /\ Leave(c)

\* A person removes the lock file of a command that is gone.
RemoveStaleLock(c) ==
  /\ pc[c] = "dead"
  /\ Leave(c)
  /\ UNCHANGED <<ledger, appended, faults>>

Next ==
  \E c \in Command :
    \/ Start(c) \/ GiveUp(c) \/ Kill(c) \/ Fail(c) \/ RemoveStaleLock(c)
    \/ \E s \in Source : Ingest(c, s) \/ AppendSnapshot(c, s) \/ Verify(c, s)
    \/ \E found \in SUBSET Source : Reconcile(c, found)

Spec == Init /\ [][Next]_vars

-----------------------------------------------------------------------------
(* Properties.                                                             *)

TypeOK ==
  /\ ledger \in Log(Record) /\ Len(ledger) <= MaxLines
  /\ appended \in Seq(Record)
  /\ lock \in Command \cup {None}
  /\ pc \in [Command -> {"idle", "admitted", "append", "verify", "dead"}]
  /\ \A c \in Command : lock = c <=> pc[c] \in {"append", "verify", "dead"}
  /\ job \in [Command -> [todo : SUBSET Source, link : Nat,
                          event : PrimaryEvents \cup {"ingest_failed", "none"}]]
  /\ faults \in 0..MaxFaults

\* Either the ledger shows every record that it ever showed, in their order, or
\* doctor reports it and no further command starts.  As long as it is not
\* reported it is what IngestPipeline takes it for.
KeptOrReported == Issues(ledger) \/ Records(ledger) = appended

\* As long as the ledger is not reported, no source was filed twice: not when
\* its record lacks its newline, not after failures, and not when its history
\* is a legacy line.
FiledOnce ==
  Issues(ledger) \/
    \A s \in Source :
      LET filed == {i \in DOMAIN appended : /\ appended[i].source = s
                                           /\ appended[i].event = "primary_artifacts_ready"}
      IN  /\ \A i, j \in filed : i = j
          /\ HasLegacyLine(ledger, s) => filed = {}

\* An ingest that returns success leaves a completed record, and the record
\* that its signals name as their producer.
SuccessLinked ==
  [][\A c \in Command, s \in Source :
       (pc[c] = "append" /\ pc'[c] = "idle" /\ s \in job[c].todo
         /\ job[c].event = "ingest_completed" /\ faults' = faults) =>
         /\ LinkHolds(ledger', s, job[c].link)
         /\ LatestIs(ledger', s, {"ingest_completed"})]_vars

=============================================================================
