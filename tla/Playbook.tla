------------------------------ MODULE Playbook ------------------------------
(***************************************************************************)
(* The stakeholder playbook: immutable generations of profiles, a ledger   *)
(* whose line commits a generation, an index that publishes it, and        *)
(* reviews that the next derivation applies.                               *)
(*                                                                         *)
(*   playbook-update        playbook.py         update                     *)
(*   playbook-repair-index  playbook.py         repair_index               *)
(*   playbook-cleanup       playbook.py         cleanup_uncommitted        *)
(*   playbook-review        playbook_review.py  mutate_review              *)
(*   show, brief            playbook.py         without the lock           *)
(*                                                                         *)
(* The registry is edited by hand at any time; the signal files change     *)
(* under the project lock, in one step here (see IngestPipeline).          *)
(***************************************************************************)
EXTENDS PlaybookReview

CONSTANTS
  Command,     \* command processes
  Reader,      \* processes that show a profile
  Reviewed,    \* people that the registry names at the start
  Known,       \* signals in the signal files at the start
  Requests,    \* the reviews that are asked for in this project
  MaxRuns,     \* bound: derivation run ids
  MaxFree,     \* bound: derivations begun while the playbook is current
  MaxEdits,    \* bound: registry edits
  MaxReviews,  \* bound: lines of the review ledger
  MaxFaults    \* bound: kills, interrupts and I/O errors

ASSUME PlaybookAssumption ==
  /\ None \notin Command
  /\ Reviewed \subseteq Person /\ Known \subseteq Signal /\ Requests \subseteq Review
  /\ MaxRuns \in Nat /\ MaxFree \in Nat /\ MaxEdits \in Nat /\ MaxReviews \in Nat
  /\ MaxFaults \in Nat

VARIABLES
  lock,       \* the command that made _cache/meeting-ingest.lock
  registry,   \* stakeholders.toml
  signals,    \* the signals in the signal files
  overrides,  \* overrides.jsonl
  ledger,     \* derivation-ledger.jsonl
  gens,       \* directories in _derived/generations, by run id
  files,      \* the files in each of them
  content,    \* what the files of each say, written or not
  index,      \* playbook-index.json
  minted,     \* the last run id handed out
  pc,         \* next step of each command
  job,        \* local variables of each command
  view,       \* what each reader took from the index, and found
  edits, faults,
  between     \* history: the registries that the owner wrote after a run took its
              \* fingerprints and before it read the registry

inputs == <<registry, signals, overrides>>
generations == <<gens, files, content>>
outputs == <<ledger, generations, index>>
history == <<edits, between>>
budget == <<history, faults>>
vars == <<lock, inputs, outputs, minted, pc, job, view, budget>>

-----------------------------------------------------------------------------
(* Values.                                                                 *)

Run == 1..MaxRuns

Op == {"playbook-update", "playbook-repair-index", "playbook-cleanup", "playbook-review"}

Steps == {"idle", "acquire", "discover", "derive", "write", "commit", "index", "failing",
          "repair", "list", "remove", "review", "release"}

\* identity-candidates.json is the first file of a generation, the manifest
\* the last.
Member == Person \cup {"candidates", "manifest"}

Members(profiles) == People(profiles) \cup {"candidates", "manifest"}

Complete(r) == r \in gens /\ files[r] = Members(content[r])

\* A line of the derivation ledger; a failed run has no profiles.
Derivation == [run : Run, success : BOOLEAN, inputs : Inputs, people : SUBSET Person]

NoPlaybook == [p \in Person |-> {}]

Index == [run : Run, inputs : Inputs, people : SUBSET Person]

\* What a reader took from the index.
View == [run : Run, person : Person, missing : BOOLEAN]

Job == [op : Op \cup {None}, run : Run \cup {None}, inputs : Inputs \cup {None},
        todo : SUBSET Run, review : Review \cup {None}]

ASSUME NoneNotAValue == None \notin Index \cup View \cup Run \cup Review

NoJob == [op |-> None, run |-> None, inputs |-> None, todo |-> {}, review |-> None]

Now == [registry |-> registry, signals |-> signals, overrides |-> overrides]

-----------------------------------------------------------------------------
(* What the ledger and the index say.                                      *)

Successes == {i \in Whole(ledger) : ledger[i].record.success}

Committed == {ledger[i].record.run : i \in Successes}

\* repair_index takes the last line of a successful derivation.
Latest == ledger[CHOOSE i \in Successes : \A j \in Successes : j <= i].record

\* _index_is_usable, and its run is committed.
Usable ==
  /\ index # None /\ index.run \in Committed
  /\ index.run \in gens /\ index.people \subseteq files[index.run]

\* live_playbook_status; "failed" is told from "missing" by the last record.
Status ==
  IF ~Usable THEN "missing" ELSE IF index.inputs = Now THEN "current" ELSE "stale"

\* Signals that some committed generation still shows.
History == UNION {Cited(content[r]) : r \in Committed \cap gens}

\* Findings of the doctor that block every playbook command.  The last one
\* is _generation_provenance_issues: a member of the current generation is
\* missing.
Blocked ==
  \/ Malformed(ledger) \/ Malformed(overrides)
  \/ registry = None
  \/ Reemerged(signals, overrides, History)
  \/ index # None /\ index.run \in Committed /\ ~Complete(index.run)

\* Mutant: a generation that was never committed blocks, too.
ReadyWhenClean ==
  /\ lock = None /\ ~Blocked
  /\ gens \subseteq Committed

\* require_write_readiness.
Ready == lock = None /\ ~Blocked

-----------------------------------------------------------------------------
(* Process steps.                                                          *)

Step(c, from, to) == pc[c] = from /\ pc' = [pc EXCEPT ![c] = to]

Local(c, j) == job' = [job EXCEPT ![c] = j]

Holding(c) == lock = c /\ pc[c] \notin {"idle", "acquire"}

Init ==
  /\ lock = None
  /\ registry = Reviewed /\ signals = Known
  /\ overrides = <<>> /\ ledger = <<>>
  /\ gens = {} /\ files = [r \in Run |-> {}] /\ content = [r \in Run |-> NoPlaybook]
  /\ index = None /\ minted = 0
  /\ pc = [c \in Command |-> "idle"] /\ job = [c \in Command |-> NoJob]
  /\ view = [d \in Reader |-> None]
  /\ edits = 0 /\ faults = 0
  /\ between = [r \in Run |-> {}]

\* Readiness is checked before the lock is taken.
Start(c, j) ==
  /\ Ready
  /\ Step(c, "idle", "acquire")
  /\ Local(c, j)
  /\ UNCHANGED <<lock, inputs, outputs, minted, view, budget>>

StartUpdate(c) ==
  /\ minted < MaxRuns
  /\ Status = "current" => minted < MaxFree
  /\ Start(c, [NoJob EXCEPT !.op = "playbook-update"])

StartReview(c, r) == Start(c, [NoJob EXCEPT !.op = "playbook-review", !.review = r])

StartRepair(c) == Start(c, [NoJob EXCEPT !.op = "playbook-repair-index"])

StartCleanup(c) == Start(c, [NoJob EXCEPT !.op = "playbook-cleanup"])

First(op) ==
  CASE op = "playbook-update"       -> "discover"
    [] op = "playbook-repair-index" -> "repair"
    [] op = "playbook-cleanup"      -> "list"
    [] op = "playbook-review"       -> "review"

\* An update names its run when it has the lock.
Acquire(c) ==
  /\ Step(c, "acquire", First(job[c].op))
  /\ lock = None /\ lock' = c
  /\ IF job[c].op = "playbook-update"
       THEN /\ minted < MaxRuns /\ minted' = minted + 1
            /\ Local(c, [job[c] EXCEPT !.run = minted'])
       ELSE UNCHANGED <<minted, job>>
  /\ UNCHANGED <<inputs, outputs, view, budget>>

\* The lock is held, or the bound on run ids is reached.
Refused(c) ==
  /\ Step(c, "acquire", "idle")
  /\ lock # None \/ (job[c].op = "playbook-update" /\ minted = MaxRuns)
  /\ Local(c, NoJob)
  /\ UNCHANGED <<lock, inputs, outputs, minted, view, budget>>

Release(c) ==
  /\ Step(c, "release", "idle")
  /\ lock' = None
  /\ Local(c, NoJob)
  /\ UNCHANGED <<inputs, outputs, minted, view, budget>>

-----------------------------------------------------------------------------
(* playbook update.                                                        *)

\* discover_inputs: fingerprints of all that the derivation will read.
Discover(c) ==
  /\ Step(c, "discover", "derive")
  /\ Local(c, [job[c] EXCEPT !.inputs = Now])
  /\ UNCHANGED <<lock, inputs, outputs, minted, view, budget>>

\* The registry that is read now may not be the one in the fingerprint.
RegistryInvalid(c) ==
  /\ Step(c, "derive", "failing")
  /\ registry = None
  /\ UNCHANGED <<lock, inputs, outputs, minted, job, view, budget>>

\* Mutant: the reviews are left out.
DeriveUnreviewed(c) ==
  /\ Step(c, "derive", "write")
  /\ registry # None
  /\ gens' = gens \cup {job[c].run}
  /\ content' = [content EXCEPT ![job[c].run] =
                   Profiles(registry, job[c].inputs.signals, <<>>)]
  /\ UNCHANGED <<lock, inputs, ledger, files, index, minted, job, view, budget>>

\* The registry is read and the generation directory made; what its members
\* will say is settled.
Derive(c) ==
  /\ Step(c, "derive", "write")
  /\ registry # None
  /\ gens' = gens \cup {job[c].run}
  /\ content' = [content EXCEPT ![job[c].run] =
                   Profiles(registry, job[c].inputs.signals, overrides)]
  /\ UNCHANGED <<lock, inputs, ledger, files, index, minted, job, view, budget>>

\* Mutant: the manifest is not the last member.
WriteMemberAnyhow(c, m) ==
  LET r == job[c].run IN
  /\ Step(c, "write", IF m = "manifest" THEN "commit" ELSE "write")
  /\ m \in Members(content[r]) \ files[r]
  /\ m # "candidates" => "candidates" \in files[r]
  /\ files' = [files EXCEPT ![r] = @ \cup {m}]
  /\ UNCHANGED <<lock, inputs, ledger, gens, content, index, minted, job, view, budget>>

\* Candidates, then each person, then the manifest.
WriteMember(c, m) ==
  LET r == job[c].run IN
  /\ Step(c, "write", IF m = "manifest" THEN "commit" ELSE "write")
  /\ m \in Members(content[r]) \ files[r]
  /\ m # "candidates" => "candidates" \in files[r]
  /\ m = "manifest" => files[r] = Members(content[r]) \ {m}
  /\ files' = [files EXCEPT ![r] = @ \cup {m}]
  /\ UNCHANGED <<lock, inputs, ledger, gens, content, index, minted, job, view, budget>>

Record(c, success) ==
  [run |-> job[c].run, success |-> success,
   inputs |-> IF success THEN job[c].inputs ELSE Now,
   people |-> IF success THEN People(content[job[c].run]) ELSE {}]

\* _append_derivation_record: the commit point.
Commit(c) ==
  /\ Step(c, "commit", "index")
  /\ ledger' = Written(ledger, Record(c, TRUE))
  /\ UNCHANGED <<lock, inputs, generations, index, minted, job, view, budget>>

PublishIndex(c) ==
  /\ Step(c, "index", "release")
  /\ index' = [run |-> job[c].run, inputs |-> job[c].inputs,
               people |-> People(content[job[c].run])]
  /\ UNCHANGED <<lock, inputs, ledger, generations, minted, job, view, budget>>

\* Mutant: a failure after the commit is recorded, too.
RecordFailureAlways(c) ==
  /\ Step(c, "failing", "release")
  /\ ledger' = Written(ledger, Record(c, FALSE))
  /\ UNCHANGED <<lock, inputs, generations, index, minted, job, view, budget>>

\* update()'s handler: a derivation that is committed has not failed.
RecordFailure(c) ==
  /\ Step(c, "failing", "release")
  /\ ledger' = IF job[c].run \in Committed THEN ledger
                                          ELSE Written(ledger, Record(c, FALSE))
  /\ UNCHANGED <<lock, inputs, generations, index, minted, job, view, budget>>

-----------------------------------------------------------------------------
(* playbook repair-index, cleanup-uncommitted and review.                  *)

\* Mutant: the first committed derivation is taken.
RepairFirst(c) ==
  /\ Step(c, "repair", "release")
  /\ index' = IF Successes = {} THEN index
              ELSE LET d == ledger[CHOOSE i \in Successes : \A j \in Successes : i <= j].record
                   IN  [run |-> d.run, inputs |-> d.inputs, people |-> d.people]
  /\ UNCHANGED <<lock, inputs, ledger, generations, minted, job, view, budget>>

\* Mutant: the index is written although nothing was ever committed.
RepairUnchecked(c) ==
  /\ Step(c, "repair", "release")
  /\ index' = IF Successes = {} THEN [run |-> minted, inputs |-> Now, people |-> {}]
              ELSE [run |-> Latest.run, inputs |-> Latest.inputs, people |-> Latest.people]
  /\ UNCHANGED <<lock, inputs, ledger, generations, minted, job, view, budget>>

\* Nothing is written when no derivation is committed or a profile of the
\* latest one is missing.
Repair(c) ==
  /\ Step(c, "repair", "release")
  /\ index' = IF /\ Successes # {} /\ Latest.run \in gens
                 /\ Latest.people \subseteq files[Latest.run]
                THEN [run |-> Latest.run, inputs |-> Latest.inputs, people |-> Latest.people]
                ELSE index
  /\ UNCHANGED <<lock, inputs, ledger, generations, minted, job, view, budget>>

\* Mutant: candidates are listed without a look at malformed lines.
ListTrusting(c) ==
  /\ Step(c, "list", "remove")
  /\ Local(c, [job[c] EXCEPT !.todo = {r \in gens \ Committed : index # None => index.run # r}])
  /\ UNCHANGED <<lock, inputs, outputs, minted, view, budget>>

\* Mutant: every generation but the current one is a candidate.
ListSuperseded(c) ==
  /\ Step(c, "list", IF Malformed(ledger) THEN "release" ELSE "remove")
  /\ Local(c, [job[c] EXCEPT !.todo =
                 IF Malformed(ledger) THEN {}
                 ELSE {r \in gens : index # None => index.run # r}])
  /\ UNCHANGED <<lock, inputs, outputs, minted, view, budget>>

\* cleanup_ledger_invalid, or the candidates for removal.
ListUncommitted(c) ==
  /\ Step(c, "list", IF Malformed(ledger) THEN "release" ELSE "remove")
  /\ Local(c, [job[c] EXCEPT !.todo =
                 IF Malformed(ledger) THEN {}
                 ELSE {r \in gens \ Committed : index # None => index.run # r}])
  /\ UNCHANGED <<lock, inputs, outputs, minted, view, budget>>

RemoveNext(c, r) ==
  /\ pc[c] = "remove" /\ r \in job[c].todo
  /\ gens' = gens \ {r} /\ files' = [files EXCEPT ![r] = {}]
  /\ Local(c, [job[c] EXCEPT !.todo = @ \ {r}])
  /\ UNCHANGED <<lock, inputs, ledger, content, index, minted, pc, view, budget>>

CleanupDone(c) ==
  /\ Step(c, "remove", "release")
  /\ job[c].todo = {}
  /\ UNCHANGED <<lock, inputs, outputs, minted, job, view, budget>>

\* The event that a review appends; _current_suppression_match looks the
\* signal up in the signal files.
EventOf(r) == [review |-> r,
               matched |-> r.action = "suppress_signal" /\ r.target \in signals]

\* Mutant: a review that changes nothing is appended again.
AppendReviewAlways(c) ==
  /\ Step(c, "review", "release")
  /\ Len(overrides) < MaxReviews
  /\ overrides' = Written(overrides, EventOf(job[c].review))
  /\ UNCHANGED <<lock, registry, signals, outputs, minted, job, view, budget>>

AppendReview(c) ==
  /\ Step(c, "review", "release")
  /\ ~NoOp(Reviews(overrides), job[c].review) /\ Len(overrides) < MaxReviews
  /\ overrides' = Written(overrides, EventOf(job[c].review))
  /\ UNCHANGED <<lock, registry, signals, outputs, minted, job, view, budget>>

\* A no-op, or the bound on reviews is reached.
ReviewNoOp(c) ==
  /\ Step(c, "review", "release")
  /\ NoOp(Reviews(overrides), job[c].review) \/ Len(overrides) >= MaxReviews
  /\ UNCHANGED <<lock, inputs, outputs, minted, job, view, budget>>

-----------------------------------------------------------------------------
(* Faults.                                                                 *)

Fault == faults < MaxFaults /\ faults' = faults + 1

\* A kill leaves the lock file behind.
Dies(c, from) == Step(c, from, "idle") /\ Local(c, NoJob)

\* The command goes on to handle the error, or does not live to do so.
Stops(c, from, to) == (Step(c, from, to) /\ UNCHANGED job) \/ Dies(c, from)

Kill(c) ==
  /\ Fault /\ Holding(c)
  /\ Dies(c, pc[c])
  /\ UNCHANGED <<lock, inputs, outputs, minted, view, history>>

\* An exception that is not the tool's own, as Ctrl-C: the lock is released
\* and nothing is recorded.
Interrupt(c) ==
  /\ Fault /\ Holding(c)
  /\ Step(c, pc[c], "release")
  /\ UNCHANGED <<lock, inputs, outputs, minted, job, view, history>>

\* A file cannot be written: a failed derivation, or the end of the command.
WriteError(c) ==
  /\ Fault
  /\ \/ \E from \in {"derive", "write", "index"} : Step(c, from, "failing")
     \/ Step(c, "repair", "release")
  /\ UNCHANGED <<lock, inputs, outputs, minted, job, view, history>>

\* rmtree fails, or is killed, with some of the files gone.
RemoveError(c, r) ==
  /\ Fault
  /\ r \in job[c].todo /\ Stops(c, "remove", "release")
  /\ \E kept \in SUBSET files[r] : files' = [files EXCEPT ![r] = kept]
  /\ UNCHANGED <<lock, inputs, ledger, gens, content, index, minted, view, history>>

\* Mutant: an error of the append goes unnoticed.
CommitErrorIgnored(c) ==
  /\ Fault /\ Stops(c, "commit", "index")
  /\ ledger' \in CutShort(ledger, Record(c, TRUE))
  /\ UNCHANGED <<lock, inputs, generations, index, minted, view, history>>

CommitCutShort(c) ==
  /\ Fault /\ Stops(c, "commit", "failing")
  /\ ledger' \in CutShort(ledger, Record(c, TRUE))
  /\ UNCHANGED <<lock, inputs, generations, index, minted, view, history>>

\* The failure audit is lost without a word.
FailureCutShort(c) ==
  /\ Fault /\ Stops(c, "failing", "release")
  /\ job[c].run \notin Committed
  /\ ledger' \in CutShort(ledger, Record(c, FALSE))
  /\ UNCHANGED <<lock, inputs, generations, index, minted, view, history>>

ReviewCutShort(c) ==
  /\ Fault /\ Stops(c, "review", "release")
  /\ ~NoOp(Reviews(overrides), job[c].review) /\ Len(overrides) < MaxReviews
  /\ overrides' \in CutShort(overrides, EventOf(job[c].review))
  /\ UNCHANGED <<lock, registry, signals, outputs, minted, view, history>>

-----------------------------------------------------------------------------
(* Readers and people.                                                     *)

\* _resolve_current_profile: the record of a person in the index.
Open(d, p) ==
  /\ view[d] = None /\ index # None /\ p \in index.people
  /\ view' = [view EXCEPT ![d] = [run |-> index.run, person |-> p, missing |-> FALSE]]
  /\ UNCHANGED <<lock, inputs, outputs, minted, pc, job, budget>>

\* show and brief read the file that the record names, and are done; or the
\* file is not there.
ReadProfile(d) ==
  LET v == view[d] IN
  /\ v # None
  /\ view' = [view EXCEPT ![d] =
                IF v.run \in gens /\ v.person \in files[v.run]
                  THEN None ELSE [v EXCEPT !.missing = TRUE]]
  /\ UNCHANGED <<lock, inputs, outputs, minted, pc, job, budget>>

\* The owner edits the registry, without the lock and at any time.
EditRegistry(new) ==
  /\ edits < MaxEdits /\ edits' = edits + 1
  /\ new # registry /\ registry' = new
  /\ between' = [r \in Run |->
                   IF \E c \in Command : pc[c] = "derive" /\ job[c].run = r
                     THEN between[r] \cup {new} ELSE between[r]]
  /\ UNCHANGED <<lock, signals, overrides, outputs, minted, pc, job, view, faults>>

\* A source is ingested, with its signals.
Ingest(src) ==
  LET new == {s \in Signal : Source[s] = src} IN
  /\ Ready /\ new \cap signals = {}
  /\ signals' = signals \cup new
  /\ UNCHANGED <<lock, registry, overrides, outputs, minted, pc, job, view, budget>>

\* Somebody removes a lock whose holder is gone.
RemoveLock ==
  /\ lock # None /\ ~Holding(lock) /\ lock' = None
  /\ UNCHANGED <<inputs, outputs, minted, pc, job, view, budget>>

-----------------------------------------------------------------------------

Update(c) ==
  \/ Discover(c) \/ RegistryInvalid(c) \/ Derive(c) \/ Commit(c) \/ PublishIndex(c)
  \/ RecordFailure(c)
  \/ \E m \in Member : WriteMember(c, m)

Upkeep(c) ==
  \/ Repair(c) \/ ListUncommitted(c) \/ CleanupDone(c) \/ AppendReview(c) \/ ReviewNoOp(c)
  \/ \E r \in Run : RemoveNext(c, r)

Begin(c) ==
  \/ StartUpdate(c) \/ StartRepair(c) \/ StartCleanup(c)
  \/ \E r \in Requests : StartReview(c, r)

Progress(c) == Acquire(c) \/ Refused(c) \/ Update(c) \/ Upkeep(c) \/ Release(c)

Mishap(c) ==
  \/ Kill(c) \/ Interrupt(c) \/ WriteError(c)
  \/ CommitCutShort(c) \/ FailureCutShort(c) \/ ReviewCutShort(c)
  \/ \E r \in Run : RemoveError(c, r)

Reading(d) == ReadProfile(d) \/ \E p \in Person : Open(d, p)

Next ==
  \/ \E c \in Command : Begin(c) \/ Progress(c) \/ Mishap(c)
  \/ \E d \in Reader : Reading(d)
  \/ \E new \in Registry : EditRegistry(new)
  \/ \E src \in {Source[s] : s \in Signal} : Ingest(src)
  \/ RemoveLock

Spec == Init /\ [][Next]_vars

\* A command that runs comes to its end; the owner retries an update that is
\* due until it gets the lock, and removes the lock of a dead command.
Fairness ==
  /\ \A c \in Command : WF_vars(Progress(c))
  /\ SF_vars(\E c \in Command : StartUpdate(c))
  /\ SF_vars(\E c \in Command : job[c].op = "playbook-update" /\ Acquire(c))
  /\ WF_vars(RemoveLock)

FairSpec == Spec /\ Fairness

-----------------------------------------------------------------------------
(* Properties.                                                             *)

\* Every variable holds values of the files and processes it stands for.
TypeOK ==
  /\ lock \in Command \cup {None}
  /\ registry \in Registry /\ signals \subseteq Signal /\ overrides \in Log(Event)
  /\ ledger \in Log(Derivation)
  /\ index \in Index \cup {None}
  /\ minted \in 0..MaxRuns
  /\ gens \subseteq Run /\ files \in [Run -> SUBSET Member]
  /\ DOMAIN content = Run /\ \A r \in Run : DOMAIN content[r] = Person
  /\ pc \in [Command -> Steps]
  /\ job \in [Command -> Job]
  /\ view \in [Reader -> View \cup {None}]
  /\ edits \in Nat /\ faults \in Nat
  /\ between \in [Run -> SUBSET Registry]

\* While the derivation ledger is whole, the index names a committed
\* generation with all its files: outputs that no ledger line commits never
\* become current, whatever is killed or fails between the generation, its
\* line and the index.
IndexCommitted ==
  index # None /\ ~Malformed(ledger) => index.run \in Committed

\* What the ledger commits is there, complete, and keeps what it says: no
\* later derivation, repair or cleanup writes to it or removes it.
CommittedKept ==
  [][\A r \in Committed : Complete(r) /\ r \in gens' /\ files'[r] = files[r] /\ content'[r] = content[r]]_outputs

\* A run has one outcome: no derivation is recorded as a success and as a
\* failure, although the error of an index that cannot be written goes
\* through the handler that records failures.
OneOutcome ==
  \A i, j \in Whole(ledger) :
    i # j => ledger[i].record.run # ledger[j].record.run

\* The playbook that is published is never exchanged for an older one while
\* the ledger is whole: repair-index takes the latest commit.
IndexForward ==
  [][index # None /\ ~Malformed(ledger) => index' # None /\ index'.run >= index.run]_index

\* A reader finds the profile that the index named, however long ago it
\* looked: derivation, repair and cleanup may run in between.
ReadersServed ==
  \A d \in Reader : view[d] # None => ~view[d].missing

\* The lines that say a decision of these actions on signal s.
On(log, s, actions) ==
  {i \in Whole(log) : LET r == log[i].record.review IN r.target = s /\ r.action \in actions}

\* The last of these decisions.
Decided(log, s, actions) ==
  LET on == On(log, s, actions) IN
  IF on = {} THEN None ELSE log[CHOOSE i \in on : \A j \in on : j <= i].record.review

\* "current" means: every profile shows the signals of its person that the last
\* review of each leaves in, with what the last review of its entry says, and
\* the people are those of the registry; or they are those of one that the
\* owner wrote while the derivation stood between fingerprint and reading, and
\* has exchanged since for what the fingerprint says.
CurrentMeansDerived ==
  Status = "current" =>
    \E read \in ({registry} \cup between[index.run]) \ {None} :
      \A p \in Person :
        LET shown == content[index.run][p] IN
          /\ \A s \in Signal : (\E e \in shown : e.signal = s) <=>
               /\ s \in signals /\ p \in read /\ Owner[s] = p
               /\ LET d == Decided(overrides, s, {"suppress_signal", "unsuppress_signal"}) IN
                  d = None \/ d.action = "unsuppress_signal"
          /\ \A e \in shown :
               LET d == Decided(overrides, e.signal, {"reject_entry", "restore_entry"})
                   q == Decided(overrides, e.signal, {"resolve_tracked_item"})
               IN  /\ e.review = IF d = None THEN "unreviewed"
                                 ELSE IF d.action = "reject_entry" THEN "rejected"
                                 ELSE "restored"
                   /\ e.resolution = IF q = None \/ e.signal \notin Tracked THEN None
                                      ELSE q.state

\* Decisions that replace one another.
Family(action) ==
  CHOOSE f \in {{"reject_entry", "restore_entry"}, {"resolve_tracked_item"},
                {"suppress_signal", "unsuppress_signal"}} : action \in f

\* A review is repeated only after something else was decided: two commands
\* that ask for the same at the same time leave one event.
NoEcho ==
  \A i, j \in Whole(overrides) :
    LET a == overrides[i].record.review IN
    i < j /\ overrides[j].record.review = a =>
      \E k \in Whole(overrides) :
        LET r == overrides[k].record.review IN
        /\ i < k /\ k < j /\ r # a
        /\ r.target = a.target /\ r.action \in Family(a.action)

\* A playbook that is missing or out of date becomes current again, unless
\* something stands in the way that only a person can repair.
BecomesCurrent == []<>(Status = "current" \/ Blocked)

\* Suppressed content re-emerges under a new signal ID: the doctor reports it
\* when the signals have changed, not as the effect of a review.
ReportedWhenNew ==
  [][signals' = signals /\ Reemerged(signals, overrides, History)'
       => Reemerged(signals, overrides, History)]_overrides
=============================================================================
