# meeting-ingest in TLA+

`meeting-ingest` turns meeting transcripts into Markdown artifacts and JSONL
signal files inside a project directory. Everything it knows is in files: there
is no server and no database. Commands are independent processes started by
people and by agents, any of them may be killed, and the next one works from
what is on disk. This directory holds a model of that: TLA+ modules, the TLC
configurations that check them on small instances, and TLAPS proofs.

## 1. The system

| Component | Source | State on disk | Operations |
|---|---|---|---|
| Ingest pipeline | `pipeline.py` | everything below | `ingest`, `ingest-inbox`, `reconcile`, `repair-date`, `provider-request`, `validate-response`, `init` |
| Project lock | `locking.py` | `_cache/meeting-ingest.lock` | enter, exit, inspect |
| Source ledger | `ledger.py` | `_ledger/*.jsonl`, append-only | mint an identity, append a snapshot, read the latest record |
| Archive | `archive.py` | `_inbox`, `_inbox/_done`, `_processed`, `_quarantine` | archive and reconcile, repair a duplicate, quarantine |
| Signals | `signals.py`, `ids.py` | `_signals/<meeting>.jsonl` | atomic rewrite, deterministic ids |
| Doctor, readiness | `doctor.py`, `readiness.py` | none | inspect; guard every writing command |
| Session handoff | `provider_handoff.py`, `session_handoffs.py`, `session_inbox.py` | request and response files in `_cache` | mint a request, complete it, plan a batch |
| Playbook | `playbook.py`, `playbook_status.py` | generation directories, derivation ledger, index | update, repair index, cleanup, show, brief |
| Stakeholders | `stakeholders.py` | `stakeholders.toml`, edited by hand | parse, match a name |
| Playbook review | `playbook_review.py` | append-only review events | reject, restore, resolve, suppress, unsuppress |
| Runtime release | `runtime_release.py` | release store, channel and its lock; per root a pin and two workflow files; the tool that `uv` installed | publish, install, workflow, pin, init, update |
| Runtime inspection | `runtime.py` | none | compare what runs with what is pinned |
| Runtime build | `runtime_build.py`, `build_backend.py`, `scripts/` | none | a wheel from a git archive |
| Configuration, command line | `config.py`, `paths.py`, `cli.py` | none | parse, dispatch, exit codes |
| Text | `extract.py`, `transcript.py`, `render.py`, `schema.py`, providers | none | conversions |

How they interact. A command first asks `readiness`, which runs `doctor` over
the whole project, and refuses to start on a blocking finding. Only then does
it take the lock. Inside the lock it reads the ledger, writes files and appends
ledger lines; the ledger line is the commit, the files come first. `reconcile`
and a repeated `ingest` finish what an earlier one left. Session ingests are
split in two commands with a file exchange in between. The playbook reads the
signals that ingest committed, the registry of stakeholders and the reviews, and
keeps its own ledger; it uses the same lock and the same readiness guard. The
release commands share the machine (store, channel, installed tool) and not the
project: they do not take its lock, and only `publish` takes one at all.

What makes it hard:

- the readiness guard reads the project *before* the lock is taken;
- every file write and every append is a separate effect: a kill or an I/O
  error can fall between any two of them, and `write_text`, `copy2` can be cut
  short in the middle;
- the lock is a file: a kill leaves it, people remove it by hand;
- an identity is minted from the ledger, written into two files, and appended
  several steps later;
- the same transcript arrives again, under another date, or while another
  command works on it;
- `repair-date` replaces several files before it tells the ledger;
- a playbook generation is a directory of files, a ledger line and an index, and
  people read it while it is being replaced;
- the three ledgers are appended to without a temporary file, so that a kill or a
  full disk leaves half a line which the next append continues;
- a signal gets its name from what it says, people and reviews refer to it by that
  name, and the file it stands in is written again by retries, repairs and later
  releases;
- what makes doctor refuse a project also refuses the commands that could repair
  it;
- there is one installed tool for all consumer roots, an update changes it first
  and the root many steps later, and other commands run in between.

What has to be right.

- Ingest: one writer at a time; a source gets its outputs once and keeps them;
  the current ledger record describes what is on disk, so that the readiness
  guard does not block the project; a source leaves the inbox only when it is
  archived and recorded; interrupted work can be finished.
- Source ledger: what it showed is kept or its damage is reported; a success that
  a command returns is on record.
- Signals: no two of a file share an id, none is lost when ids are given out, and
  ids that somebody may have referred to stay.
- Session handoff: a source is filed from the request that was minted for it; a
  handoff lives until its source is settled; the inbox drains.
- Playbook: what is shown was committed whole; what is committed is never
  written again nor removed; what is called current says what the signals and
  the reviews say; a playbook that is due becomes current.
- Release: the channel lists what the store can serve; what passes for approved
  has the files of one build; `init` puts no pin in the place of another's; an
  update that is run again arrives.

## 2. The modules

| Module | What it is |
|---|---|
| `IngestPipeline` | the detailed model: `ingest`, `reconcile`, `repair-date`, the lock, faults, and the properties |
| `IngestPromise` | what is promised about a source, with no lock, ledger or failure |
| `IngestRefinement` | the mapping from the first to the second |
| `IngestInvariant` | the inductive invariant |
| `IngestProofs` | the proofs of the invariant, of the safety properties and of the refinement |
| `MCIngest` | its instances for TLC |
| `MCRepair` | an instance that begins after an interrupted date repair |
| `SessionHandoff` | session ingests: `session-inbox`, `ingest-inbox`, `provider-request`, `ingest --provider-response`, `reconcile`, the agent that answers, and the properties |
| `SessionRefinement` | the mapping from it to `IngestPromise` |
| `SessionInvariant` | its inductive invariant |
| `SessionProofs` | the proofs of the invariant, of the safety properties and of the refinement |
| `MCSession` | its instance for TLC |
| `AppendLog` | a JSON Lines file, with appends that are cut short |
| `AppendLogProofs` | what an append does to the lines before it |
| `FoldTheorems` | what a recursion along a file computes, by induction |
| `PlaybookReview` | review events, their fold, and the derivation of profiles, as functions |
| `Playbook` | `update`, `repair-index`, `cleanup`, `review`, readers, faults, and the properties |
| `PlaybookPromise` | what readers are promised, with no lock, generation or failure |
| `PlaybookRefinement` | the mapping from `Playbook` to it |
| `PlaybookInvariant` | the inductive invariant |
| `PlaybookProofs` | the proofs of the invariant, of the safety properties, of the refinement, and of what reviews fold to |
| `MCPlaybook` | its instances for TLC |
| `RuntimeRelease` | `publish`, `install`, `workflow`, `update`, `init`, `pin`, faults, and the properties |
| `ReleasePromise` | what consumers are promised, with no store, tool or file |
| `ReleaseRefinement` | the mapping from `RuntimeRelease` to it |
| `ReleaseInvariant` | the inductive invariant |
| `ReleaseProofs` | the proofs of the invariant, of the safety properties and of the refinement |
| `MCRelease` | its instances for TLC |
| `SignalIdentity` | signal ids from the provider's answer to the review that suppresses a signal, and the properties |
| `SignalProofs` | its inductive invariant and the proofs |
| `MCSignals` | its instances for TLC |
| `SourceLedger` | the source ledger as a file with torn lines, the commands that append to it, and the properties |
| `LedgerInvariant` | its inductive invariant, and what `IngestPipeline` takes from a ledger |
| `LedgerProofs` | the proofs of the invariant and of the properties |
| `MCLedger` | its instances for TLC |

Some definitions stand next to a variant that is commented "Mutant": it is the
same step with a plausible bug, and a check in which it takes the place of the
original must find the property violated.

`IngestPromise` is the joint of the first two: both implement it. `IngestPipeline`
opens up what happens between the lock and the ledger for one command at a time;
`SessionHandoff` takes the filing of a source as one step and opens up what goes
on between commands, in the request and response files. `Playbook` takes an ingest
as one step that adds signals. `RuntimeRelease` shares with the others only the
verdict that a runtime is ready, which `SessionHandoff` takes as given. Two modules
open up what the others take as given: `SourceLedger` the ledger, which is a
sequence of whole records in `IngestPipeline`, and `SignalIdentity` the signals,
which are one value in `IngestPipeline` and have their names from nowhere in
`Playbook`.

## 2a. `IngestPipeline`

### State

| Variable | In the program |
|---|---|
| `lock` | the lock file: absent (`None`) or made by a process |
| `ledger` | the snapshots, in file order |
| `places` | for each source (a content hash), the directories with a copy of it; `truncated` is a file in `_processed` that a kill cut short |
| `artifacts` | the Markdown files by path; a path is a date and a numeric suffix, since all titles are taken to be alike |
| `signals` | one file per meeting id |
| `pc`, `job` | the next step and the local variables of each process |
| `runs`, `faults`, `drops` | the bounds of the model |

A meeting id is a source and the date found when it was minted. A ledger record
id is the tuple of fields it is a hash of: source, sequence, event and run. A
file's content is what the front matter and the fingerprint say: its meeting,
its producer and its date.

### Actions

One action per effect, in program order.

- `ingest`: `StartIngest` (readiness guard), `Acquire` or `LockConflict`;
  `PrepareDuplicate`, `PrepareFresh`, `PrepareUnreadable`, `PrepareGone`
  (`_prepare_ingest`); `Quarantine`, `RecordFailure` (`_record_source_failure`);
  `ProviderAccepted`, `ProviderRejected`; `Mint`, `WriteSignals`,
  `WriteArtifact`, `AppendPrimary`, `VerifyLink`, `ArchiveCopy`,
  `ReconcileMove`, `AppendCompleted` (`_finish_ingest`); `Release`.
- duplicate repair, in a no-op `ingest` and in `reconcile`: `ReconcileScan`,
  `RepairCopy`, `RepairMove`, `RepairAppend`, `RepairDone`.
- `repair-date`: `RepairNothing` or `RepairTarget`, `RedateWrite` or
  `RedateUnreadable`, `RedateUnlink`, `RedateSignals`, `RedateAppend`,
  `RedateVerify`. The file that is rewritten is the one under the recorded name,
  whoever owns it by now.
- the world: `Abort` (an `OSError` that unwinds through the lock), `Crash` (a
  kill: the lock file stays), `RemoveStaleLock`, `Drop` (a copy arrives in the
  inbox). `CutShort` lets a kill or an error truncate the file being written.

`Ready` is the readiness guard: no lock file, and no blocking finding of
`doctor` about the current record of any source. `incomplete_reconcile` blocks
`repair-date` only, as `_doctor_findings` has it.

### Abstractions of `IngestPipeline`

- One output mode, at least one signal per meeting, the same title everywhere.
  The last is the worst case for file names.
- One file name per source. The numeric suffixes in `_done` and `_quarantine`
  are not told apart.
- A move within the project is atomic (a rename).
- Ledger lines are whole. `SourceLedger` is the reason: while readiness finds nothing
  wrong with the ledger, it reads as the sequence of all records that it ever showed,
  and grows by a freshly minted record at a time (`LedgerIsASequence` in 4f). Ledger
  records of schema 1.0 are left out.
- The readiness guard is one step. It reads many files in the code, but it
  holds no lock and changes nothing; what matters is that it is stale when the
  lock is taken, and it is.
- The operator removes a lock file only when its maker is dead. `doctor` reports
  a lock as stale by age alone; nothing in the code removes it.
- The operator ingests a file from the inbox, from `_done` or from elsewhere.

## 2b. `SessionHandoff`

### State

| Variable | In the program |
|---|---|
| `lock`, `pc`, `job` | as above; `job.todo` and `job.names` are the lists of handoffs and of inbox files that a batch made before it works on them |
| `inbox` | the direct inbox files: a name and a content |
| `filed` | the outputs the latest ledger record of a source names: the run, the date and the runtime they were made with, and whether `ingest_completed` was appended (`settled`) |
| `archived`, `rejected` | the sources with a copy in `_processed`, in `_quarantine` |
| `requests`, `responses` | the files in `_cache/provider-requests` and `_cache/provider-responses`, by ingest run id |
| `minted` | history: each request as it was meant, kept when its file is gone |
| `replaced` | history: sources whose inbox file was overwritten by its owner |
| `runtime` | the approved runtime |
| `drops`, `mishaps`, `faults` | the bounds of the model |

A source is a content hash. What a request fixes for its source (effective date,
meeting id, mode, quality) is one value, `date`. A response file is told apart
by the request it answers and by whether it passes validation.

### Actions

- planning: `StartSessionInbox`, `Plan` (`pending_session_handoffs`),
  `StillWaiting`, `ExtractorFails`, `CompleteNext` (`_complete_pending_result`),
  `GoFresh`, `ListInbox` or `ListBlocked` (`ingest_inbox`), `MintNext`,
  `BatchDone`; `StartIngestInbox`.
- phase 1: `StartProviderRequest`, `Acquire` or `LockConflict`; `PrepareGone`,
  `PrepareFiled`, `PrepareUnreadable`, `PrepareFresh` (`_prepare_ingest`),
  `WriteRequest`; `Release`.
- phase 2: `StartIngest`; `GuardPassed` or `GuardRefused` (readiness and
  `verify_session_handoff_runtime`); `ConsumeGone`, `ConsumeFiled`,
  `ConsumeRefused`, `ConsumeRejected`, `ConsumeAccepted`
  (`_complete_session_ingest_locked`); `Commit`, `Archive`, `Move`, `Complete`
  (`_finish_ingest`); `CleanRequest`, `CleanResponse`.
- `reconcile`: `ReconcileScan`, `RepairNext`, and again `Archive`, `Move`,
  `Complete`; `RepairDone`. A duplicate takes the same steps.
- `Unwind`: an exception that a batch does not catch ends it and frees the lock.
- the world: `Abort`, `Crash`, `RemoveStaleLock`; `Drop` puts a file into the
  inbox or replaces one; `Respond`, `Misanswer` are the host agent;
  `ChangeRuntime`; `Abandon` removes a handoff by hand.

`Ready` is the readiness guard again, here with what `doctor` says of handoffs:
a torn request blocks every command, a pending or unbound one those commands
that are not there to work on handoffs, an unsettled record all but `ingest` and
`reconcile`.

### Abstractions of `SessionHandoff`

- Outputs, ledger identities and signals are one step, `Commit`; their
  interruption is the subject of `IngestPipeline`.
- Run ids are numbers, minted in order. They carry a timestamp and a random
  suffix in the code; only their uniqueness matters.
- Inbox files are replaced only while no command holds the lock. The tool reads
  a source and moves it by path later; it does not claim to withstand a file that
  changes under it.
- The agent answers requests it can read. An answer that is late, repeated,
  unreadable, invalid or meant for another request is allowed.
- The operator abandons requests that are torn, stale or bound to a runtime that
  is no longer approved, as the messages of the tool ask.
- Runtime readiness is taken to be given: a change of the approved runtime is one
  step, after which the new one is ready.
- A filed source stays readable: `_prepare_ingest` and phase 2 look only at the
  latest record of a source, and so does the model.

## 2c. `Playbook`

### State

| Variable | In the program |
|---|---|
| `lock`, `pc`, `job` | as above; `job.run` and `job.inputs` are the run id and the fingerprints of a derivation, `job.todo` the generations that cleanup has listed |
| `registry`, `signals`, `overrides` | `stakeholders.toml` (the people it names, or `None` when it cannot be read), the signals in the signal files, the review ledger |
| `ledger` | the derivation ledger |
| `gens`, `files`, `content` | the directories in `_derived/generations`, the files in each of them, what those files say |
| `index` | `playbook-index.json` |
| `minted` | the last run id handed out |
| `view` | what each reader took from the index, and whether it found the file |
| `edits`, `faults` | bounds of the model |
| `between` | history: the registries that the owner wrote after a run took its fingerprints and before it read the registry; no action depends on it |

Both ledgers are `AppendLog`s: lines, of which the last may lack its newline.
The next append continues such a line, and two objects on one line are
`Garbled`, a line that readers report as malformed.

### Actions

- `StartUpdate`, `StartRepair`, `StartCleanup`, `StartReview` (readiness),
  `Acquire` or `Refused`, `Release`.
- `update`: `Discover` (fingerprints), `Derive` or `RegistryInvalid`,
  `WriteMember` (candidates, each profile, the manifest), `Commit` (the ledger
  line), `PublishIndex`; `RecordFailure` is the handler.
- `repair-index`: `Repair`. `cleanup`: `ListUncommitted`, `RemoveNext`,
  `CleanupDone`. `review`: `AppendReview` or `ReviewNoOp`.
- `show`, `brief`: `Open` and `ReadProfile`, without the lock.
- the world: `EditRegistry`, `Ingest`, `RemoveLock`; `Kill`, `Interrupt`
  (a `KeyboardInterrupt`, which no handler records), `WriteError`, `RemoveError`;
  `CommitCutShort`, `FailureCutShort`, `ReviewCutShort`, each of which the command
  may survive or not.

`Profiles` is the derivation: the entries of the people of the registry from the
signals that are not suppressed, with what the reviews say. `Status` is
`live_playbook_status`, `Blocked` the findings of doctor that refuse every
playbook command.

### Abstractions of `Playbook`

- Every signal is an entry of its own, as asks, commitments and rationales are.
  `Tracked` says which of them are asks or commitments: only these show a
  resolution, although a review may resolve anything (`playbook.py:808`).
- Run ids are numbers, minted with the lock; only uniqueness and the order of the
  ledger lines matter.
- Fingerprints are the values that they are hashes of. A member file says what the
  derivation settled, from its first byte on; a file that `os.replace` did not put
  in place is not there.
- The registry is read again after its fingerprint was taken, and its owner edits it
  at any moment; the other inputs change under the lock only.
- A reader reads what its index named, in a later step; `brief` of several people
  is several readers.

## 2d. `RuntimeRelease`

### State

| Variable | In the program |
|---|---|
| `lock` | `channels/private-alpha.lock` |
| `channel` | `channels/private-alpha.json`: the latest receipt and the previous ones |
| `wheels`, `receipts` | what is in `releases/<build>` |
| `tool` | the build that `uv tool` has installed, for the whole machine |
| `skill`, `agent`, `pin` | the two workflow files and `runtime.toml` of each consumer root |
| `pc`, `job` | `job.running` is the build that executes, `job.old` and `job.undo` are what `_write_atomic_pair` remembers for its rollback |
| `starts`, `faults` | bounds of the model |

### Actions

- `publish`: `StartPublish`, `Lock`, `Plan`, `CopyWheel`, `CopyReceipt`,
  `Advance`, `Unlock`.
- `install`: `StartInstall`, `Uninstall`, `Install`, `Match`.
- `update`: `StartUpdate`, `SelectForUpdate`; then either the installation and
  `HandOver`, or `Render`, `WriteSkill`, `WriteAgent`, `Verify`, `WritePin`.
- `init`: `StartInit`, `SelectForInit`, the same, then `Settle`, `Unwind`, `Unpin`.
- `workflow`: `StartWorkflow`, `Render`, `WriteSkill`, `WriteAgent`; or
  `WriteSkillAlone`, when no agent was asked for. `pin`: `StartPin`, `Verify`,
  `WritePin`.
- faults: `Kill`, `Fail`, `FailLate` (the agent was replaced when the error came),
  `RollBackAgent`, `RollBackSkill`; `RemoveLock`.

`Approved` is the verdict of `inspect_runtime` for a root and a running build.

### Abstractions of `RuntimeRelease`

- One channel. The order of its previous releases is left out.
- A build is identified with its wheel, which is reproducible; a receipt is an
  approval of a build with its time, so that two receipts of one build differ.
- The fallback to workflow files in the user's home is left out.
- The parent of a hand-over only waits: the child takes its place.
- The tests that a selection or a verification makes are one step, the effects
  are steps of their own. `fsync` failing after a replacement is the replacement
  followed by an error or a kill.
- `update` of several roots is one command for each; `update --check` and
  `inspect` write nothing.
- A lock is removed when no publisher is at work, which is what its message asks
  for.

## 2e. `SignalIdentity`

### State

| Variable | In the program |
|---|---|
| `files` | the signal files, by meeting: their schema, their signals, and `made`, by which one content is told from another as by its fingerprint |
| `current` | the signal manifest of each source's latest ledger record |
| `suppressed` | the suppressions of the review ledger, folded, with the match stored in the event and, as history, what the reviewer was looking at |
| `lock`, `pc` | as above |
| `draft` | the meeting whose record the holder of the lock will append, and what its signals have to say |
| `runs`, `reviews`, `kills` | the bounds of the model |

An observation is what a signal says without its provenance and its times. Four
constants say how observations look to the code: `Base` is the part of the id that
hashes type, speaker and locator (or the evidence, where there is no locator),
`Place` is type and locator, `Raw` the label in the transcript and `Name` what the
provider made of it.

### Actions

`Start` (readiness) or `GiveUp`; `WriteAnswer` (ingest) and `Repair` (date repair)
write a signal file under the lock, `AppendRecord` its record; `Suppress` and
`Unsuppress` are reviews. `Kill` falls between file and record, and
`RemoveStaleLock` follows it. `Assigned` is `assign_deterministic_signal_ids`:
equal content collapses, the others of one base are numbered in the order of their
content hashes. That order is chosen anew by each call, because the content holds
the producer of the attempt.

### Abstractions of `SignalIdentity`

- Different bases never collide; text normalisation is left out. Observations may be
  mapped to the same base by the instance.
- Artifacts and archives are left out: they change no signal.
- A legacy file has two signals when it is of schema 1.0 and one when it is of 1.1;
  one source has one.
- Reviews other than suppressions are the subject of `PlaybookReview`.

## 2f. `SourceLedger`

### State

| Variable | In the program |
|---|---|
| `ledger` | `source-ledger.jsonl`, an `AppendLog`: lines, of which the last may lack its newline |
| `appended` | history: the records that the ledger ever showed, in order |
| `lock`, `pc` | as above |
| `job` | the sources the command has yet to write a line for, the event, and the sequence that its signals name as their producer |
| `faults` | bound of the model |

### Actions

`Start` (readiness: no reported line) or `GiveUp`; `Ingest`, for a source without
outputs and without unresolved legacy history, and `Reconcile`, for the sources
found in the inbox, take the lock; `AppendSnapshot` mints and appends;
`Verify` is the check that the producer of the signals is on record, after which
the ingest appends `ingest_completed`. `Kill` and `Fail` cut an append short: nothing,
half a line, or a line without its newline. Readers skip what makes no sense;
`doctor` reports it.

### Abstractions of `SourceLedger`

- `ingest_failed` is appended in one step of an ingest; quarantine has the same
  shape. `date_repaired` is left out: it is appended and verified as the primary
  record is.
- The effects of a command on other files are left out: `IngestPipeline` has them.
- Lines that are JSON and no valid record count as unreadable. Nobody edits the
  ledger by hand.
- A legacy line is of one source, at the beginning of the file.
- Commands that passed readiness before the ledger was damaged still run, as they do
  in the program.

## 3. What the runs check

| Run | Instance | Properties | Size |
|---|---|---|---|
| `ingest` | 2 processes, 2 sources, 2 dates, 4 runs, 2 faults, 1 drop, within `Scope` | `TypeOK`, `PrimaryStable`, `MintedIdentityHolds`, `CurrentStateSound`, `OutputsUntouched`, `PromiseKept` | 940 thousand states, 2 to 3 minutes |
| `ingest_live` | 2 processes, 1 source, 1 date, `ingest` and `reconcile`, 2 runs, 2 faults | `LockFreed`, `InterruptedIngestHeals` | 55 thousand |
| `handoff` | 1 process, 2 names, 2 sources, 2 runtimes, 2 requests; 1 drop, 1 mishap, 1 fault; `session-inbox`, `ingest`, `reconcile` | `TypeOK`, `FiledAsRequested`, `HandoffKept` | 1.1 million, 70 s |
| `rivals` | 2 processes, 1 name, 1 source that also lies outside, 2 dates, 2 requests of which one may be old; 1 fault; all commands but `reconcile` | `PromiseKept` | 966 thousand, 100 s |
| `handoff_live` | 1 process, 1 name, 1 source, 2 runtimes, 3 requests; 1 mishap, 1 fault | `InboxDrains`, `AnsweredCompletes` | 30 thousand, 45 s |
| `stolen_artifact` | 2 processes, 2 sources, 2 dates, after an interrupted repair; 2 more runs, no further fault | `ArtifactKeepsMeeting` is violated | 3.5 thousand |
| `playbook` | 2 commands, 1 reader, 1 person, 1 signal that is ingested at some time, 2 runs; 2 registry edits, 2 reviews, 1 fault, within `Scope` | `TypeOK`, `IndexCommitted`, `OneOutcome`, `ReadersServed`, `CurrentMeansDerived`, `NoEcho`, `CommittedKept`, `IndexForward`, `PromiseKept` | 1.5 million, 2 minutes |
| `playbook_live` | 1 command, 1 person, 1 signal, 5 runs; all reviews of an entry, 2 reviews, 2 faults | `CurrentMeansDerived`, `BecomesCurrent` | 673 thousand, 2 minutes |
| `suppressed_stuck` | 1 command, 2 signals that match, no fault | `ReportedWhenNew` is violated | |
| `release` | 2 commands, 1 root, 2 builds, 3 receipts, 3 starts, 1 fault | `TypeOK`, `ChannelServed`, `ApprovedIsWhole`, `InitNeverRepins`, `PromiseKept`, `UpdateConverges` | 462 thousand, 2 minutes |
| `signals` | 2 commands, 1 source, 2 dates, 3 observations (2 at one locator, 1 without), legacy files; 4 files written, 3 reviews, 2 kills | `TypeOK`, `IdsUnique`, `NothingLost`, `SuppressionHolds`, `FiledIdsStable` | 93 thousand, 12 s |
| `ledger` | 3 commands, 2 sources, 6 lines, 2 faults | `TypeOK`, `KeptOrReported`, `FiledOnce`, `SuccessLinked` | 110 thousand, 20 to 40 s |

- `PrimaryStable`: once a source has outputs, no ledger line hides them, moves
  them to another meeting or announces them again.
- `MintedIdentityHolds`: a minted identity is still the next one when appended, which
  it would not be with two writers in the locked section.
- `CurrentStateSound`: as long as no date repair was stopped half way
  (`RepairsSettled`: no whole artifact of a repair is left that no current record
  names), the current record of every source that is not being repaired describes
  the disk, so no interleaving and no fault of `ingest` or `reconcile` makes the
  readiness guard block the project. A stopped repair takes the promise away for
  good and for all sources, not only for its own: after the theft that
  `stolen_artifact` shows, another repair of the thief leaves two files of the
  robbed meeting next to each other, and its record names neither.
- `OutputsUntouched`: an artifact, one that no record names and one that is cut
  short included, is changed only by a date repair of a source whose record names
  this file. That this source is the one the file belongs to does not hold; see
  `stolen_artifact` below.
- `PromiseKept`: the refinement of `IngestPromise`.
- `LockFreed`, `InterruptedIngestHeals`: progress.
- `FiledAsRequested`: whatever file stands under the name a request carries,
  whatever answer lies in its response file and whatever runtime is approved by
  then, a source is filed only from a request that was minted for this content
  with a runtime binding, and with that request's date and runtime.
- `HandoffKept`: no command removes a request before its source is filed from it
  and settled.
- `InboxDrains`, `AnsweredCompletes`: a file leaves the inbox in the end, an
  answered handoff bound to the approved runtime is resolved in the end.
- `IndexCommitted`, `CommittedKept`, `OneOutcome`: while the derivation ledger is
  whole, the index names a committed generation; what is committed is complete and
  never touched again; no run is recorded twice, although the error of an index
  that cannot be written goes through the handler that records failures.
- `IndexForward`: the published playbook is not exchanged for an older one.
- `ReadersServed`: a reader finds the profile that the index named, however long
  ago it looked.
- `CurrentMeansDerived`: a playbook that is called current shows exactly the
  entries that the last review of each leaves in, with what it says, of the people
  of the registry. There is one exception: a registry that the owner wrote while the
  derivation stood between fingerprint and reading, and replaced later by the one
  in the fingerprint. Other edits, and ingests, excuse nothing. The property reads
  the review ledger backwards; the code folds it forwards. `playbook` has
  an ingest, suppressions and two registry edits, which are what it takes to reach the
  exception; `playbook_live` has the reviews of an entry.
- `NoEcho`: two commands that ask for the same review leave one event.
- `BecomesCurrent`: a playbook that is due becomes current, unless a finding asks
  for a person.
- `PromiseKept` of `Playbook`: readers see one whole playbook, exchanged in one
  step.
- `ChannelServed`: every listed release can be installed and verified.
- `ApprovedIsWhole`: a root whose runtime passes for approved has skill and agent
  of that build.
- `InitNeverRepins`, `UpdateConverges`: `init` replaces no pin; running `update`
  again brings a pinned root to the latest release.
- `PromiseKept` of `RuntimeRelease`: a release stays what it is, the channel loses
  none of the builds it listed, a root moves in one step and to a release.
- `IdsUnique`, `NothingLost`: however many observations share a base, in whatever
  order their hashes come, and from whatever release the file is, ids are unique and
  every observation that was answered, or was there before a repair, is in the file.
- `FiledIdsStable`: once a source has a record, no later ingest, repair or kill
  changes its ids (those of schema 1.0 aside).
- `SuppressionHolds`: what a reviewer suppressed in a filed source stays what the
  suppression names. Two ingests that were both admitted before there was a record
  are what it is about.
- `KeptOrReported`: the ledger shows all that it ever showed, in order, or `doctor`
  reports it and no command starts.
- `FiledOnce`: while nothing is reported, no source was filed twice and no source
  with legacy history was filed at all. It is conditional because a torn line takes
  the record of a filing from the commands that were already admitted.
- `SuccessLinked`: an ingest that returns success has its completed record and its
  producer in the ledger, also when its primary record went onto a torn line.

Bounds. `MaxRuns` bounds `ingest` and `repair-date`; `reconcile` is not bounded.
Three runs are enough for an ingest, a repair and a third command that meets
both; two faults are enough to interrupt a command and the one that repairs it;
one drop brings a known source back. Two processes give every interleaving of
two commands, and a dead process beside a live one. `Scope`, the constraint of
`ingest`, joins two instances that together are small enough: two processes that meet
on one source, with three runs, and one process at a time that files two sources of
the inbox and redates them, with four: an ingest, a date repair that is stopped, an
ingest of the other source that takes the freed name and is stopped, and a repair that
finds a file there it cannot read. What sources share is the directory of artifacts and
the readiness of the project, and the commands that meet there need not overlap; two
meetings met by overlapping commands are in `stolen_artifact`, and the theorems of
section 4a are for any number of them. `stolen_artifact` begins in a state that `Spec`
reaches with one process, two runs and one fault (an ingest, then a repair that is
stopped after it removed the old name), since the whole way from the start is too
long for the state spaces of two processes. All configurations disable the deadlock check because the bounds let
the model stop, and the program stops too when nobody starts a command.
Symmetry is used in the safety runs only.

For `SessionHandoff`, two requests are what it takes for two handoffs of one
file, or of two files whose answers are mixed up; the third in `handoff_live`
leaves room for a fresh request after both were spoilt. One mishap is a wrong
answer, a failed extraction or a change of the runtime (each of them opens all
the paths of rejection and retry); one drop replaces a file or brings a filed
source back, under the same or another name. One process with lists that are
made before they are used meets every stale plan that the world outside can
produce; `rivals` adds a second command between any two steps, a request without
a runtime binding, and a copy of the source outside the inbox, which stays there
when the inbox copy is gone as a file that is dropped again would.

For `Playbook`, two runs are two generations, of which either may be interrupted,
and a second one may be committed; two commands interleave a review or a cleanup
with an update up to the lock; two edits change the registry between its fingerprint
and its reading and change it back; two review lines are an event and the one that
takes it back, or an event and its echo. Three runs, and faults of any number, are
covered by the theorems of section 4c. `MaxFree` bounds derivations that nobody
needs. The constraint `Scope` of `playbook` joins two instances: one in which the
source is ingested before the first derivation, within all the bounds, and one in
which it is ingested whenever the lock is free, between derivations too, without an
edit, a fault or a review. The theorems leave no such gap.
`playbook_live` begins with the signal in place. Its five runs leave room for a
derivation at the start and after every fault and review, since a run that ends
without its index has to be followed by another; two reviews are an event and the one
that replaces it, or one of the other family; two faults are an interrupted derivation
and an interrupted cleanup of what it left.

For `RuntimeRelease`, three starts (of anything but `update`) are enough to
publish a second build, to publish it again under another receipt and to run one
of `install`, `workflow`, `init` or `pin` against an update. Updates are not
bounded, nor is the reinstallation of a tool that was lost. Both builds have one
version, so that the version check of `_require_frozen_install` tells nothing
apart, which is the worst case.

For `SignalIdentity`, three observations are two that collide and one that does
not; four files are an ingest that was killed, one that was admitted beside it, and
two repairs; three reviews are a suppression, its end and another one. The source
is one because nothing is shared between the signals of two (a reference begins with
its source).

For `SourceLedger`, a damaged line takes two appends to show (one that leaves no
newline and one that continues it), and the commands that append must have been
admitted before; three commands are the one that fails, the one that continues the
line and a bystander. Six lines hold a legacy line or a failure, the two lines of an
ingest, two repairs and a further attempt. Two sources are one whose line is damaged
and one that damages it.

Fairness. `FairSpec` assumes that a started command takes its next step (the
operating system schedules it; no step waits for another process, as the lock
is tried once), that somebody keeps running `reconcile`, and that lock files of
dead processes are removed in the end. The first is what the code relies on;
the other two are what its error messages ask of the operator. Nothing is assumed
of `ingest`, `repair-date`, faults or drops.

`FairSpec` of `SessionHandoff` assumes in addition that the agent answers
requests, that the operator removes what the tool asks to be removed, and that
`session-inbox`, `reconcile` and `ingest --provider-response` are run again and
again. The last is strong fairness: a command is refused while another holds the
lock or readiness blocks it, and somebody tries again. Answers and runtimes go
wrong a bounded number of times.

`FairSpec` of `Playbook`: a command takes its next step; the owner runs `update`
again while it is due and sooner or later gets the lock (strong fairness, as other
commands may hold it whenever the owner tries); the lock of a dead command is
removed. `FairSpec` of `RuntimeRelease`: a command takes its next step; the owner
of each root runs `update` again, and installs the latest release again when an
interrupted `uv` left no tool to run it with.

### Where documents and code differ

- `stolen_artifact`. `docs/artifact-contract.md:1596` says that `repair-date` "must
  not change `meeting_id` [...] or transcript content". It rewrites whatever file
  stands under the recorded name. A repair that is stopped after it removed the old
  name frees that name; an ingest of another meeting with the same title and date
  takes it; and a second repair of the first meeting, past the readiness guard
  before that ingest, rewrites, renames and records the other meeting's artifact as
  its own. `doctor` has nothing to report: an artifact is searched for by its meeting,
  and is checked for its producer when its path is the recorded one.
- `suppressed_stuck`. `docs/artifact-contract.md:1353` says that doctor "reports
  suppressed content that re-emerges under a new signal ID". It compares every
  unsuppressed signal with every suppressed one, new or not: of two signals with
  the same source, type, actor and locator, suppressing one blocks the project,
  and with it the command that would unsuppress.

Seen while modelling, and not the subject of a run. The first seven are behaviours of
the models, which TLC shows when the sentence quoted is stated as a property:

- `docs/implementation-plan.md:551` asks for a "reconcile retry for records stuck
  after `primary_artifacts_ready`". If a command is killed after the source was moved
  to `_done` and before `ingest_completed` is appended, the record stays pending:
  `reconcile` looks only at the inbox and appends only when it moved or copied
  something. `incomplete_reconcile` then blocks the commands that are not exempt from
  it, until the file is dropped into the inbox again. `InterruptedIngestHeals` states
  what does hold.
- `docs/artifact-contract.md:1701` calls `_processed/` "the durable source of truth
  for regeneration". An ingest that is stopped while it copies leaves a short file;
  the next reconcile, or ingest of the same file, finds a file of that name there
  (`archive.py:47`), moves the original to `_done` and settles the record.
- `docs/artifact-contract.md:1596` says that `repair-date` "must not change [...]
  `signal_id` values, signal counts". Files of schema 1.0 get deterministic ids on the
  way (`pipeline.py:1904`), and equal signals collapse. `FiledIdsStable` and
  `NothingLost` state what does hold.
- `docs/artifact-contract.md:1349` says that locator-based ids "remain stable when
  signal type, raw actor, and source locator remain stable". For signals that share
  all three the ordinals follow a hash that includes the producer of the attempt
  (`signals.py:272`), so that an ingest repeated after a kill may exchange them.
- `docs/artifact-contract.md:1341` calls `(source_id, signal_id)` "the canonical
  observation reference". An ingest that was killed before its record and run again
  under another date leaves two files with the same references, and `discover_inputs`
  reads both (`playbook.py:305`).
- `docs/artifact-contract.md:1353`, quoted above, matches by "raw actor".
  `suppression_match` does so for schema 1.1 only (`playbook_review.py:263`); for 1.2
  it takes the name that the provider chose.
- `docs/artifact-contract.md:1403` says that "an appended sequence is never reused".
  A record whose newline could not be written is continued by the next append, is
  unreadable from then on, and its sequence is minted again by a command that was
  already at work: a reconcile of two sources, which reports success for both.
- `docs/artifact-contract.md:1623` says that half-done date repairs "are surfaced
  by `doctor` as missing-path issues". Between the new artifact and the removal of
  the old one nothing is missing.
- A completion that failed does not hold fresh phase 1 back, so that a second
  handoff is minted for its file; the second of them finds the file moved, and its
  `FileNotFoundError` ends the batch. `PromiseKept` says that nothing is filed
  twice all the same.
- After a kill between `primary_artifacts_ready` and `ingest_completed` readiness
  refuses `session-inbox` for the unsettled record and `reconcile` for the pending
  handoff. `handoff_live` shows that `ingest --provider-response`, run by hand,
  resolves it.
- A profile that is missing from the generation the index names blocks `update` and
  `repair-index` alike (`playbook_status.py:231`).
- The registry is fingerprinted (`playbook.py:299`) and read (`playbook.py:147`) at
  different times; an edit in between gives a playbook that is not of the inputs it
  names. It is stale at once, but becomes current when the edit is taken back. This is
  the exception of `CurrentMeansDerived`, and the run `playbook` reaches it: with
  `read = registry` for the quantifier TLC finds the property violated.
- `_write_atomic_pair` is not atomic on a kill. `ApprovedIsWhole` says that half a
  pair does not pass for approved, `UpdateConverges` that an update mends it.
- The comment at `pipeline.py:190` says that the unwinding of `init` removes only
  the pin it wrote. The comparison and the removal are two steps (`Unwind`,
  `Unpin`), and a pin that is replaced in between is removed. `InitNeverRepins`
  holds all the same, as it speaks of what `init` puts in the place of a pin: this is
  nothing.
- A build that is published again under a new receipt is refused, and is refused
  for good.
- Two updates of one root at the same time can leave the pin of one build and the
  files of another; `UpdateConverges` holds because the next update mends it.

## 4. What is proved

All theorems hold for every value of the constants that satisfies the named
assumptions of the module; TLC evaluates these in every run.

### 4a. `IngestPipeline`

Proofs in `IngestProofs`, from `ConstantsAssumption`
(`None` is not a process, `Commands` are among the three, the bounds are numbers)
and `NoneAssumption` (`None` is not an output).

| Theorem | Statement |
|---|---|
| `Invariance` | `Spec => []WorkingInvariant` |
| `TypeCorrect` | `Spec => []TypeOK` |
| `MutualExclusion` | `Spec => []OneWriter` |
| `OutputsAreStable` | `Spec => []PrimaryStable` |
| `IdentityIsKept` | `Spec => []MintedIdentityHolds` |
| `OutputsAreUntouched` | `Spec => OutputsUntouched` |
| `CurrentStateIsSound` | `Spec => []CurrentStateSound` |
| `Refinement` | `Spec => PromiseKept` |

The argument. None of the safety properties is inductive. `PrimaryStable` is
broken by a failure snapshot of a source that has outputs; it is not appended
because the process that would append it found the source without outputs and
holds the lock since. `WorkingInvariant` says this for every step: what a
process at that step knows of its own variables (`JobReady`) and of the ledger
and the disk (`WorkSound`), which stays true because the others are outside the
lock (`OneWriter`); `LedgerSound` says that a line with outputs is one of the
primary events and names a meeting of its source. There is one lemma per
action or per group of actions with the same frame: those that leave the ledger
alone, those that append a line without outputs, those that append a line that
carries or creates them. Lemmas about appending (`AppendStep` and its uses) give
what the latest record of every source is afterwards.

The files need two more inductive parts. `PathsFree` says that a name chosen for an
artifact is free until it is written, or is the one its record names, from which
`OutputsUntouched` follows. `DiskInvariant` says where the outputs of every line
come from (`ProducersSound`: a line that produced them, one only, and a name that
begins with their date), that archived sources have a copy (`CopiesKept`), what an
ingest knows of the files it has written (`FilesKnown`), and, while repairs are
settled, that the outputs of every current record are on disk except for what a
repair has already replaced, which is on disk under its new name (`DiskSound`).
The theft of `stolen_artifact` is why the last part is conditional, and the proof
rests on `LeftStays`: what a stopped repair leaves is never named or removed by
anybody, so repairs that are settled now have been so all along (`SettledBefore`).
That a repair removes no other meeting's artifact is the step that needs all of it
(`DiskUnlink`): two current records never name one file, since a file says which
source produced it.

`Refinement` maps a step of the pipeline to a step of the promise: the append of
`primary_artifacts_ready` is `File`, the copies into `_processed` are `Archive`,
the move to `_done` is `Retire`, quarantine is `Reject`, a drop is `Arrive`, and
everything else changes none of the four sets. The guards of the promise follow
from `WorkSound`.

### 4b. `SessionHandoff`

Proofs in `SessionProofs`, from `ConstantsAssumption` (`None` is none of the values, `Outside` are sources, the
bounds are numbers) and `NoneAssumption` (`None` is neither a request nor a
filing).

| Theorem | Statement |
|---|---|
| `HandoffInvariance` | `Spec => []HandoffInvariant` |
| `HandoffTypeCorrect` | `Spec => []TypeOK` |
| `FiledFromItsRequest` | `Spec => []FiledAsRequested` |
| `HandoffsAreKept` | `Spec => HandoffKept` |
| `HandoffRefinement` | `Spec => PromiseKept` |

The argument. A command takes several steps between the check and the act, in
which files are dropped, answers and runtimes change, and other commands die.
`FiledAsRequested` is inductive only together with what the holder of the lock
has seen and can still rely on (`WorkSound`): the request it accepted was minted
for the content it holds and bound to a runtime; the source has no outputs until
`Commit`; the inbox file it will move is the one it read, since files are
replaced only while the lock is free; the files that `reconcile` has listed are
those of filed sources. `RequestsSound` says that a request file is torn or says
what it was written to say, from which an accepted answer (`AcceptedRequest`)
gets its date and runtime. `JobReady` is about the lists and names a command
carries, inside and outside the lock. A process outside knows nothing of the
project (`OpenWork`), so the steps of the others cannot hurt it; a process inside
is alone (`OneWriter`). `ProcessStep` turns this into one rule for a step of a
process, and each action, or group of actions with the same frame, is a lemma on
top of it; `WorldStep` is the rule for the agent and the operator.

`HandoffKept` follows because only `CleanRequest` takes a whole request away
(`RequestsStay`): a fresh request never overwrites one, as its id is new.
`HandoffRefinement` maps `Commit` to `File`, `Archive` to `Archive`, `Move` to
`Retire` (or to nothing, when another inbox file has the same content),
`PrepareUnreadable` to `Reject`, `Drop` to `Arrive`; a rejected answer changes
nothing, because the source had no outputs (`RejectedKeeps`), and settling a
filing files nothing anew (`Settled`).

### 4c. `Playbook`

Proofs in `PlaybookProofs`, from `PlaybookAssumption` (`None` is not a command, the
initial people, signals and reviews are of their sets, the bounds are numbers),
`TrackedAssumption` (the tracked signals are signals) and `NoneNotAValue` (`None` is no
index, view, run or review).

| Theorem | Statement |
|---|---|
| `InvariantHolds` | `Spec => []IInv` |
| `TypeCorrect` | `Spec => []TypeOK` |
| `IndexIsCommitted` | `Spec => []IndexCommitted` |
| `OneOutcomeHolds` | `Spec => []OneOutcome` |
| `ReadersAreServed` | `Spec => []ReadersServed` |
| `CommittedIsKept` | `Spec => CommittedKept` |
| `IndexMovesForward` | `Spec => IndexForward` |
| `PlaybookRefines` | `Spec => PromiseKept` |
| `LastDecisionsCount` | `\A log \in Log(Event) : Agrees(Reviews(log), log)` |
| `ReviewsAreNotRepeated` | `Spec => []NoEcho` |
| `CurrentIsTrue` | `Spec => []CurrentMeansDerived` |

The argument. A generation is harmless as long as nobody knows it
(`Unpublished`): it may lack files, be removed or be written to. It becomes known
by its ledger line, and until then only the holder of the lock, who is alone
(`OneHolder`), can write to it; when the line is appended all files are there
(`WorkFits`). From then on `CommitsSound`, `IndexSound` and `ViewsSound` say that
whoever names a run names one that is complete, and the other steps of the lock
keep away from it: a derivation has a fresh run id (`RunsOrdered`), and cleanup
removes what it listed as uncommitted from a ledger without malformed lines.
The torn line is what makes the invariant what it is. A line that has lost its
newline may be made unreadable by the next append, so that a committed run is
committed no more; the ledger is malformed from then on, so that no cleanup
begins, and the index keeps naming a complete generation. `LedgerStep` is the rule
for what an append, whole or cut short, does to all this; `CommandStep` and
`QuietCommand` are the rules for steps that touch no file.

### 4d. `RuntimeRelease`

Proofs in `ReleaseProofs`, from `ReleaseAssumption`
(receipts have builds, builds have templates and a version, `First` is a receipt
or none, the bounds are numbers) and `NoneIsNothing`.

| Theorem | Statement |
|---|---|
| `InvariantHolds` | `Spec => []IInv` |
| `TypeCorrect` | `Spec => []TypeOK` |
| `ChannelIsServed` | `Spec => []ChannelServed` |
| `ApprovedMeansWhole` | `Spec => []ApprovedIsWhole` |
| `InitKeepsPins` | `Spec => InitNeverRepins` |
| `ReleaseRefines` | `Spec => PromiseKept` |

The argument. Nothing is said of the tool or of the workflow files: they belong to
everybody, and any command may change them between any two steps of another. What
can be relied on is the store, which only grows (`StoreOrdered`: the wheel was
there before its receipt), and the pins, which carry the hashes of the workflow of
their build (`PinsSound`). So an approved root has, by the comparison with its
pin, the files of that build. The channel needs the lock: the manifest that a
publisher planned is the successor of the channel as it is now (`WorkFits`), since
nobody else publishes (`OnePublisher`). The refinement maps `CopyReceipt` to
`Release`, `Advance` to `Publish`, `WritePin` to `Choose` and `Unpin` to
`Withdraw`.

### 4e. `SignalIdentity`

Proofs in `SignalProofs`, from `SignalAssumption` (observations are finitely many,
equal bases have equal places and labels, `None` is not a command, the bounds are
numbers) and `NoneNotAValue`.

| Theorem | Statement |
|---|---|
| `InvariantHolds` | `Spec => []SignalInvariant` |
| `SignalTypes` | `Spec => []TypeOK` |
| `IdsAreUnique` | `Spec => []IdsUnique` |
| `NoObservationLost` | `Spec => []NothingLost` |
| `SuppressionsHold` | `Spec => []SuppressionHolds` |
| `FiledIdsAreStable` | `Spec => FiledIdsStable` |

The argument. `AssignedWell` is about the algorithm alone: the suffix of an
observation is the number of those of its base that come no later, and of two such
sets one contains the other, so that equal numbers mean equal sets and equal sets one
observation. The rest is about when the algorithm is applied. A suppression holds
because no file of a source with a record is written but by a repair, which keeps
ids unless the file is of schema 1.0, and no filed file goes back to that schema.
`DraftOfRecord` says that the holder of the lock writes for a source without a
record, or for the meeting that its record names, from which `AppendRecord` cannot
move a source to another file.

### 4f. `SourceLedger`

Proofs in `LedgerProofs`, from `LedgerAssumption` (`None` is not a command, the
bounds are numbers, and the file may have a line) and `GarbledNotARecord`.

| Theorem | Statement |
|---|---|
| `InvariantHolds` | `Spec => []LedgerInv` |
| `TypeCorrect` | `Spec => []TypeOK` |
| `RecordsAreKept` | `Spec => []KeptOrReported` |
| `SourcesAreFiledOnce` | `Spec => []FiledOnce` |
| `SuccessIsLinked` | `Spec => SuccessLinked` |
| `LedgerIsASequence` | `Spec => GrowsMinted` |
| `IdentitiesAreUnique` | `Spec => []IdentitiesUnique` |

The argument. `AppendKeeps` is about the file: an append, whole or cut short, leaves a
line that is reported, or it began a line of its own and is read after all that was
read before. A line that lacks its newline shows its record until something is
appended to it, and is reported from then on; so nothing is lost unseen. The rest is
about who appends what. That a source is filed once is broken by an ingest that finds
no outputs and appends when there are some; it does not happen because `AppendFits`
keeps what the ingest found until it appends: the lock is its own, and it looked under
the lock, whatever it had been admitted on.
`OutputsStay` says that a source with outputs has them in every later record, without
which looking at the latest record only would not tell; `LegacyAlone` that nothing is
recorded after a legacy line. All this is conditional, since a reported ledger
promises nothing. What `SuccessIsLinked` needs is not: an ingest that goes on after a
look at its own record has ended its line (`VerifyFits`), and therefore finds its
record there when it completes (`CompletionFits`), be the rest reported or not.

`LedgerIsASequence` is what `IngestPipeline` builds on. `IdentitiesAreUnique` is why
`append_snapshot` never meets a conflict, and why signals name one record: the number
minted exceeds all of its source (`NextSequenceIsNew`). The two are stated in
`LedgerInvariant`.

### 4g. Files that are read line by line

Ledger and reviews are read by a loop that goes through the lines and skips what makes
no sense. `FoldTheorems` has the lemmas about such a loop, for any step `Op`, any
start `Base` and any statement `Holds`, which are constants of that module. They say
nothing of the program; the theorems that do are those that use them:

| Lemma | Statement |
|---|---|
| `FoldEmpty` | nothing read is `Base` |
| `FoldAppend` | one line more is one application of `Op` more |
| `FoldInduction` | what holds of `Base` and is kept by `Op` holds of every file |

The induction is on the length of the file, by a least counterexample; the recursive
function is shown to exist and to be unique on the way (`FoldExists`, `FoldUnique`),
which is what makes its definition usable. `LedgerProofs` instantiates the module with
`ReadLine`, `PlaybookProofs` with `ReadReview`.

`LastDecisionsCount` is the first result for reviews: the fold forwards, which is the
code, agrees with a reading backwards, which is the intention. A signal is rejected or
restored as the last such event on it says, is resolved as the last resolution says,
and is suppressed when its last event of these two is a suppression. `NoEcho` then
becomes a statement about places: the review that is appended was compared, under the
lock, with the last decision; and an append that continues a torn line takes away the
last event at most and adds none, so that what was decided in between stays.

`CurrentIsTrue` needs to know where profiles come from. `DerivedSound` says that the
content of every recorded and every published run was derived from the inputs recorded
with it, of the people in the registry among these inputs or in one that `between`
names for this run. It is inductive together with `IInv`: a run is written once, and
between `Discover` and `Derive` signals and reviews stand still, since whoever changes
them needs the lock, while a registry that has changed was written in between
(`AboutToRead`). Status calls a playbook current when these inputs are those of now, so
that the entries shown are those of unsuppressed signals with what the last decisions
say. The registry has its exception because it is fingerprinted and read at different
times, without a lock that its editor would respect; `between` makes the exception as
narrow as the code does.

### 4h. Only model-checked

Liveness under fairness is out of the prover's reach: `LockFreed`,
`InterruptedIngestHeals`, `InboxDrains`, `AnsweredCompletes`, `BecomesCurrent`,
`UpdateConverges`. Every other property that a passing run checks is the statement of
a theorem. The two runs that expect a violation show what does not hold.

## 5. Plan

Done: ingest and session handoff, which implement one promise; playbook and
reviews; runtime releases; each of these with its abstract specification,
refinement and invariant, with proofs. Signal ids and the source ledger as a file,
with proofs. What could follow:

1. Ledger records of schema 1.0 and signal files without a record in one model with
   date repair, which is where the releases of the program meet.
2. Updates of several roots in one command, with the results they report.
3. The ledger of `IngestPipeline` as an instance of `SourceLedger`, so that
   `LedgerIsASequence` becomes a step of one refinement.

Not modelled: text extraction, rendering, schemas and provider adapters (pure
conversions, which the models take as steps that succeed, with some result, or
fail); configuration and command line; `validate-response` and the status commands,
which write nothing; the build of a wheel, which keeps no state; the normalisation
of names and evidence, and collisions of the truncated hashes; the user-level
workflow files; the retired skill in `docs/legacy`.
