--------------------------- MODULE SessionHandoff ---------------------------
(***************************************************************************)
(* Session ingests: a command writes a request file, the agent that hosts  *)
(* the session writes a response file, another command completes the pair. *)
(*                                                                         *)
(*   session-inbox      session_inbox.py  process_session_inbox            *)
(*   ingest-inbox       pipeline.py       _session_ingest_inbox_requests   *)
(*   provider-request   pipeline.py       _provider_request_locked         *)
(*   ingest             pipeline.py       _complete_session_ingest_locked  *)
(*   reconcile          pipeline.py       reconcile                        *)
(*                                                                         *)
(* The batch commands take and release the project lock once per file, and *)
(* work from lists they made before.  What IngestPipeline shows of files,  *)
(* ledger identities and signals is one step here: filing a source.        *)
(***************************************************************************)
EXTENDS Naturals, FiniteSets

CONSTANTS
  Proc,        \* command processes
  Name,        \* file names in the inbox
  Source,      \* transcript contents, told apart by their hash
  Date,        \* what a request fixes: date, meeting id, mode and quality
  Runtime,     \* approved runtimes
  None,        \* nothing there
  Commands,    \* the commands that are used in this project
  Outside,     \* sources that the operator also has outside the inbox
  Legacy,      \* may there be a request of an older version at the start?
  MaxRuns,     \* bound: requests ever minted
  MaxDrops,    \* bound: files dropped into the inbox
  MaxMishaps,  \* bound: wrong answers, failed extractions, runtime changes
  MaxFaults    \* bound: kills and I/O errors

ASSUME ConstantsAssumption ==
  /\ None \notin Proc \cup Name \cup Source \cup Date \cup Runtime \cup Nat
  /\ Outside \subseteq Source
  /\ Legacy \in BOOLEAN
  /\ MaxRuns \in Nat /\ MaxDrops \in Nat /\ MaxMishaps \in Nat /\ MaxFaults \in Nat

VARIABLES
  lock,       \* the process that made _cache/meeting-ingest.lock
  inbox,      \* direct inbox files: name -> content
  filed,      \* the outputs that the latest ledger record of a source names
  archived,   \* sources with a copy in _processed
  rejected,   \* sources with a copy in _quarantine
  replaced,   \* sources whose inbox file the operator has overwritten
  requests,   \* _cache/provider-requests, by ingest run id
  responses,  \* _cache/provider-responses, by the run id in the file name
  minted,     \* every request ever written, as it was meant
  runtime,    \* the approved runtime
  pc,         \* next step of each process
  job,        \* local variables of each process
  drops, mishaps, faults

project == <<inbox, filed, archived, rejected, replaced>>
cache == <<requests, responses, minted>>
budget == <<drops, mishaps, faults>>
vars == <<lock, project, cache, runtime, pc, job, budget>>

-----------------------------------------------------------------------------
(* Values.                                                                 *)

Run == 1..MaxRuns

Request == [name : Name, src : Source, date : Date, runtime : Runtime,
            bound : BOOLEAN]

\* A request file that a kill cut short: json.loads fails.
TornRequest == [name |-> None, src |-> None, date |-> None, runtime |-> None,
                bound |-> FALSE]

\* What a response file answers (its ingest_run_id and the fields it copied
\* from that request) and whether the answer passes validation.  An answer
\* to None cannot be parsed.
Answer == [to : Run \cup {None}, valid : BOOLEAN]

RightAnswer(r) == [to |-> r, valid |-> TRUE]

Filing == [run : Run, src : Source, date : Date, runtime : Runtime,
           settled : BOOLEAN]

ASSUME NoneAssumption == None \notin Request \cup Filing

NoJob == [op |-> "none", todo |-> {}, names |-> {}, fresh |-> FALSE,
          held |-> FALSE, resp |-> None, name |-> None, src |-> None,
          at |-> "inbox", run |-> None, runtime |-> None]

-----------------------------------------------------------------------------
(* The planner (session_handoffs.py) and the readiness guard.              *)

Torn(r) == requests[r] = TornRequest

\* legacy_runtime_binding and invalid_runtime_binding.
Unbound(r) == requests[r] \notin {None, TornRequest} /\ ~requests[r].bound

\* pending_provider_response: the file of that name still has that content.
\* With another content or no file the handoff is stale.
Pending(r) ==
  /\ requests[r] \notin {None, TornRequest} /\ requests[r].bound
  /\ inbox[requests[r].name] = requests[r].src

\* Mutant: an ingest that was cut short blocks its own repair, too.
ReadyWhenSettled(op) ==
  /\ lock = None
  /\ \A r \in Run : ~Torn(r)
  /\ op \in {"provider-request", "reconcile"} =>
       \A r \in Run : ~Pending(r) /\ ~Unbound(r)
  /\ \A s \in Source : filed[s] # None => filed[s].settled

\* require_write_readiness.  A torn request blocks every command; handoffs
\* block those that are not there to work on them; an ingest that was cut
\* short blocks all but ingest and reconcile.
Ready(op) ==
  /\ lock = None
  /\ \A r \in Run : ~Torn(r)
  /\ op \in {"provider-request", "reconcile"} =>
       \A r \in Run : ~Pending(r) /\ ~Unbound(r)
  /\ op \in {"session-inbox", "ingest-inbox", "provider-request"} =>
       \A s \in Source : filed[s] # None => filed[s].settled

\* _verify_runtime_binding: the answered request exists but is bound to no
\* runtime, or to another one.
RuntimeMismatch(q, rt) ==
  /\ q # None /\ requests[q] \notin {None, TornRequest}
  /\ ~requests[q].bound \/ requests[q].runtime # rt

-----------------------------------------------------------------------------
(* Process steps.                                                          *)

Step(p, from, to) == pc[p] = from /\ pc' = [pc EXCEPT ![p] = to]

Local(p, j) == job' = [job EXCEPT ![p] = j]

Locked(p) == pc[p] \in {"consume", "prepare", "write_request", "commit", "archive",
                        "move", "complete", "clean_request", "clean_response",
                        "scan", "repair_next", "release", "unwind"}

Batch(p) == job[p].op \in {"session-inbox", "ingest-inbox"}

\* A command is done with one file: a batch goes on to the next.
EndItem(p, from) ==
  /\ Step(p, from, IF Batch(p) THEN "next" ELSE "idle")
  /\ Local(p, IF Batch(p)
                THEN [job[p] EXCEPT !.resp = None, !.name = None, !.src = None,
                                    !.run = None]
                ELSE NoJob)

\* The content of the file that p works on; None when it is gone.
Content(p) == IF job[p].at = "inbox" THEN inbox[job[p].name] ELSE job[p].src

Init ==
  /\ lock = None
  /\ inbox \in [Name -> Source \cup {None}]
  /\ filed = [s \in Source |-> None]
  /\ archived = {} /\ rejected = {} /\ replaced = {}
  /\ runtime \in Runtime
  /\ \E q \in {None} \cup IF Legacy THEN [name : Name, src : Source, date : Date,
                                         runtime : Runtime, bound : {FALSE}]
                            ELSE {} :
       requests = [r \in Run |-> IF r = 1 THEN q ELSE None]
  /\ minted = requests
  /\ responses = [r \in Run |-> None]
  /\ pc = [p \in Proc |-> "idle"]
  /\ job = [p \in Proc |-> NoJob]
  /\ drops = 0 /\ mishaps = 0 /\ faults = 0

\* The first readiness check of session-inbox.
StartSessionInbox(p) ==
  /\ "session-inbox" \in Commands /\ Ready("session-inbox")
  /\ Step(p, "idle", "plan")
  /\ Local(p, [NoJob EXCEPT !.op = "session-inbox"])
  /\ UNCHANGED <<lock, project, cache, runtime, budget>>

StartIngestInbox(p) ==
  /\ "ingest-inbox" \in Commands
  /\ Step(p, "idle", "list")
  /\ Local(p, [NoJob EXCEPT !.op = "ingest-inbox"])
  /\ UNCHANGED <<lock, project, cache, runtime, budget>>

\* The source is a file of the inbox or one from elsewhere; the request will
\* carry its base name either way.
StartProviderRequest(p, n, s) ==
  /\ "provider-request" \in Commands /\ Ready("provider-request")
  /\ s = None \/ s \in Outside
  /\ Step(p, "idle", "acquire")
  /\ Local(p, [NoJob EXCEPT !.op = "provider-request", !.name = n, !.src = s,
                            !.at = IF s = None THEN "inbox" ELSE "outside",
                            !.runtime = runtime])
  /\ UNCHANGED <<lock, project, cache, runtime, budget>>

\* ingest FILE --provider-response RESPONSE, with any of the two.
StartIngest(p, n, s, r) ==
  /\ "ingest" \in Commands /\ minted[r] # None
  /\ s = None \/ s \in Outside
  /\ Step(p, "idle", "guard")
  /\ Local(p, [NoJob EXCEPT !.op = "ingest", !.name = n, !.src = s, !.resp = r,
                            !.at = IF s = None THEN "inbox" ELSE "outside"])
  /\ UNCHANGED <<lock, project, cache, runtime, budget>>

StartReconcile(p) ==
  /\ "reconcile" \in Commands /\ Ready("reconcile")
  /\ Step(p, "idle", "acquire")
  /\ Local(p, [NoJob EXCEPT !.op = "reconcile"])
  /\ UNCHANGED <<lock, project, cache, runtime, budget>>

Acquire(p) ==
  /\ Step(p, "acquire", IF job[p].op = "reconcile" THEN "scan"
                          ELSE IF job[p].resp = None THEN "prepare" ELSE "consume")
  /\ lock = None /\ lock' = p
  /\ UNCHANGED <<project, cache, runtime, job, budget>>

LockConflict(p) ==
  /\ EndItem(p, "acquire")
  /\ lock # None
  /\ UNCHANGED <<lock, project, cache, runtime, budget>>

Release(p) ==
  /\ EndItem(p, "release")
  /\ lock' = None
  /\ UNCHANGED <<project, cache, runtime, budget>>

\* An exception that the batch does not catch ends it, and frees the lock.
Unwind(p) ==
  /\ Step(p, "unwind", "idle")
  /\ lock' = None
  /\ Local(p, NoJob)
  /\ UNCHANGED <<project, cache, runtime, budget>>

-----------------------------------------------------------------------------
(* session-inbox and ingest-inbox.                                         *)

\* pending_session_handoffs, read once: what is to be completed, and whether
\* a handoff without a usable runtime binding holds fresh requests back.
Plan(p) ==
  /\ Step(p, "plan", "next")
  /\ Local(p, [job[p] EXCEPT !.todo = {r \in Run : Pending(r)},
                             !.held = \E r \in Run : Unbound(r)])
  /\ UNCHANGED <<lock, project, cache, runtime, budget>>

\* _complete_pending_result: nothing to complete yet.
StillWaiting(p, r) ==
  /\ Step(p, "next", "next")
  /\ job[p].names = {} /\ r \in job[p].todo /\ responses[r] = None
  /\ Local(p, [job[p] EXCEPT !.todo = @ \ {r}, !.held = TRUE])
  /\ UNCHANGED <<lock, project, cache, runtime, budget>>

\* The extractor of the host raised: the result is "failed".
ExtractorFails(p, r) ==
  /\ Step(p, "next", "next")
  /\ job[p].names = {} /\ r \in job[p].todo /\ mishaps < MaxMishaps
  /\ mishaps' = mishaps + 1
  /\ Local(p, [job[p] EXCEPT !.todo = @ \ {r}])
  /\ UNCHANGED <<lock, project, cache, runtime, drops, faults>>

CompleteNext(p, r) ==
  /\ Step(p, "next", "guard")
  /\ job[p].names = {} /\ r \in job[p].todo /\ responses[r] # None
  /\ Local(p, [job[p] EXCEPT !.todo = @ \ {r}, !.resp = r,
                             !.name = minted[r].name, !.at = "inbox"])
  /\ UNCHANGED <<lock, project, cache, runtime, budget>>

\* The planned handoffs are done and none of them is held: on to phase 1.
GoFresh(p) ==
  /\ Step(p, "next", "list")
  /\ job[p].op = "session-inbox" /\ ~job[p].fresh /\ ~job[p].held
  /\ job[p].todo = {}
  /\ UNCHANGED <<lock, project, cache, runtime, job, budget>>

BatchDone(p) ==
  /\ Step(p, "next", "idle")
  /\ job[p].names = {} /\ job[p].todo = {}
  /\ job[p].fresh \/ job[p].held
  /\ Local(p, NoJob)
  /\ UNCHANGED <<lock, project, cache, runtime, budget>>

\* ingest_inbox: a readiness check of its own, then _direct_inbox_sources.
ListInbox(p) ==
  /\ Step(p, "list", "next")
  /\ Ready("ingest-inbox")
  /\ Local(p, [job[p] EXCEPT !.names = {n \in Name : inbox[n] # None},
                             !.fresh = TRUE, !.runtime = runtime])
  /\ UNCHANGED <<lock, project, cache, runtime, budget>>

ListBlocked(p) ==
  /\ Step(p, "list", "idle")
  /\ ~Ready("ingest-inbox")
  /\ Local(p, NoJob)
  /\ UNCHANGED <<lock, project, cache, runtime, budget>>

MintNext(p, n) ==
  /\ Step(p, "next", "acquire")
  /\ n \in job[p].names
  /\ Local(p, [job[p] EXCEPT !.names = @ \ {n}, !.name = n, !.at = "inbox"])
  /\ UNCHANGED <<lock, project, cache, runtime, budget>>

-----------------------------------------------------------------------------
(* Phase 1: mint a request.                                                *)

\* FileNotFoundError: only errors of the tool's own kind are caught.
PrepareGone(p) ==
  /\ Step(p, "prepare", "unwind")
  /\ Content(p) = None
  /\ UNCHANGED <<lock, project, cache, runtime, job, budget>>

\* A duplicate is repaired: the file goes where filed sources go.
PrepareFiled(p) ==
  /\ Step(p, "prepare", "archive")
  /\ Content(p) # None /\ filed[Content(p)] # None
  /\ Local(p, [job[p] EXCEPT !.src = Content(p), !.run = None])
  /\ UNCHANGED <<lock, project, cache, runtime, budget>>

\* extract_source failed; inbox files are quarantined.
PrepareUnreadable(p) ==
  /\ Step(p, "prepare", "release")
  /\ Content(p) # None /\ filed[Content(p)] = None
  /\ IF job[p].at = "inbox"
       THEN /\ inbox' = [inbox EXCEPT ![job[p].name] = None]
            /\ rejected' = rejected \cup {Content(p)}
       ELSE UNCHANGED <<inbox, rejected>>
  /\ UNCHANGED <<lock, filed, archived, replaced, cache, runtime, job, budget>>

PrepareFresh(p) ==
  /\ Step(p, "prepare", "write_request")
  /\ Content(p) # None /\ filed[Content(p)] = None
  /\ Local(p, [job[p] EXCEPT !.src = Content(p)])
  /\ UNCHANGED <<lock, project, cache, runtime, budget>>

\* Run ids are unique; which one comes first does not matter.
NextRun(r) == minted[r] = None /\ \A q \in 1..(r - 1) : minted[q] # None

NewRequest(p, d) == [name |-> job[p].name, src |-> job[p].src, date |-> d,
                     runtime |-> job[p].runtime, bound |-> TRUE]

\* write_provider_request, the file whole or torn.
WriteRequestFile(p, r, d, content) ==
  /\ NextRun(r)
  /\ minted' = [minted EXCEPT ![r] = NewRequest(p, d)]
  /\ requests' = [requests EXCEPT ![r] = content]
  /\ UNCHANGED responses

\* session-inbox will complete what it has just minted.
WriteRequest(p) ==
  /\ Step(p, "write_request", "release")
  /\ \E r \in Run, d \in Date :
       /\ WriteRequestFile(p, r, d, NewRequest(p, d))
       /\ Local(p, [job[p] EXCEPT !.todo =
                      IF job[p].op = "session-inbox" THEN @ \cup {r} ELSE @])
  /\ UNCHANGED <<lock, project, runtime, budget>>

\* The bound on requests is reached.
OutOfRuns(p) ==
  /\ Step(p, "write_request", "release")
  /\ \A r \in Run : minted[r] # None
  /\ UNCHANGED <<lock, project, cache, runtime, job, budget>>

-----------------------------------------------------------------------------
(* Phase 2: complete a request.                                            *)

\* ingest(): readiness and verify_session_handoff_runtime, before the lock.
GuardPassed(p) ==
  LET a == responses[job[p].resp] IN
  /\ Step(p, "guard", "acquire")
  /\ Ready("ingest")
  /\ a # None => ~RuntimeMismatch(a.to, runtime)
  /\ Local(p, [job[p] EXCEPT !.runtime = runtime])
  /\ UNCHANGED <<lock, project, cache, runtime, budget>>

GuardRefused(p) ==
  LET a == responses[job[p].resp] IN
  /\ EndItem(p, "guard")
  /\ ~Ready("ingest") \/ (a # None /\ RuntimeMismatch(a.to, runtime))
  /\ UNCHANGED <<lock, project, cache, runtime, budget>>

ConsumeGone(p) ==
  /\ Step(p, "consume", "unwind")
  /\ Content(p) = None
  /\ UNCHANGED <<lock, project, cache, runtime, job, budget>>

\* A no-op repairs the duplicate and leaves the handoff files where they are.
ConsumeFiled(p) ==
  /\ Step(p, "consume", "archive")
  /\ Content(p) # None /\ filed[Content(p)] # None
  /\ Local(p, [job[p] EXCEPT !.src = Content(p), !.run = None])
  /\ UNCHANGED <<lock, project, cache, runtime, budget>>

\* Mutant: the source is not compared with the request.
AcceptableAnyContent(p, a) ==
  /\ a # None /\ a.valid /\ a.to # None
  /\ requests[a.to] \notin {None, TornRequest}

\* read_session_provider_envelope, and the validation that follows it.
Acceptable(p, a) ==
  /\ a # None /\ a.valid /\ a.to # None
  /\ requests[a.to] \notin {None, TornRequest}
  /\ requests[a.to].src = Content(p)

\* RuntimeHandoffMismatchError: nothing is recorded.
ConsumeRefused(p) ==
  LET a == responses[job[p].resp] IN
  /\ Step(p, "consume", "release")
  /\ Content(p) # None /\ filed[Content(p)] = None
  /\ a # None /\ RuntimeMismatch(a.to, job[p].runtime)
  /\ UNCHANGED <<lock, project, cache, runtime, job, budget>>

\* Mutant: a rejected answer is thrown away with its request.
ConsumeRejectedAndCleaned(p) ==
  LET a == responses[job[p].resp] IN
  /\ Step(p, "consume", "release")
  /\ Content(p) # None /\ filed[Content(p)] = None
  /\ ~(a # None /\ RuntimeMismatch(a.to, job[p].runtime)) /\ ~Acceptable(p, a)
  /\ requests' = [requests EXCEPT ![job[p].resp] = None]
  /\ responses' = [responses EXCEPT ![job[p].resp] = None]
  /\ UNCHANGED <<lock, project, minted, runtime, job, budget>>

\* Mutant: the failure snapshot is taken for a filing.
ConsumeRejectedAsFiled(p) ==
  LET a == responses[job[p].resp] IN
  /\ Step(p, "consume", "release")
  /\ Content(p) # None /\ filed[Content(p)] = None
  /\ ~(a # None /\ RuntimeMismatch(a.to, job[p].runtime)) /\ ~Acceptable(p, a)
  /\ filed' = [filed EXCEPT ![Content(p)] =
                 [run |-> job[p].resp, src |-> Content(p), date |-> None,
                  runtime |-> job[p].runtime, settled |-> TRUE]]
  /\ UNCHANGED <<lock, inbox, archived, rejected, replaced, cache, runtime, job, budget>>

\* The failure snapshot becomes the latest record of the source, one without
\* outputs; request and response stay for another attempt.
ConsumeRejected(p) ==
  LET a == responses[job[p].resp] IN
  /\ Step(p, "consume", "release")
  /\ Content(p) # None /\ filed[Content(p)] = None
  /\ ~(a # None /\ RuntimeMismatch(a.to, job[p].runtime)) /\ ~Acceptable(p, a)
  /\ filed' = [filed EXCEPT ![Content(p)] = None]
  /\ UNCHANGED <<lock, inbox, archived, rejected, replaced, cache, runtime, job, budget>>

\* Mutant: phase 2 does not look the source up in the ledger again.
ConsumeAcceptedAgain(p) ==
  LET a == responses[job[p].resp] IN
  /\ Step(p, "consume", "commit")
  /\ Content(p) # None
  /\ ~(a # None /\ RuntimeMismatch(a.to, job[p].runtime)) /\ Acceptable(p, a)
  /\ Local(p, [job[p] EXCEPT !.src = Content(p), !.run = a.to])
  /\ UNCHANGED <<lock, project, cache, runtime, budget>>

ConsumeAccepted(p) ==
  LET a == responses[job[p].resp] IN
  /\ Step(p, "consume", "commit")
  /\ Content(p) # None /\ filed[Content(p)] = None
  /\ ~(a # None /\ RuntimeMismatch(a.to, job[p].runtime)) /\ Acceptable(p, a)
  /\ Local(p, [job[p] EXCEPT !.src = Content(p), !.run = a.to])
  /\ UNCHANGED <<lock, project, cache, runtime, budget>>

\* _finish_ingest up to primary_artifacts_ready, from the persisted request.
Commit(p) ==
  LET j == job[p] IN
  /\ Step(p, "commit", "archive")
  /\ filed' = [filed EXCEPT ![j.src] =
                 [run |-> j.run, src |-> j.src, date |-> minted[j.run].date,
                  runtime |-> minted[j.run].runtime, settled |-> FALSE]]
  /\ UNCHANGED <<lock, inbox, archived, rejected, replaced, cache, runtime, job, budget>>

-----------------------------------------------------------------------------
(* Archive, move and settle: the end of an ingest, and all of a repair.    *)

\* A repair that finds the copy and has no inbox file to move is done.
NothingToRepair(p) ==
  job[p].run = None /\ job[p].at = "outside" /\ job[p].src \in archived

Archive(p) ==
  /\ Step(p, "archive", IF NothingToRepair(p) THEN "release" ELSE "move")
  /\ archived' = archived \cup {job[p].src}
  /\ UNCHANGED <<lock, inbox, filed, rejected, replaced, cache, runtime, job, budget>>

\* Mutant: only an ingest moves the inbox file, a repair does not.
MoveUnlessRepair(p) ==
  /\ Step(p, "move", "complete")
  /\ inbox' = IF job[p].at = "inbox" /\ job[p].run # None
                THEN [inbox EXCEPT ![job[p].name] = None] ELSE inbox
  /\ UNCHANGED <<lock, filed, archived, rejected, replaced, cache, runtime, job, budget>>

Move(p) ==
  /\ Step(p, "move", "complete")
  /\ inbox' = IF job[p].at = "inbox" THEN [inbox EXCEPT ![job[p].name] = None] ELSE inbox
  /\ UNCHANGED <<lock, filed, archived, rejected, replaced, cache, runtime, job, budget>>

\* ingest_completed or reconcile_repaired.
Complete(p) ==
  /\ Step(p, "complete", IF job[p].run # None THEN "clean_request"
                           ELSE IF job[p].op = "reconcile" THEN "repair_next"
                           ELSE "release")
  /\ filed' = [filed EXCEPT ![job[p].src].settled = TRUE]
  /\ UNCHANGED <<lock, inbox, archived, rejected, replaced, cache, runtime, job, budget>>

\* cleanup_session_provider_files: the request that was answered ...
CleanRequest(p) ==
  /\ Step(p, "clean_request", "clean_response")
  /\ requests' = [requests EXCEPT ![job[p].run] = None]
  /\ UNCHANGED <<lock, project, responses, minted, runtime, job, budget>>

\* ... and the response file that was read.
CleanResponse(p) ==
  /\ Step(p, "clean_response", "release")
  /\ responses' = [responses EXCEPT ![job[p].resp] = None]
  /\ UNCHANGED <<lock, project, requests, minted, runtime, job, budget>>

\* reconcile lists the inbox files of filed sources, then repairs each.
ReconcileScan(p) ==
  /\ Step(p, "scan", "repair_next")
  /\ Local(p, [job[p] EXCEPT !.names = {n \in Name : /\ inbox[n] # None
                                                     /\ filed[inbox[n]] # None}])
  /\ UNCHANGED <<lock, project, cache, runtime, budget>>

RepairNext(p, n) ==
  /\ Step(p, "repair_next", "archive")
  /\ n \in job[p].names
  /\ Local(p, [job[p] EXCEPT !.names = @ \ {n}, !.name = n, !.src = inbox[n]])
  /\ UNCHANGED <<lock, project, cache, runtime, budget>>

RepairDone(p) ==
  /\ Step(p, "repair_next", "release")
  /\ job[p].names = {}
  /\ UNCHANGED <<lock, project, cache, runtime, job, budget>>

-----------------------------------------------------------------------------
(* Kills, I/O errors and the world outside.                                *)

\* Whatever else is lost, a request file may be left torn.
CutShort(p) ==
  \/ UNCHANGED cache
  \/ /\ pc[p] = "write_request"
     /\ \E r \in Run, d \in Date : WriteRequestFile(p, r, d, TornRequest)

\* An I/O error: reported as the failure of one file, or not caught at all.
Abort(p) ==
  /\ pc[p] \in {"write_request", "commit", "archive", "move", "complete",
                "clean_request", "clean_response"}
  /\ faults < MaxFaults /\ faults' = faults + 1
  /\ \E to \in {"release", "unwind"} : Step(p, pc[p], to)
  /\ CutShort(p)
  /\ UNCHANGED <<lock, project, runtime, job, drops, mishaps>>

Crash(p) ==
  /\ Step(p, pc[p], "idle")
  /\ pc[p] # "idle"
  /\ faults < MaxFaults /\ faults' = faults + 1
  /\ Local(p, NoJob)
  /\ CutShort(p)
  /\ UNCHANGED <<lock, project, runtime, drops, mishaps>>

RemoveStaleLock ==
  /\ lock # None /\ ~Locked(lock)
  /\ lock' = None
  /\ UNCHANGED <<project, cache, runtime, pc, job, budget>>

\* A file is dropped or replaced, but not while a command holds the lock.
Drop(n, s) ==
  /\ drops < MaxDrops /\ drops' = drops + 1
  /\ inbox[n] = None \/ lock = None
  /\ inbox' = [inbox EXCEPT ![n] = s]
  /\ replaced' = replaced \cup ({inbox[n]} \ {None})
  /\ UNCHANGED <<lock, filed, archived, rejected, cache, runtime, pc, job,
                 mishaps, faults>>

\* The agent answers a request that it can read.
Respond(r) ==
  /\ requests[r] \notin {None, TornRequest} /\ responses[r] # RightAnswer(r)
  /\ responses' = [responses EXCEPT ![r] = RightAnswer(r)]
  /\ UNCHANGED <<lock, project, requests, minted, runtime, pc, job, budget>>

\* It writes something that does not parse or validate, or puts the answer
\* to another request there.
Misanswer(r, a) ==
  /\ mishaps < MaxMishaps /\ mishaps' = mishaps + 1
  /\ requests[r] \notin {None, TornRequest} /\ responses[r] = None
  /\ a # RightAnswer(r)
  /\ a.to # None => requests[a.to] \notin {None, TornRequest}
  /\ responses' = [responses EXCEPT ![r] = a]
  /\ UNCHANGED <<lock, project, requests, minted, runtime, pc, job, drops, faults>>

ChangeRuntime(rt) ==
  /\ mishaps < MaxMishaps /\ mishaps' = mishaps + 1
  /\ rt # runtime /\ runtime' = rt
  /\ UNCHANGED <<lock, project, cache, pc, job, drops, faults>>

\* The operator removes a handoff that cannot be completed as it is.
Abandon(r) ==
  /\ requests[r] # None
  /\ Pending(r) => requests[r].runtime # runtime
  /\ requests' = [requests EXCEPT ![r] = None]
  /\ responses' = [responses EXCEPT ![r] = None]
  /\ UNCHANGED <<lock, project, minted, runtime, pc, job, budget>>

-----------------------------------------------------------------------------

Start(p) ==
  \/ StartSessionInbox(p) \/ StartIngestInbox(p) \/ StartReconcile(p)
  \/ \E n \in Name, s \in Source \cup {None} :
       \/ StartProviderRequest(p, n, s)
       \/ \E r \in Run : StartIngest(p, n, s, r)

BatchStep(p) ==
  \/ Plan(p) \/ GoFresh(p) \/ BatchDone(p) \/ ListInbox(p) \/ ListBlocked(p)
  \/ \E r \in Run : StillWaiting(p, r) \/ CompleteNext(p, r)
  \/ \E n \in Name : MintNext(p, n)

Phase1(p) ==
  \/ PrepareGone(p) \/ PrepareFiled(p) \/ PrepareUnreadable(p) \/ PrepareFresh(p)
  \/ WriteRequest(p) \/ OutOfRuns(p)

Phase2(p) ==
  \/ GuardPassed(p) \/ GuardRefused(p)
  \/ ConsumeGone(p) \/ ConsumeFiled(p) \/ ConsumeRefused(p)
  \/ ConsumeRejected(p) \/ ConsumeAccepted(p) \/ Commit(p)

Finish(p) ==
  \/ Archive(p) \/ Move(p) \/ Complete(p) \/ CleanRequest(p) \/ CleanResponse(p)
  \/ ReconcileScan(p) \/ RepairDone(p) \/ \E n \in Name : RepairNext(p, n)

Advance(p) ==
  \/ Acquire(p) \/ LockConflict(p) \/ Release(p) \/ Unwind(p)
  \/ BatchStep(p) \/ Phase1(p) \/ Phase2(p) \/ Finish(p)

World ==
  \/ RemoveStaleLock
  \/ \E n \in Name, s \in Source : Drop(n, s)
  \/ \E r \in Run : Respond(r) \/ Abandon(r) \/ \E a \in Answer : Misanswer(r, a)
  \/ \E rt \in Runtime : ChangeRuntime(rt)

Next ==
  \/ \E p \in Proc :
       \/ Start(p) \/ Advance(p) \/ Abort(p) \/ Crash(p)
       \/ \E r \in Run : ExtractorFails(p, r)
  \/ World

Spec == Init /\ [][Next]_vars

\* Commands that were started go on; people and hosts keep running them, the
\* agent keeps answering, and the operator removes what the tool asks to be
\* removed by hand: the lock file of a dead process, and requests that are
\* torn, stale or bound to a runtime that is no longer approved.
Fairness ==
  /\ \A p \in Proc :
       /\ WF_vars(Advance(p))
       /\ SF_vars(StartSessionInbox(p)) /\ SF_vars(StartReconcile(p))
       /\ \A n \in Name, r \in Run : SF_vars(StartIngest(p, n, None, r))
  /\ WF_vars(RemoveStaleLock)
  /\ \A r \in Run : WF_vars(Respond(r)) /\ WF_vars(Abandon(r))

FairSpec == Spec /\ Fairness

-----------------------------------------------------------------------------
(* Types.                                                                  *)

Steps == {"idle", "plan", "next", "list", "guard", "acquire", "consume", "prepare",
          "write_request", "commit", "archive", "move", "complete", "clean_request",
          "clean_response", "scan", "repair_next", "release", "unwind"}

Job == [op : {"none", "session-inbox", "ingest-inbox", "provider-request", "ingest",
              "reconcile"},
        todo : SUBSET Run, names : SUBSET Name, fresh : BOOLEAN, held : BOOLEAN,
        resp : Run \cup {None}, name : Name \cup {None}, src : Source \cup {None},
        at : {"inbox", "outside"}, run : Run \cup {None},
        runtime : Runtime \cup {None}]

\* Every variable stays within the values the code can give it; a filing
\* never stands under another source than the one its record names.
TypeOK ==
  /\ lock \in Proc \cup {None}
  /\ inbox \in [Name -> Source \cup {None}]
  /\ filed \in [Source -> Filing \cup {None}]
  /\ \A s \in Source : filed[s] # None => filed[s].src = s
  /\ archived \subseteq Source /\ rejected \subseteq Source /\ replaced \subseteq Source
  /\ requests \in [Run -> Request \cup {None, TornRequest}]
  /\ responses \in [Run -> Answer \cup {None}]
  /\ minted \in [Run -> Request \cup {None}]
  /\ runtime \in Runtime
  /\ pc \in [Proc -> Steps]
  /\ job \in [Proc -> Job]
  /\ drops \in Nat /\ mishaps \in Nat /\ faults \in Nat

-----------------------------------------------------------------------------
(* Safety.                                                                 *)

\* Whatever file stands under the name a request carries, whatever answer
\* lies in its response file and whatever runtime is approved by then: a
\* source is filed only from a request that was minted for this very content
\* with a runtime binding, and with the date and the runtime of that request
\* (_verify_identity, _verify_runtime_binding).
FiledAsRequested ==
  \A s \in Source :
    filed[s] # None =>
      LET q == minted[filed[s].run] IN
      /\ q # None
      /\ q.bound /\ q.src = s /\ q.date = filed[s].date /\ q.runtime = filed[s].runtime

\* docs/artifact-contract.md: a failing phase 2 retains request and response,
\* cleanup comes only after a run that completed.  No command removes a
\* request unless its source is filed from it and settled.
HandoffKept ==
  [][\A r \in Run :
       /\ requests[r] \notin {None, TornRequest}
       /\ requests'[r] = None
       /\ pc' # pc
       => LET f == filed[requests[r].src] IN f # None /\ f.run = r /\ f.settled]_vars

-----------------------------------------------------------------------------
(* Progress.                                                               *)

\* Whatever went wrong before, a file in the inbox leaves it in the end.
InboxDrains == \A n \in Name : inbox[n] # None ~> inbox[n] = None

\* A handoff that is answered and bound to the approved runtime is resolved.
Answered(r) ==
  /\ Pending(r) /\ responses[r] = RightAnswer(r) /\ requests[r].runtime = runtime

AnsweredCompletes == \A r \in Run : Answered(r) ~> ~Answered(r)

=============================================================================
