---------------------------- MODULE SessionProofs ----------------------------
(***************************************************************************)
(* Proofs about SessionHandoff for any number of processes, inbox names,   *)
(* sources, dates and runtimes, any choice of commands and any bounds.     *)
(*                                                                         *)
(* HandoffInvariant is shown to hold initially and to be preserved by      *)
(* every step; the properties of the handoff and the promise of            *)
(* IngestPromise follow from it.                                           *)
(***************************************************************************)
EXTENDS SessionInvariant, TLAPS

-----------------------------------------------------------------------------
(* Steps of a process in general.                                          *)

\* The types of everything but the lock and the processes.
FilesTyped ==
  /\ inbox \in [Name -> Source \cup {None}]
  /\ filed \in [Source -> Filing \cup {None}]
  /\ \A s \in Source : filed[s] # None => filed[s].src = s
  /\ archived \subseteq Source /\ rejected \subseteq Source /\ replaced \subseteq Source
  /\ requests \in [Run -> Request \cup {None, TornRequest}]
  /\ responses \in [Run -> Answer \cup {None}]
  /\ minted \in [Run -> Request \cup {None}]
  /\ runtime \in Runtime
  /\ drops \in Nat /\ mishaps \in Nat /\ faults \in Nat

\* No request that was minted is ever minted again.
MintedGrows == \A r \in Run : minted[r] \in Request => minted'[r] = minted[r]

LEMMA TypesSplit ==
  TypeOK <=> /\ lock \in Proc \cup {None} /\ pc \in [Proc -> Steps] /\ job \in [Proc -> Job]
             /\ FilesTyped
  BY DEF TypeOK, FilesTyped

LEMMA LockedStep ==
  ASSUME NEW p \in Proc
  PROVE  Locked(p) <=> pc[p] \in LockedSteps
  BY DEF Locked, LockedSteps

\* What a process in the open knows about the project: nothing.
LEMMA OpenWork ==
  ASSUME NEW step \in Steps \ LockedSteps, NEW j
  PROVE  WorkFits(step, j)
  BY DEF WorkFits, Steps, LockedSteps, FilingSteps

\* A step of p keeps the invariant when the locked section is entered and left
\* with the lock, the project is changed in the locked section only, and p
\* knows at its new step what that step relies on.
LEMMA ProcessStep ==
  ASSUME HandoffInvariant, NEW p \in Proc, NEW to \in Steps, NEW j \in Job,
         pc' = [pc EXCEPT ![p] = to], job' = [job EXCEPT ![p] = j],
         \/ lock' = lock /\ (to \in LockedSteps => pc[p] \in LockedSteps)
         \/ lock = None /\ lock' = p
         \/ lock' = None /\ pc[p] \in LockedSteps /\ to \notin LockedSteps,
         FilesTyped', RequestsSound', FiledAsRequested', MintedGrows,
         UNCHANGED project \/ pc[p] \in LockedSteps,
         JobFits(to, j)', WorkFits(to, j)'
  PROVE  HandoffInvariant'
<1>1. /\ lock \in Proc \cup {None} /\ pc \in [Proc -> Steps] /\ job \in [Proc -> Job]
      /\ FilesTyped
  BY TypesSplit DEF HandoffInvariant
<1>2. /\ pc' \in [Proc -> Steps] /\ job' \in [Proc -> Job] /\ lock' \in Proc \cup {None}
      /\ pc'[p] = to /\ job'[p] = j
      /\ \A q \in Proc \ {p} : pc'[q] = pc[q] /\ job'[q] = job[q]
  BY <1>1
<1>3. TypeOK'
  BY <1>2 DEF TypeOK, FilesTyped
<1>4. \A q \in Proc : pc[q] \in LockedSteps => lock = q
  BY LockedStep DEF HandoffInvariant, OneWriter
<1>5. \A q \in Proc : pc'[q] \in LockedSteps => lock' = q
  BY <1>2, <1>4, ConstantsAssumption
<1>6. OneWriter'
  BY <1>5 DEF OneWriter, Locked, LockedSteps
<1>7. \A q \in Proc : JobReady(q)'
  <2>1. JobReady(p)'
    BY <1>2 DEF JobReady
  <2>2. ASSUME NEW q \in Proc \ {p}
        PROVE  JobReady(q)'
    <3>1. JobFits(pc[q], job[q]) /\ job[q].todo \subseteq Run
      BY <1>1 DEF HandoffInvariant, JobReady, Job
    <3>2. \A r \in job[q].todo : minted'[r] \in Request
      BY <3>1 DEF JobFits, MintedGrows
    <3>3. pc'[q] = pc[q] /\ job'[q] = job[q]
      BY <1>2
    <3> QED
      BY <3>1, <3>2, <3>3 DEF JobReady, JobFits
  <2> QED
    BY <2>1, <2>2
<1>8. \A q \in Proc : WorkSound(q)'
  <2>1. WorkSound(p)'
    BY <1>2 DEF WorkSound
  <2>2. ASSUME NEW q \in Proc \ {p}
        PROVE  WorkSound(q)'
    <3>1. pc'[q] = pc[q] /\ job'[q] = job[q] /\ pc[q] \in Steps /\ job[q].run \in Run \cup {None}
      BY <1>1, <1>2 DEF Job
    <3>2. CASE pc[q] \in LockedSteps
      <4>1. UNCHANGED project
        BY <1>4, <3>2
      <4>2. WorkFits(pc[q], job[q])
        BY DEF HandoffInvariant, WorkSound
      <4>3. /\ inbox' = inbox /\ filed' = filed /\ archived' = archived
        BY <4>1 DEF project
      <4>4. job[q].run # None /\ minted[job[q].run] \in Request =>
              minted'[job[q].run] = minted[job[q].run]
        BY <3>1 DEF MintedGrows
      <4> QED
        BY <3>1, <4>2, <4>3, <4>4 DEF WorkSound, WorkFits, ListedAreFiled
    <3>3. CASE pc[q] \notin LockedSteps
      <4>1. PICK step \in Steps \ LockedSteps : step = pc'[q]
        BY <3>1, <3>3
      <4>2. WorkFits(step, job[q])'
        BY OpenWork DEF WorkFits, Steps, LockedSteps, FilingSteps
      <4> QED
        BY <3>1, <4>1, <4>2 DEF WorkSound
    <3> QED
      BY <3>2, <3>3
  <2> QED
    BY <2>1, <2>2
<1> QED
  BY <1>3, <1>6, <1>7, <1>8 DEF HandoffInvariant

\* A step that changes neither files nor the ledger.
LEMMA QuietStep ==
  ASSUME HandoffInvariant, NEW p \in Proc, NEW to \in Steps, NEW j \in Job,
         pc' = [pc EXCEPT ![p] = to], job' = [job EXCEPT ![p] = j],
         \/ lock' = lock /\ (to \in LockedSteps => pc[p] \in LockedSteps)
         \/ lock = None /\ lock' = p
         \/ lock' = None /\ pc[p] \in LockedSteps /\ to \notin LockedSteps,
         UNCHANGED <<project, cache, runtime>>,
         drops' \in Nat, mishaps' \in Nat, faults' \in Nat,
         JobFits(to, j), WorkFits(to, j)
  PROVE  HandoffInvariant'
<1>1. /\ inbox' = inbox /\ filed' = filed /\ archived' = archived
      /\ rejected' = rejected /\ replaced' = replaced
      /\ requests' = requests /\ responses' = responses /\ minted' = minted
      /\ runtime' = runtime
  BY DEF project, cache
<1>2. FilesTyped /\ RequestsSound /\ FiledAsRequested
  BY TypesSplit DEF HandoffInvariant
<1>3. FilesTyped'
  BY <1>1, <1>2 DEF FilesTyped
<1>4. RequestsSound' /\ FiledAsRequested' /\ MintedGrows
  BY <1>1, <1>2 DEF RequestsSound, FiledAsRequested, MintedGrows
<1>5. JobFits(to, j)' /\ WorkFits(to, j)'
  BY <1>1 DEF JobFits, WorkFits, ListedAreFiled
<1>6. UNCHANGED project
  OBVIOUS
<1> QED
  BY <1>3, <1>4, <1>5, <1>6, ProcessStep

\* What the invariant says of one process.
LEMMA ProcessFacts ==
  ASSUME HandoffInvariant, NEW p \in Proc
  PROVE  /\ pc[p] \in Steps /\ job[p] \in Job
         /\ JobFits(pc[p], job[p]) /\ WorkFits(pc[p], job[p])
         /\ FilesTyped
         /\ lock \in Proc \cup {None} /\ pc \in [Proc -> Steps] /\ job \in [Proc -> Job]
  BY TypesSplit DEF HandoffInvariant, JobReady, WorkSound

LEMMA NoJobFits ==
  NoJob \in Job /\ JobFits("idle", NoJob) /\ WorkFits("idle", NoJob)
<1>1. NoJob \in Job
  BY DEF NoJob, Job
<1>2. JobFits("idle", NoJob) /\ WorkFits("idle", NoJob)
  BY DEF NoJob, JobFits, WorkFits, FilingSteps, AcceptedSteps
<1> QED
  BY <1>1, <1>2

-----------------------------------------------------------------------------
(* Steps that change neither files nor the ledger.                         *)

\* A command starts, with the local variables that its first step needs.
LEMMA StartKeeps ==
  ASSUME HandoffInvariant, NEW p \in Proc, Start(p)
  PROVE  HandoffInvariant'
<1>0. FilesTyped
  BY ProcessFacts
<1>1. CASE StartSessionInbox(p)
  <2> DEFINE j == [NoJob EXCEPT !.op = "session-inbox"]
  <2>1. j \in Job
    BY DEF NoJob, Job
  <2>2. JobFits("plan", j) /\ WorkFits("plan", j)
    BY DEF NoJob, JobFits, WorkFits, FilingSteps, AcceptedSteps
  <2>3. /\ pc' = [pc EXCEPT ![p] = "plan"] /\ job' = [job EXCEPT ![p] = j]
        /\ lock' = lock /\ UNCHANGED <<project, cache, runtime>> /\ UNCHANGED budget
    BY <1>1 DEF StartSessionInbox, Step, Local
  <2> HIDE DEF j
  <2> QED
    BY <1>0, <2>1, <2>2, <2>3, QuietStep DEF Steps, LockedSteps, budget, FilesTyped
<1>2. CASE StartIngestInbox(p)
  <2> DEFINE j == [NoJob EXCEPT !.op = "ingest-inbox"]
  <2>1. j \in Job
    BY DEF NoJob, Job
  <2>2. JobFits("list", j) /\ WorkFits("list", j)
    BY DEF NoJob, JobFits, WorkFits, FilingSteps, AcceptedSteps
  <2>3. /\ pc' = [pc EXCEPT ![p] = "list"] /\ job' = [job EXCEPT ![p] = j]
        /\ lock' = lock /\ UNCHANGED <<project, cache, runtime>> /\ UNCHANGED budget
    BY <1>2 DEF StartIngestInbox, Step, Local
  <2> HIDE DEF j
  <2> QED
    BY <1>0, <2>1, <2>2, <2>3, QuietStep DEF Steps, LockedSteps, budget, FilesTyped
<1>3. CASE StartReconcile(p)
  <2> DEFINE j == [NoJob EXCEPT !.op = "reconcile"]
  <2>1. j \in Job
    BY DEF NoJob, Job
  <2>2. JobFits("acquire", j) /\ WorkFits("acquire", j)
    BY DEF NoJob, JobFits, WorkFits, FilingSteps, AcceptedSteps
  <2>3. /\ pc' = [pc EXCEPT ![p] = "acquire"] /\ job' = [job EXCEPT ![p] = j]
        /\ lock' = lock /\ UNCHANGED <<project, cache, runtime>> /\ UNCHANGED budget
    BY <1>3 DEF StartReconcile, Step, Local
  <2> HIDE DEF j
  <2> QED
    BY <1>0, <2>1, <2>2, <2>3, QuietStep DEF Steps, LockedSteps, budget, FilesTyped
<1>4. ASSUME NEW n \in Name, NEW s \in Source \cup {None}, StartProviderRequest(p, n, s)
      PROVE  HandoffInvariant'
  <2> DEFINE j == [NoJob EXCEPT !.op = "provider-request", !.name = n, !.src = s,
                                !.at = IF s = None THEN "inbox" ELSE "outside",
                                !.runtime = runtime]
  <2>1. j \in Job
    BY <1>0 DEF NoJob, Job, FilesTyped
  <2>2. JobFits("acquire", j) /\ WorkFits("acquire", j)
    BY <1>0 DEF NoJob, JobFits, WorkFits, FilingSteps, AcceptedSteps, FilesTyped
  <2>3. /\ pc' = [pc EXCEPT ![p] = "acquire"] /\ job' = [job EXCEPT ![p] = j]
        /\ lock' = lock /\ UNCHANGED <<project, cache, runtime>> /\ UNCHANGED budget
    BY <1>4 DEF StartProviderRequest, Step, Local
  <2> HIDE DEF j
  <2> QED
    BY <1>0, <2>1, <2>2, <2>3, QuietStep DEF Steps, LockedSteps, budget, FilesTyped
<1>5. ASSUME NEW n \in Name, NEW s \in Source \cup {None}, NEW r \in Run,
             StartIngest(p, n, s, r)
      PROVE  HandoffInvariant'
  <2> DEFINE j == [NoJob EXCEPT !.op = "ingest", !.name = n, !.src = s, !.resp = r,
                                !.at = IF s = None THEN "inbox" ELSE "outside"]
  <2>1. j \in Job
    BY DEF NoJob, Job
  <2>2. JobFits("guard", j) /\ WorkFits("guard", j)
    BY DEF NoJob, JobFits, WorkFits, FilingSteps, AcceptedSteps
  <2>3. /\ pc' = [pc EXCEPT ![p] = "guard"] /\ job' = [job EXCEPT ![p] = j]
        /\ lock' = lock /\ UNCHANGED <<project, cache, runtime>> /\ UNCHANGED budget
    BY <1>5 DEF StartIngest, Step, Local
  <2> HIDE DEF j
  <2> QED
    BY <1>0, <2>1, <2>2, <2>3, QuietStep DEF Steps, LockedSteps, budget, FilesTyped
<1> QED
  BY <1>1, <1>2, <1>3, <1>4, <1>5 DEF Start

\* A local step of p that leaves its variables alone.
LEMMA StayLocal ==
  ASSUME HandoffInvariant, NEW p \in Proc, job' = job
  PROVE  job' = [job EXCEPT ![p] = job[p]]
  BY ProcessFacts

\* A command is done with one file.
LEMMA EndItemKeeps ==
  ASSUME HandoffInvariant, NEW p \in Proc, NEW from, EndItem(p, from),
         \/ lock' = lock
         \/ lock' = None /\ pc[p] \in LockedSteps,
         UNCHANGED <<project, cache, runtime, budget>>
  PROVE  HandoffInvariant'
<1>0. /\ FilesTyped /\ job[p] \in Job /\ JobFits(pc[p], job[p])
      /\ drops' = drops /\ mishaps' = mishaps /\ faults' = faults
  BY ProcessFacts DEF budget
<1>1. CASE Batch(p)
  <2> DEFINE j == [job[p] EXCEPT !.resp = None, !.name = None, !.src = None, !.run = None]
  <2>1. j \in Job /\ j.op = job[p].op /\ j.names = job[p].names /\ j.todo = job[p].todo
        /\ j.runtime = job[p].runtime /\ j.run = None
    BY <1>0 DEF Job
  <2>2. JobFits("next", j) /\ WorkFits("next", j)
    BY <1>0, <1>1, <2>1 DEF Batch, JobFits, WorkFits, FilingSteps, AcceptedSteps
  <2>3. pc' = [pc EXCEPT ![p] = "next"] /\ job' = [job EXCEPT ![p] = j]
    BY <1>1 DEF EndItem, Step, Local
  <2> HIDE DEF j
  <2> QED
    BY <1>0, <2>1, <2>2, <2>3, QuietStep DEF Steps, LockedSteps, FilesTyped
<1>2. CASE ~Batch(p)
  <2>1. pc' = [pc EXCEPT ![p] = "idle"] /\ job' = [job EXCEPT ![p] = NoJob]
    BY <1>2 DEF EndItem, Step, Local
  <2> QED
    BY <1>0, <2>1, NoJobFits, QuietStep DEF Steps, LockedSteps, FilesTyped
<1> QED
  BY <1>1, <1>2

\* Taking and leaving the lock.
LEMMA LockKeeps ==
  ASSUME HandoffInvariant, NEW p \in Proc,
         Acquire(p) \/ LockConflict(p) \/ Release(p) \/ Unwind(p)
  PROVE  HandoffInvariant'
<1>0. /\ FilesTyped /\ job[p] \in Job /\ JobFits(pc[p], job[p])
  BY ProcessFacts
<1>1. CASE Acquire(p)
  <2>1. PICK to \in {"scan", "prepare", "consume"} :
          /\ pc[p] = "acquire" /\ pc' = [pc EXCEPT ![p] = to]
          /\ to = "scan" <=> job[p].op = "reconcile"
          /\ to = "consume" => job[p].resp # None
    BY <1>1 DEF Acquire, Step
  <2>2. lock = None /\ lock' = p /\ UNCHANGED <<project, cache, runtime>> /\ UNCHANGED budget
        /\ job' = [job EXCEPT ![p] = job[p]]
    BY <1>1, StayLocal DEF Acquire
  <2>3. JobFits(to, job[p]) /\ WorkFits(to, job[p])
    BY <1>0, <2>1 DEF JobFits, WorkFits, FilingSteps, AcceptedSteps
  <2>4. to \in Steps /\ drops' \in Nat /\ mishaps' \in Nat /\ faults' \in Nat
    BY <1>0, <2>2 DEF Steps, budget, FilesTyped
  <2> QED
    BY <1>0, <2>1, <2>2, <2>3, <2>4, QuietStep
<1>2. CASE LockConflict(p)
  BY <1>2, EndItemKeeps DEF LockConflict
<1>3. CASE Release(p)
  <2>1. pc[p] = "release"
    BY <1>3 DEF Release, EndItem, Step
  <2>2. lock' = None /\ EndItem(p, "release") /\ UNCHANGED <<project, cache, runtime, budget>>
    BY <1>3 DEF Release
  <2> QED
    BY <2>1, <2>2, EndItemKeeps DEF LockedSteps
<1>4. CASE Unwind(p)
  <2>1. /\ pc[p] = "unwind" /\ pc' = [pc EXCEPT ![p] = "idle"]
        /\ job' = [job EXCEPT ![p] = NoJob]
        /\ lock' = None /\ UNCHANGED <<project, cache, runtime>> /\ UNCHANGED budget
    BY <1>4 DEF Unwind, Step, Local
  <2> QED
    BY <1>0, <2>1, NoJobFits, QuietStep DEF Steps, LockedSteps, budget, FilesTyped
<1> QED
  BY <1>1, <1>2, <1>3, <1>4

\* p goes on to another step with other local variables, and that is all.
LocalMove(p, to, j) ==
  /\ pc' = [pc EXCEPT ![p] = to] /\ job' = [job EXCEPT ![p] = j]
  /\ lock' = lock /\ UNCHANGED <<project, cache, runtime>>
  /\ drops' \in Nat /\ mishaps' \in Nat /\ faults' \in Nat

LEMMA LocalMoveKeeps ==
  ASSUME HandoffInvariant, NEW p \in Proc, NEW to \in Steps, NEW j \in Job,
         LocalMove(p, to, j), to \in LockedSteps => pc[p] \in LockedSteps,
         JobFits(to, j), WorkFits(to, j)
  PROVE  HandoffInvariant'
  BY QuietStep DEF LocalMove

\* The same in the open, where nothing is known of the project.
LEMMA OpenMoveKeeps ==
  ASSUME HandoffInvariant, NEW p \in Proc, NEW to \in Steps \ LockedSteps, NEW j \in Job,
         LocalMove(p, to, j), JobFits(to, j)
  PROVE  HandoffInvariant'
  BY LocalMoveKeeps, OpenWork

\* The counters are numbers.
LEMMA CountersTyped ==
  ASSUME HandoffInvariant, UNCHANGED budget
  PROVE  drops' \in Nat /\ mishaps' \in Nat /\ faults' \in Nat
  BY DEF HandoffInvariant, TypeOK, budget

\* The steps of a batch between the files it works on: the lists it makes are
\* of requests that were minted, and a runtime is chosen with the inbox list.
LEMMA BatchKeeps ==
  ASSUME HandoffInvariant, NEW p \in Proc,
         BatchStep(p) \/ \E r \in Run : ExtractorFails(p, r)
  PROVE  HandoffInvariant'
<1>0. /\ FilesTyped /\ job[p] \in Job /\ JobFits(pc[p], job[p])
  BY ProcessFacts
<1>a. RequestsSound
  BY DEF HandoffInvariant
<1>1. CASE Plan(p)
  <2> DEFINE j == [job[p] EXCEPT !.todo = {r \in Run : Pending(r)},
                                 !.held = \E r \in Run : Unbound(r)]
  <2>1. /\ j \in Job /\ j.op = job[p].op /\ j.names = job[p].names
        /\ j.runtime = job[p].runtime /\ j.run = job[p].run
        /\ j.todo = {r \in Run : Pending(r)}
    BY <1>0 DEF Job
  <2>2. \A r \in Run : Pending(r) => minted[r] \in Request
    BY <1>a DEF Pending, RequestsSound
  <2>3. pc[p] = "plan" /\ LocalMove(p, "next", j)
    BY <1>1, CountersTyped DEF Plan, Step, Local, LocalMove
  <2>4. JobFits("next", j)
    BY <1>0, <2>1, <2>2, <2>3 DEF JobFits, AcceptedSteps
  <2> HIDE DEF j
  <2> QED
    BY <2>1, <2>3, <2>4, OpenMoveKeeps DEF Steps, LockedSteps
<1>2. ASSUME NEW r \in Run, StillWaiting(p, r) \/ ExtractorFails(p, r)
      PROVE  HandoffInvariant'
  <2>1. PICK h \in BOOLEAN :
          /\ pc[p] = "next"
          /\ LocalMove(p, "next", [job[p] EXCEPT !.todo = @ \ {r}, !.held = h])
    <3>1. CASE StillWaiting(p, r)
      BY <3>1, CountersTyped DEF StillWaiting, Step, Local, LocalMove
    <3>2. CASE ExtractorFails(p, r)
      <4>1. [job[p] EXCEPT !.todo = @ \ {r}, !.held = job[p].held]
              = [job[p] EXCEPT !.todo = @ \ {r}] /\ job[p].held \in BOOLEAN
        BY <1>0 DEF Job
      <4>2. drops' \in Nat /\ mishaps' \in Nat /\ faults' \in Nat
        BY <1>0, <3>2 DEF ExtractorFails, FilesTyped
      <4> QED
        BY <3>2, <4>1, <4>2 DEF ExtractorFails, Step, Local, LocalMove
    <3> QED
      BY <1>2, <3>1, <3>2
  <2> DEFINE j == [job[p] EXCEPT !.todo = @ \ {r}, !.held = h]
  <2>2. /\ j \in Job /\ j.op = job[p].op /\ j.names = job[p].names
        /\ j.runtime = job[p].runtime /\ j.run = job[p].run
        /\ j.todo \subseteq job[p].todo
    BY <1>0 DEF Job
  <2>3. JobFits("next", j)
    BY <1>0, <2>1, <2>2 DEF JobFits, AcceptedSteps
  <2>4. LocalMove(p, "next", j)
    BY <2>1
  <2> HIDE DEF j
  <2> QED
    BY <2>2, <2>3, <2>4, OpenMoveKeeps DEF Steps, LockedSteps
<1>3. ASSUME NEW r \in Run, CompleteNext(p, r)
      PROVE  HandoffInvariant'
  <2> DEFINE j == [job[p] EXCEPT !.todo = @ \ {r}, !.resp = r,
                                 !.name = minted[r].name, !.at = "inbox"]
  <2>1. pc[p] = "next" /\ r \in job[p].todo /\ LocalMove(p, "guard", j)
    BY <1>3, CountersTyped DEF CompleteNext, Step, Local, LocalMove
  <2>2. minted[r].name \in Name
    BY <1>0, <2>1 DEF JobFits, Request
  <2>3. /\ j \in Job /\ j.op = job[p].op /\ j.names = job[p].names
        /\ j.runtime = job[p].runtime /\ j.run = job[p].run /\ j.at = "inbox"
        /\ j.todo \subseteq job[p].todo /\ j.name \in Name
    BY <1>0, <2>2 DEF Job
  <2>4. JobFits("guard", j)
    BY <1>0, <2>1, <2>3 DEF JobFits, AcceptedSteps
  <2> HIDE DEF j
  <2> QED
    BY <2>1, <2>3, <2>4, OpenMoveKeeps DEF Steps, LockedSteps
<1>4. CASE GoFresh(p)
  <2>1. pc[p] = "next" /\ LocalMove(p, "list", job[p])
    BY <1>4, CountersTyped, StayLocal DEF GoFresh, Step, LocalMove
  <2>2. JobFits("list", job[p])
    BY <1>0, <2>1 DEF JobFits, AcceptedSteps
  <2> QED
    BY <1>0, <2>1, <2>2, OpenMoveKeeps DEF Steps, LockedSteps
<1>5. CASE BatchDone(p) \/ ListBlocked(p)
  <2>1. LocalMove(p, "idle", NoJob)
    BY <1>5, CountersTyped DEF BatchDone, ListBlocked, Step, Local, LocalMove
  <2> QED
    BY <2>1, NoJobFits, OpenMoveKeeps DEF Steps, LockedSteps
<1>6. CASE ListInbox(p)
  <2> DEFINE j == [job[p] EXCEPT !.names = {n \in Name : inbox[n] # None},
                                 !.fresh = TRUE, !.runtime = runtime]
  <2>1. pc[p] = "list" /\ LocalMove(p, "next", j)
    BY <1>6, CountersTyped DEF ListInbox, Step, Local, LocalMove
  <2>2. /\ j \in Job /\ j.op = job[p].op /\ j.todo = job[p].todo
        /\ j.runtime \in Runtime /\ j.run = job[p].run
    BY <1>0 DEF Job, FilesTyped
  <2>3. JobFits("next", j)
    BY <1>0, <2>1, <2>2 DEF JobFits, AcceptedSteps
  <2> HIDE DEF j
  <2> QED
    BY <2>1, <2>2, <2>3, OpenMoveKeeps DEF Steps, LockedSteps
<1>7. ASSUME NEW n \in Name, MintNext(p, n)
      PROVE  HandoffInvariant'
  <2> DEFINE j == [job[p] EXCEPT !.names = @ \ {n}, !.name = n, !.at = "inbox"]
  <2>1. pc[p] = "next" /\ n \in job[p].names /\ LocalMove(p, "acquire", j)
    BY <1>7, CountersTyped DEF MintNext, Step, Local, LocalMove
  <2>2. /\ j \in Job /\ j.op = job[p].op /\ j.todo = job[p].todo /\ j.at = "inbox"
        /\ j.name \in Name /\ j.runtime = job[p].runtime /\ j.run = job[p].run
    BY <1>0 DEF Job
  <2>3. JobFits("acquire", j)
    BY <1>0, <2>1, <2>2 DEF JobFits, AcceptedSteps
  <2> HIDE DEF j
  <2> QED
    BY <2>1, <2>2, <2>3, OpenMoveKeeps DEF Steps, LockedSteps
<1> QED
  BY <1>1, <1>2, <1>3, <1>4, <1>5, <1>6, <1>7 DEF BatchStep

-----------------------------------------------------------------------------
(* Phase 1.                                                                *)

\* The file that p works on has a content that is a source.
LEMMA ContentTyped ==
  ASSUME HandoffInvariant, NEW p \in Proc, pc[p] \in {"prepare", "consume"},
         Content(p) # None
  PROVE  /\ Content(p) \in Source /\ job[p].op # "reconcile" /\ job[p].name \in Name
         /\ job[p].at = "inbox" => inbox[job[p].name] = Content(p)
<1>1. /\ job[p] \in Job /\ JobFits(pc[p], job[p])
      /\ inbox \in [Name -> Source \cup {None}]
  BY ProcessFacts DEF FilesTyped
<1>2. /\ job[p].at \in {"inbox", "outside"} /\ job[p].op # "reconcile"
      /\ job[p].name \in Name /\ (job[p].at = "outside" => job[p].src \in Source)
  BY <1>1 DEF JobFits, Job
<1> QED
  BY <1>1, <1>2 DEF Content

\* The command is about to file a source, or has found it filed.
LEMMA FiledMove ==
  ASSUME HandoffInvariant, NEW p \in Proc, pc[p] \in {"prepare", "consume"},
         Content(p) # None, filed[Content(p)] # None,
         LocalMove(p, "archive", [job[p] EXCEPT !.src = Content(p), !.run = None])
  PROVE  HandoffInvariant'
<1> DEFINE j == [job[p] EXCEPT !.src = Content(p), !.run = None]
<1>1. /\ Content(p) \in Source /\ job[p].op # "reconcile" /\ job[p].name \in Name
      /\ job[p].at = "inbox" => inbox[job[p].name] = Content(p)
  BY ContentTyped
<1>2. job[p] \in Job /\ JobFits(pc[p], job[p])
  BY ProcessFacts
<1>3. /\ j \in Job /\ j.op = job[p].op /\ j.todo = job[p].todo /\ j.at = job[p].at
      /\ j.name = job[p].name /\ j.runtime = job[p].runtime /\ j.run = None
      /\ j.src = Content(p) /\ j.names = job[p].names
  BY <1>1, <1>2 DEF Job
<1>4. JobFits("archive", j)
  BY <1>1, <1>2, <1>3 DEF JobFits, AcceptedSteps
<1>5. WorkFits("archive", j)
  BY <1>1, <1>3 DEF WorkFits, FilingSteps
<1>6. LocalMove(p, "archive", j)
  OBVIOUS
<1> HIDE DEF j
<1> QED
  BY <1>3, <1>4, <1>5, <1>6, LocalMoveKeeps DEF Steps, LockedSteps

\* A step of phase 1 that leaves the files alone.
LEMMA PrepareKeeps ==
  ASSUME HandoffInvariant, NEW p \in Proc,
         PrepareGone(p) \/ PrepareFiled(p) \/ PrepareFresh(p) \/ OutOfRuns(p)
  PROVE  HandoffInvariant'
<1>0. job[p] \in Job /\ JobFits(pc[p], job[p])
  BY ProcessFacts
<1>1. CASE PrepareGone(p) \/ OutOfRuns(p)
  <2>1. PICK to \in {"unwind", "release"} :
          /\ pc[p] \in {"prepare", "write_request"} /\ LocalMove(p, to, job[p])
    BY <1>1, CountersTyped, StayLocal DEF PrepareGone, OutOfRuns, Step, LocalMove
  <2>2. JobFits(to, job[p]) /\ WorkFits(to, job[p])
    BY <1>0, <2>1 DEF JobFits, WorkFits, FilingSteps, AcceptedSteps
  <2>3. to \in Steps /\ pc[p] \in LockedSteps
    BY <2>1 DEF Steps, LockedSteps
  <2> QED
    BY <1>0, <2>1, <2>2, <2>3, LocalMoveKeeps
<1>2. CASE PrepareFiled(p)
  BY <1>2, FiledMove, CountersTyped DEF PrepareFiled, Step, Local, LocalMove
<1>3. CASE PrepareFresh(p)
  <2> DEFINE j == [job[p] EXCEPT !.src = Content(p)]
  <2>1. pc[p] = "prepare" /\ Content(p) # None /\ LocalMove(p, "write_request", j)
    BY <1>3, CountersTyped DEF PrepareFresh, Step, Local, LocalMove
  <2>2. Content(p) \in Source
    BY <2>1, ContentTyped
  <2>3. /\ j \in Job /\ j.op = job[p].op /\ j.todo = job[p].todo /\ j.at = job[p].at
        /\ j.name = job[p].name /\ j.runtime = job[p].runtime /\ j.run = job[p].run
        /\ j.src \in Source /\ j.names = job[p].names
    BY <1>0, <2>2 DEF Job
  <2>4. JobFits("write_request", j) /\ WorkFits("write_request", j)
    BY <1>0, <2>1, <2>3 DEF JobFits, WorkFits, FilingSteps, AcceptedSteps
  <2> HIDE DEF j
  <2> QED
    BY <2>1, <2>3, <2>4, LocalMoveKeeps DEF Steps, LockedSteps
<1> QED
  BY <1>1, <1>2, <1>3

\* Quarantine takes an inbox file of a source that is not filed.
LEMMA RejectKeeps ==
  ASSUME HandoffInvariant, NEW p \in Proc, PrepareUnreadable(p)
  PROVE  HandoffInvariant'
<1>0. /\ job[p] \in Job /\ JobFits(pc[p], job[p]) /\ FilesTyped
      /\ pc[p] = "prepare" /\ Content(p) # None
  BY ProcessFacts DEF PrepareUnreadable, Step
<1>1. Content(p) \in Source
  BY <1>0, ContentTyped
<1>2. FilesTyped'
  BY <1>0, <1>1 DEF PrepareUnreadable, FilesTyped, cache, budget
<1>3. RequestsSound' /\ FiledAsRequested' /\ MintedGrows
  BY DEF HandoffInvariant, RequestsSound, FiledAsRequested, MintedGrows, PrepareUnreadable,
         cache
<1>4. PICK j \in Job, to \in Steps : j = job[p] /\ to = "release"
  BY <1>0 DEF Steps
<1>5. JobFits(to, j)' /\ WorkFits(to, j)'
  <2>1. minted' = minted
    BY DEF PrepareUnreadable, cache
  <2> QED
    BY <1>0, <1>4, <2>1 DEF JobFits, WorkFits, FilingSteps, AcceptedSteps
<1>6. /\ pc' = [pc EXCEPT ![p] = to] /\ job' = [job EXCEPT ![p] = j]
      /\ lock' = lock
  BY <1>4, StayLocal DEF PrepareUnreadable, Step
<1>7. pc[p] \in LockedSteps
  BY <1>0 DEF LockedSteps
<1> QED
  BY <1>2, <1>3, <1>5, <1>6, <1>7, ProcessStep

\* A new request, whole or torn, is one that no file and no filing had yet.
LEMMA RequestWritten ==
  ASSUME HandoffInvariant, NEW p \in Proc, pc[p] = "write_request",
         NEW r \in Run, NEW d \in Date, NEW content \in {NewRequest(p, d), TornRequest},
         WriteRequestFile(p, r, d, content),
         UNCHANGED <<project, runtime>>, drops' \in Nat, mishaps' \in Nat, faults' \in Nat
  PROVE  /\ FilesTyped' /\ RequestsSound' /\ FiledAsRequested' /\ MintedGrows
         /\ minted'[r] \in Request
<1>0. /\ job[p] \in Job /\ JobFits(pc[p], job[p]) /\ WorkFits(pc[p], job[p]) /\ FilesTyped
      /\ RequestsSound /\ FiledAsRequested
  BY ProcessFacts DEF HandoffInvariant
<1>1. NewRequest(p, d) \in Request
  <2>1. job[p].op # "reconcile"
    BY <1>0 DEF JobFits
  <2>2. job[p].name \in Name /\ job[p].runtime \in Runtime /\ job[p].src \in Source
    BY <1>0, <2>1 DEF JobFits, WorkFits
  <2> QED
    BY <2>2 DEF NewRequest, Request
<1>2. PICK q \in Request : q = NewRequest(p, d)
  BY <1>1
<1>3. /\ minted[r] = None
      /\ minted' = [minted EXCEPT ![r] = q] /\ requests' = [requests EXCEPT ![r] = content]
      /\ responses' = responses
  BY <1>2 DEF WriteRequestFile, NextRun
<1>4. /\ minted'[r] = q /\ requests'[r] = content
      /\ \A x \in Run \ {r} : minted'[x] = minted[x] /\ requests'[x] = requests[x]
      /\ minted' \in [Run -> Request \cup {None}]
      /\ requests' \in [Run -> Request \cup {None, TornRequest}]
  BY <1>0, <1>2, <1>3 DEF FilesTyped
<1>5. FilesTyped'
  BY <1>0, <1>3, <1>4 DEF FilesTyped, project
<1>6. RequestsSound'
  <2>1. ASSUME NEW x \in Run, requests'[x] # None
        PROVE  minted'[x] \in Request /\ requests'[x] \in {minted'[x], TornRequest}
    BY <1>0, <1>2, <1>4, <2>1 DEF RequestsSound
  <2> QED
    BY <2>1 DEF RequestsSound
<1>7. FiledAsRequested'
  <2>1. ASSUME NEW s \in Source, filed[s] # None
        PROVE  minted'[filed[s].run] = minted[filed[s].run]
    <3>1. filed[s].run \in Run /\ minted[filed[s].run] # None
      BY <1>0, <2>1 DEF FiledAsRequested, FilesTyped, Filing
    <3> QED
      BY <1>3, <1>4, <3>1
  <2> QED
    BY <1>0, <2>1 DEF FiledAsRequested, project
<1>8. MintedGrows
  BY <1>3, <1>4, NoneAssumption DEF MintedGrows
<1> QED
  BY <1>2, <1>4, <1>5, <1>6, <1>7, <1>8

\* session-inbox notes the request that it has just written.
LEMMA WriteKeeps ==
  ASSUME HandoffInvariant, NEW p \in Proc, WriteRequest(p)
  PROVE  HandoffInvariant'
<1>1. PICK r \in Run, d \in Date :
        /\ WriteRequestFile(p, r, d, NewRequest(p, d))
        /\ Local(p, [job[p] EXCEPT !.todo = IF job[p].op = "session-inbox" THEN @ \cup {r}
                                             ELSE @])
  BY DEF WriteRequest
<1>2. pc[p] = "write_request" /\ UNCHANGED <<project, runtime>>
      /\ drops' \in Nat /\ mishaps' \in Nat /\ faults' \in Nat
  BY CountersTyped DEF WriteRequest, Step
<1>3. /\ FilesTyped' /\ RequestsSound' /\ FiledAsRequested' /\ MintedGrows
      /\ minted'[r] \in Request
  BY <1>1, <1>2, RequestWritten
<1>4. job[p] \in Job /\ JobFits(pc[p], job[p])
  BY ProcessFacts
<1>5. [job[p] EXCEPT !.todo = IF job[p].op = "session-inbox" THEN @ \cup {r} ELSE @] \in Job
  BY <1>4 DEF Job
<1>6. PICK j \in Job, to \in Steps :
        /\ j = [job[p] EXCEPT !.todo = IF job[p].op = "session-inbox" THEN @ \cup {r} ELSE @]
        /\ to = "release"
  BY <1>5 DEF Steps
<1>7. /\ j.todo \subseteq job[p].todo \cup {r} /\ j.run = job[p].run
      /\ j.op = job[p].op /\ j.names = job[p].names /\ j.runtime = job[p].runtime
      /\ job[p].todo \subseteq Run
  BY <1>4, <1>6 DEF Job
<1>8. \A x \in j.todo : minted'[x] \in Request
  BY <1>3, <1>4, <1>7 DEF JobFits, MintedGrows
<1>9. JobFits(to, j)' /\ WorkFits(to, j)'
  BY <1>2, <1>4, <1>6, <1>7, <1>8 DEF JobFits, WorkFits, FilingSteps, AcceptedSteps
<1>10. pc' = [pc EXCEPT ![p] = to] /\ job' = [job EXCEPT ![p] = j] /\ lock' = lock
  BY <1>1, <1>6 DEF WriteRequest, Step, Local
<1>11. pc[p] \in LockedSteps
  BY <1>2 DEF LockedSteps
<1> QED
  BY <1>3, <1>9, <1>10, <1>11, ProcessStep

-----------------------------------------------------------------------------
(* Phase 2.                                                                *)

\* An accepted answer is one to a request that was minted for this content
\* and is bound to a runtime.
LEMMA AcceptedRequest ==
  ASSUME HandoffInvariant, NEW p \in Proc, NEW a \in Answer, NEW rt,
         Acceptable(p, a), ~RuntimeMismatch(a.to, rt)
  PROVE  /\ a.to \in Run /\ a.to # None
         /\ minted[a.to] \in Request /\ minted[a.to].src = Content(p) /\ minted[a.to].bound
<1>1. a.to \in Run /\ a.to # None
  BY DEF Acceptable, Answer
<1>2. requests[a.to] \notin {None, TornRequest} /\ requests[a.to].src = Content(p)
  BY DEF Acceptable
<1>3. minted[a.to] \in Request /\ requests[a.to] = minted[a.to]
  BY <1>1, <1>2 DEF HandoffInvariant, RequestsSound
<1>4. requests[a.to].bound
  BY <1>1, <1>2 DEF RuntimeMismatch
<1> QED
  BY <1>1, <1>2, <1>3, <1>4

\* Steps of phase 2 that change neither files nor the ledger.
LEMMA ConsumeKeeps ==
  ASSUME HandoffInvariant, NEW p \in Proc,
         \/ GuardPassed(p) \/ GuardRefused(p) \/ ConsumeGone(p) \/ ConsumeFiled(p)
         \/ ConsumeRefused(p) \/ ConsumeAccepted(p)
  PROVE  HandoffInvariant'
<1>0. job[p] \in Job /\ JobFits(pc[p], job[p]) /\ FilesTyped
  BY ProcessFacts
<1>1. CASE GuardPassed(p)
  <2> DEFINE j == [job[p] EXCEPT !.runtime = runtime]
  <2>1. pc[p] = "guard" /\ LocalMove(p, "acquire", j)
    BY <1>1, CountersTyped DEF GuardPassed, Step, Local, LocalMove
  <2>2. /\ j \in Job /\ j.op = job[p].op /\ j.todo = job[p].todo /\ j.at = job[p].at
        /\ j.name = job[p].name /\ j.runtime \in Runtime /\ j.run = job[p].run
        /\ j.src = job[p].src /\ j.names = job[p].names
    BY <1>0 DEF Job, FilesTyped
  <2>3. JobFits("acquire", j)
    BY <1>0, <2>1, <2>2 DEF JobFits, AcceptedSteps
  <2> HIDE DEF j
  <2> QED
    BY <2>1, <2>2, <2>3, OpenMoveKeeps DEF Steps, LockedSteps
<1>2. CASE GuardRefused(p)
  BY <1>2, EndItemKeeps DEF GuardRefused
<1>3. CASE ConsumeGone(p) \/ ConsumeRefused(p)
  <2>1. PICK to \in {"unwind", "release"} :
          pc[p] = "consume" /\ LocalMove(p, to, job[p])
    BY <1>3, CountersTyped, StayLocal DEF ConsumeGone, ConsumeRefused, Step, LocalMove
  <2>2. JobFits(to, job[p]) /\ WorkFits(to, job[p])
    BY <1>0, <2>1 DEF JobFits, WorkFits, FilingSteps, AcceptedSteps
  <2>3. to \in Steps /\ pc[p] \in LockedSteps
    BY <2>1 DEF Steps, LockedSteps
  <2> QED
    BY <1>0, <2>1, <2>2, <2>3, LocalMoveKeeps
<1>4. CASE ConsumeFiled(p)
  BY <1>4, FiledMove, CountersTyped DEF ConsumeFiled, Step, Local, LocalMove
<1>5. CASE ConsumeAccepted(p)
  <2>1. /\ pc[p] = "consume" /\ Content(p) # None /\ filed[Content(p)] = None
        /\ responses[job[p].resp] # None
    BY <1>5 DEF ConsumeAccepted, Step, Acceptable
  <2>2. responses[job[p].resp] \in Answer
    BY <1>0, <2>1 DEF JobFits, Job, FilesTyped
  <2>3. PICK a \in Answer : a = responses[job[p].resp]
    BY <2>2
  <2>4. /\ a.to \in Run /\ a.to # None
        /\ minted[a.to] \in Request /\ minted[a.to].src = Content(p) /\ minted[a.to].bound
    <3>1. Acceptable(p, a) /\ ~RuntimeMismatch(a.to, job[p].runtime)
      BY <1>5, <2>1, <2>3 DEF ConsumeAccepted
    <3> QED
      BY <3>1, AcceptedRequest
  <2>5. /\ Content(p) \in Source /\ job[p].op # "reconcile" /\ job[p].name \in Name
        /\ job[p].at = "inbox" => inbox[job[p].name] = Content(p)
    BY <2>1, ContentTyped
  <2> DEFINE j == [job[p] EXCEPT !.src = Content(p), !.run = a.to]
  <2>6. LocalMove(p, "commit", j)
    BY <1>5, <2>3, CountersTyped DEF ConsumeAccepted, Step, Local, LocalMove
  <2>7. /\ j \in Job /\ j.op = job[p].op /\ j.todo = job[p].todo /\ j.at = job[p].at
        /\ j.name = job[p].name /\ j.runtime = job[p].runtime /\ j.run = a.to
        /\ j.src = Content(p) /\ j.names = job[p].names
    BY <1>0, <2>4, <2>5 DEF Job
  <2>8. JobFits("commit", j)
    BY <1>0, <2>5, <2>7 DEF JobFits, AcceptedSteps
  <2>9. WorkFits("commit", j)
    BY <2>1, <2>4, <2>5, <2>7 DEF WorkFits, FilingSteps
  <2> HIDE DEF j
  <2> QED
    BY <2>1, <2>6, <2>7, <2>8, <2>9, LocalMoveKeeps DEF Steps, LockedSteps
<1> QED
  BY <1>1, <1>2, <1>3, <1>4, <1>5

\* A failure snapshot leaves a source without outputs as it was.
LEMMA RejectedKeeps ==
  ASSUME HandoffInvariant, NEW p \in Proc, ConsumeRejected(p)
  PROVE  HandoffInvariant' /\ filed' = filed
<1>0. job[p] \in Job /\ JobFits(pc[p], job[p]) /\ FilesTyped
  BY ProcessFacts
<1>1. pc[p] = "consume" /\ Content(p) # None /\ filed[Content(p)] = None
  BY DEF ConsumeRejected, Step
<1>2. Content(p) \in Source
  BY <1>1, ContentTyped
<1>3. filed' = filed
  BY <1>0, <1>1, <1>2 DEF ConsumeRejected, FilesTyped
<1>4. LocalMove(p, "release", job[p])
  BY <1>3, CountersTyped, StayLocal DEF ConsumeRejected, Step, LocalMove, project
<1>5. JobFits("release", job[p]) /\ WorkFits("release", job[p])
  BY <1>0, <1>1 DEF JobFits, WorkFits, FilingSteps, AcceptedSteps
<1> QED
  BY <1>0, <1>1, <1>3, <1>4, <1>5, LocalMoveKeeps DEF Steps, LockedSteps

\* The outputs are recorded: the source was not filed, and is from now on,
\* from the request that was accepted for it.
LEMMA CommitKeeps ==
  ASSUME HandoffInvariant, NEW p \in Proc, Commit(p)
  PROVE  HandoffInvariant'
<1>0. /\ job[p] \in Job /\ JobFits(pc[p], job[p]) /\ WorkFits(pc[p], job[p])
      /\ FilesTyped /\ FiledAsRequested /\ pc[p] = "commit"
  BY ProcessFacts DEF HandoffInvariant, Commit, Step
<1>1. PICK j \in Job, to \in Steps : j = job[p] /\ to = "archive"
  BY <1>0 DEF Steps
<1>2. /\ j.src \in Source /\ j.run \in Run /\ j.run # None /\ filed[j.src] = None
      /\ minted[j.run] \in Request /\ minted[j.run].src = j.src /\ minted[j.run].bound
      /\ j.op # "reconcile"
      /\ j.at = "inbox" => j.name \in Name /\ inbox[j.name] = j.src
  BY <1>0, <1>1 DEF JobFits, WorkFits, FilingSteps, Job
<1>3. PICK f \in Filing :
        f = [run |-> j.run, src |-> j.src, date |-> minted[j.run].date,
             runtime |-> minted[j.run].runtime, settled |-> FALSE]
  BY <1>2 DEF Filing, Request
<1>4. f.run = j.run /\ f.src = j.src /\ f # None
      /\ f.date = minted[j.run].date /\ f.runtime = minted[j.run].runtime
  BY <1>3, NoneAssumption
<1>5. /\ filed' = [filed EXCEPT ![j.src] = f]
      /\ inbox' = inbox /\ archived' = archived /\ rejected' = rejected
      /\ replaced' = replaced /\ UNCHANGED cache /\ runtime' = runtime
      /\ drops' \in Nat /\ mishaps' \in Nat /\ faults' \in Nat
  BY <1>1, <1>3, CountersTyped DEF Commit
<1>6. /\ filed'[j.src] = f /\ \A s \in Source \ {j.src} : filed'[s] = filed[s]
      /\ filed' \in [Source -> Filing \cup {None}]
  BY <1>0, <1>2, <1>5 DEF FilesTyped
<1>7. FilesTyped'
  <2>1. \A s \in Source : filed'[s] # None => filed'[s].src = s
    BY <1>0, <1>4, <1>6 DEF FilesTyped
  <2> QED
    BY <1>0, <1>5, <1>6, <2>1 DEF FilesTyped, cache
<1>8. FiledAsRequested'
  <2>1. minted' = minted /\ minted[j.run] # None
    BY <1>2, <1>5, NoneAssumption DEF cache
  <2>2. ASSUME NEW s \in Source, filed'[s] # None
        PROVE  LET q == minted'[filed'[s].run] IN
               /\ q # None /\ q.bound /\ q.src = s
               /\ q.date = filed'[s].date /\ q.runtime = filed'[s].runtime
    BY <1>0, <1>2, <1>4, <1>6, <2>1, <2>2 DEF FiledAsRequested
  <2> QED
    BY <2>2 DEF FiledAsRequested
<1>9. RequestsSound' /\ MintedGrows
  BY <1>5 DEF HandoffInvariant, RequestsSound, MintedGrows, cache
<1>10. JobFits(to, j)'
  BY <1>0, <1>1, <1>5 DEF JobFits, AcceptedSteps, cache
<1>11. WorkFits(to, j)'
  BY <1>1, <1>2, <1>4, <1>5, <1>6 DEF WorkFits, FilingSteps, cache
<1>12. pc' = [pc EXCEPT ![p] = to] /\ job' = [job EXCEPT ![p] = j] /\ lock' = lock
  BY <1>1, StayLocal DEF Commit, Step
<1>13. pc[p] \in LockedSteps
  BY <1>0 DEF LockedSteps
<1> QED
  BY <1>7, <1>8, <1>9, <1>10, <1>11, <1>12, <1>13, ProcessStep

\* The copy into the archive.
LEMMA ArchiveKeeps ==
  ASSUME HandoffInvariant, NEW p \in Proc, Archive(p)
  PROVE  HandoffInvariant'
<1>0. /\ job[p] \in Job /\ JobFits(pc[p], job[p]) /\ WorkFits(pc[p], job[p])
      /\ FilesTyped /\ pc[p] = "archive"
  BY ProcessFacts DEF Archive, Step
<1>1. PICK j \in Job, to \in {"release", "move"} :
        j = job[p] /\ pc' = [pc EXCEPT ![p] = to]
  BY <1>0 DEF Archive, Step
<1>2. j.src \in Source
  BY <1>0, <1>1 DEF WorkFits, FilingSteps
<1>3. /\ archived' = archived \cup {j.src}
      /\ inbox' = inbox /\ filed' = filed /\ rejected' = rejected
      /\ replaced' = replaced /\ UNCHANGED cache /\ runtime' = runtime
      /\ drops' \in Nat /\ mishaps' \in Nat /\ faults' \in Nat
  BY <1>1, CountersTyped DEF Archive
<1>4. FilesTyped' /\ RequestsSound' /\ FiledAsRequested' /\ MintedGrows
  BY <1>0, <1>2, <1>3 DEF HandoffInvariant, FilesTyped, RequestsSound, FiledAsRequested,
                          MintedGrows, cache
<1>5. JobFits(to, j)'
  BY <1>0, <1>1, <1>3 DEF JobFits, AcceptedSteps, cache
<1>6. WorkFits(to, j)'
  BY <1>0, <1>1, <1>3 DEF WorkFits, FilingSteps, ListedAreFiled, cache
<1>7. job' = [job EXCEPT ![p] = j] /\ lock' = lock /\ to \in Steps /\ pc[p] \in LockedSteps
  BY <1>0, <1>1, StayLocal DEF Archive, Steps, LockedSteps
<1> QED
  BY <1>1, <1>4, <1>5, <1>6, <1>7, ProcessStep

\* The move out of the inbox.
LEMMA MoveKeeps ==
  ASSUME HandoffInvariant, NEW p \in Proc, Move(p)
  PROVE  HandoffInvariant'
<1>0. /\ job[p] \in Job /\ JobFits(pc[p], job[p]) /\ WorkFits(pc[p], job[p])
      /\ FilesTyped /\ pc[p] = "move"
  BY ProcessFacts DEF Move, Step
<1>1. PICK j \in Job, to \in Steps :
        j = job[p] /\ to = "complete" /\ pc' = [pc EXCEPT ![p] = to]
  BY <1>0 DEF Move, Step, Steps
<1>2. /\ inbox' = IF j.at = "inbox" THEN [inbox EXCEPT ![j.name] = None] ELSE inbox
      /\ filed' = filed /\ archived' = archived /\ rejected' = rejected
      /\ replaced' = replaced /\ UNCHANGED cache /\ runtime' = runtime
      /\ drops' \in Nat /\ mishaps' \in Nat /\ faults' \in Nat
  BY <1>1, CountersTyped DEF Move
<1>3. \A n \in Name : n # j.name => inbox'[n] = inbox[n]
  BY <1>0, <1>2 DEF FilesTyped
<1>4. FilesTyped' /\ RequestsSound' /\ FiledAsRequested' /\ MintedGrows
  BY <1>0, <1>2 DEF HandoffInvariant, FilesTyped, RequestsSound, FiledAsRequested,
                    MintedGrows, cache
<1>5. JobFits(to, j)'
  BY <1>0, <1>1, <1>2 DEF JobFits, AcceptedSteps, cache
<1>6. WorkFits(to, j)'
  <2>1. j.op = "reconcile" => \A n \in j.names : n \in Name /\ n # j.name /\ inbox'[n] = inbox[n]
    BY <1>0, <1>1, <1>3 DEF WorkFits, Job
  <2> QED
    BY <1>0, <1>1, <1>2, <2>1 DEF WorkFits, FilingSteps, ListedAreFiled, cache
<1>7. job' = [job EXCEPT ![p] = j] /\ lock' = lock /\ pc[p] \in LockedSteps
  BY <1>0, <1>1, StayLocal DEF Move, LockedSteps
<1> QED
  BY <1>1, <1>4, <1>5, <1>6, <1>7, ProcessStep

\* A settled filing is the filing it was.
LEMMA Settled ==
  ASSUME HandoffInvariant, NEW p \in Proc, Complete(p)
  PROVE  /\ job[p].src \in Source /\ filed[job[p].src] # None
         /\ filed'[job[p].src] = [filed[job[p].src] EXCEPT !.settled = TRUE]
         /\ filed'[job[p].src] \in Filing /\ filed'[job[p].src] # None
         /\ filed'[job[p].src].settled
         /\ filed' \in [Source -> Filing \cup {None}]
         /\ \A s \in Source : /\ filed'[s] = None <=> filed[s] = None
                              /\ filed'[s].run = filed[s].run
                              /\ filed'[s].src = filed[s].src
                              /\ filed'[s].date = filed[s].date
                              /\ filed'[s].runtime = filed[s].runtime
<1>0. WorkFits(pc[p], job[p]) /\ FilesTyped /\ pc[p] = "complete"
  BY ProcessFacts DEF Complete, Step
<1>1. job[p].src \in Source /\ filed[job[p].src] # None
  BY <1>0 DEF WorkFits, FilingSteps
<1>2. PICK x \in Source, f \in Filing : x = job[p].src /\ f = filed[job[p].src]
  BY <1>0, <1>1 DEF FilesTyped
<1>3. PICK g \in Filing : g = [f EXCEPT !.settled = TRUE]
  BY DEF Filing
<1>4. g # None /\ g.settled /\ g.run = f.run /\ g.src = f.src /\ g.date = f.date
      /\ g.runtime = f.runtime
  BY <1>3, NoneAssumption DEF Filing
<1>5. filed' = [filed EXCEPT ![x] = g]
  BY <1>2, <1>3 DEF Complete
<1>6. filed'[x] = g /\ (\A s \in Source \ {x} : filed'[s] = filed[s])
      /\ filed' \in [Source -> Filing \cup {None}]
  BY <1>0, <1>5 DEF FilesTyped
<1> QED
  BY <1>1, <1>2, <1>3, <1>4, <1>6

\* The source is settled.
LEMMA CompleteKeeps ==
  ASSUME HandoffInvariant, NEW p \in Proc, Complete(p)
  PROVE  HandoffInvariant'
<1>0. /\ job[p] \in Job /\ JobFits(pc[p], job[p]) /\ WorkFits(pc[p], job[p])
      /\ FilesTyped /\ pc[p] = "complete"
  BY ProcessFacts DEF Complete, Step
<1>1. PICK j \in Job, to \in {"clean_request", "repair_next", "release"} :
        /\ j = job[p] /\ pc' = [pc EXCEPT ![p] = to]
        /\ to = "clean_request" <=> j.run # None
        /\ to = "repair_next" => j.op = "reconcile"
  BY <1>0 DEF Complete, Step
<1>2. /\ inbox' = inbox /\ archived' = archived /\ rejected' = rejected
      /\ replaced' = replaced /\ UNCHANGED cache /\ runtime' = runtime
      /\ drops' \in Nat /\ mishaps' \in Nat /\ faults' \in Nat
  BY CountersTyped DEF Complete
<1>3. /\ j.src \in Source /\ filed'[j.src] # None /\ filed'[j.src].settled
      /\ filed' \in [Source -> Filing \cup {None}]
      /\ \A s \in Source : /\ filed'[s] = None <=> filed[s] = None
                           /\ filed'[s].run = filed[s].run
                           /\ filed'[s].src = filed[s].src
                           /\ filed'[s].date = filed[s].date
                           /\ filed'[s].runtime = filed[s].runtime
  BY <1>1, Settled
<1>4. FilesTyped'
  BY <1>0, <1>2, <1>3 DEF FilesTyped, cache
<1>5. FiledAsRequested'
  BY <1>2, <1>3 DEF HandoffInvariant, FiledAsRequested, cache
<1>6. RequestsSound' /\ MintedGrows
  BY <1>2 DEF HandoffInvariant, RequestsSound, MintedGrows, cache
<1>7. JobFits(to, j)'
  BY <1>0, <1>1, <1>2 DEF JobFits, AcceptedSteps, cache
<1>8. WorkFits(to, j)'
  <2>1. ListedAreFiled(j) => ListedAreFiled(j)'
    BY <1>0, <1>2, <1>3 DEF ListedAreFiled, Job, FilesTyped
  <2> QED
    BY <1>0, <1>1, <1>2, <1>3, <2>1 DEF WorkFits, FilingSteps, cache
<1>9. job' = [job EXCEPT ![p] = j] /\ lock' = lock /\ to \in Steps /\ pc[p] \in LockedSteps
  BY <1>0, <1>1, StayLocal DEF Complete, Steps, LockedSteps
<1> QED
  BY <1>1, <1>4, <1>5, <1>6, <1>7, <1>8, <1>9, ProcessStep

\* The removal of the request, then of the response.
LEMMA CleanKeeps ==
  ASSUME HandoffInvariant, NEW p \in Proc, CleanRequest(p) \/ CleanResponse(p)
  PROVE  HandoffInvariant'
<1>0. /\ job[p] \in Job /\ JobFits(pc[p], job[p]) /\ WorkFits(pc[p], job[p])
      /\ FilesTyped /\ RequestsSound
  BY ProcessFacts DEF HandoffInvariant
<1>1. PICK j \in Job, to \in {"clean_response", "release"} :
        /\ j = job[p] /\ pc' = [pc EXCEPT ![p] = to]
        /\ pc[p] \in {"clean_request", "clean_response"}
  BY <1>0 DEF CleanRequest, CleanResponse, Step
<1>2. /\ UNCHANGED <<project, runtime>> /\ minted' = minted
      /\ drops' \in Nat /\ mishaps' \in Nat /\ faults' \in Nat
  BY CountersTyped DEF CleanRequest, CleanResponse
<1>3. /\ \/ requests' = requests
         \/ requests' = [requests EXCEPT ![j.run] = None]
      /\ \/ responses' = responses
         \/ responses' = [responses EXCEPT ![j.resp] = None]
  BY <1>1 DEF CleanRequest, CleanResponse
<1>4. FilesTyped'
  BY <1>0, <1>2, <1>3 DEF FilesTyped, project
<1>5. RequestsSound'
  <2>1. \A r \in Run : requests'[r] \in {requests[r], None}
    BY <1>0, <1>3 DEF FilesTyped
  <2> QED
    BY <1>0, <1>2, <2>1 DEF RequestsSound
<1>6. FiledAsRequested' /\ MintedGrows
  BY <1>2 DEF HandoffInvariant, FiledAsRequested, MintedGrows, project
<1>7. JobFits(to, j)' /\ WorkFits(to, j)'
  BY <1>0, <1>1, <1>2 DEF JobFits, WorkFits, AcceptedSteps, FilingSteps
<1>8. job' = [job EXCEPT ![p] = j] /\ lock' = lock /\ to \in Steps /\ pc[p] \in LockedSteps
  BY <1>1, StayLocal DEF CleanRequest, CleanResponse, Steps, LockedSteps
<1> QED
  BY <1>1, <1>2, <1>4, <1>5, <1>6, <1>7, <1>8, ProcessStep

\* reconcile between two repairs.
LEMMA ReconcileKeeps ==
  ASSUME HandoffInvariant, NEW p \in Proc,
         ReconcileScan(p) \/ RepairDone(p) \/ \E n \in Name : RepairNext(p, n)
  PROVE  HandoffInvariant'
<1>0. /\ job[p] \in Job /\ JobFits(pc[p], job[p]) /\ WorkFits(pc[p], job[p]) /\ FilesTyped
  BY ProcessFacts
<1>1. CASE ReconcileScan(p)
  <2> DEFINE j == [job[p] EXCEPT !.names = {n \in Name : /\ inbox[n] # None
                                                         /\ filed[inbox[n]] # None}]
  <2>1. pc[p] = "scan" /\ LocalMove(p, "repair_next", j)
    BY <1>1, CountersTyped DEF ReconcileScan, Step, Local, LocalMove
  <2>2. /\ j \in Job /\ j.op = job[p].op /\ j.todo = job[p].todo /\ j.run = job[p].run
        /\ j.names = {n \in Name : inbox[n] # None /\ filed[inbox[n]] # None}
    BY <1>0 DEF Job
  <2>3. JobFits("repair_next", j)
    BY <1>0, <2>1, <2>2 DEF JobFits, AcceptedSteps
  <2>4. WorkFits("repair_next", j)
    BY <2>2 DEF WorkFits, FilingSteps, ListedAreFiled
  <2> HIDE DEF j
  <2> QED
    BY <2>1, <2>2, <2>3, <2>4, LocalMoveKeeps DEF Steps, LockedSteps
<1>2. ASSUME NEW n \in Name, RepairNext(p, n)
      PROVE  HandoffInvariant'
  <2> DEFINE j == [job[p] EXCEPT !.names = @ \ {n}, !.name = n, !.src = inbox[n]]
  <2>1. pc[p] = "repair_next" /\ n \in job[p].names /\ LocalMove(p, "archive", j)
    BY <1>2, CountersTyped DEF RepairNext, Step, Local, LocalMove
  <2>2. /\ inbox[n] \in Source /\ filed[inbox[n]] # None /\ job[p].run = None
        /\ ListedAreFiled(job[p])
    BY <1>0, <2>1 DEF JobFits, WorkFits, ListedAreFiled, FilesTyped, AcceptedSteps
  <2>3. /\ j \in Job /\ j.op = job[p].op /\ j.todo = job[p].todo /\ j.at = job[p].at
        /\ j.name = n /\ j.runtime = job[p].runtime /\ j.run = None
        /\ j.src = inbox[n] /\ j.names = job[p].names \ {n}
    BY <1>0, <2>2 DEF Job
  <2>4. JobFits("archive", j)
    BY <1>0, <2>1, <2>3 DEF JobFits, AcceptedSteps
  <2>5. WorkFits("archive", j)
    BY <2>1, <2>2, <2>3 DEF WorkFits, FilingSteps, ListedAreFiled
  <2> HIDE DEF j
  <2> QED
    BY <2>1, <2>3, <2>4, <2>5, LocalMoveKeeps DEF Steps, LockedSteps
<1>3. CASE RepairDone(p)
  <2>1. pc[p] = "repair_next" /\ LocalMove(p, "release", job[p])
    BY <1>3, CountersTyped, StayLocal DEF RepairDone, Step, LocalMove
  <2>2. JobFits("release", job[p]) /\ WorkFits("release", job[p])
    BY <1>0, <2>1 DEF JobFits, WorkFits, FilingSteps, AcceptedSteps
  <2> QED
    BY <1>0, <2>1, <2>2, LocalMoveKeeps DEF Steps, LockedSteps
<1> QED
  BY <1>1, <1>2, <1>3

-----------------------------------------------------------------------------
(* Kills, I/O errors and the world outside.                                *)

\* A kill or an I/O error leaves the files as they are, or a torn request.
LEMMA CutShortKeeps ==
  ASSUME HandoffInvariant, NEW p \in Proc, CutShort(p), UNCHANGED <<project, runtime>>,
         drops' \in Nat, mishaps' \in Nat, faults' \in Nat
  PROVE  FilesTyped' /\ RequestsSound' /\ FiledAsRequested' /\ MintedGrows
<1>1. CASE UNCHANGED cache
  <2>1. FilesTyped
    BY ProcessFacts
  <2>2. FilesTyped'
    BY <1>1, <2>1 DEF FilesTyped, cache, project
  <2> QED
    BY <1>1, <2>2 DEF HandoffInvariant, RequestsSound, FiledAsRequested, MintedGrows, cache,
                      project
<1>2. ASSUME NEW r \in Run, NEW d \in Date, pc[p] = "write_request",
             WriteRequestFile(p, r, d, TornRequest)
      PROVE  FilesTyped' /\ RequestsSound' /\ FiledAsRequested' /\ MintedGrows
  BY <1>2, RequestWritten
<1> QED
  BY <1>1, <1>2 DEF CutShort

\* An I/O error leaves p in the locked section; a kill leaves the lock file.
LEMMA FaultKeeps ==
  ASSUME HandoffInvariant, NEW p \in Proc, Abort(p) \/ Crash(p)
  PROVE  HandoffInvariant'
<1>0. job[p] \in Job /\ JobFits(pc[p], job[p]) /\ FilesTyped
  BY ProcessFacts
<1>1. /\ UNCHANGED <<project, runtime>> /\ lock' = lock /\ CutShort(p)
      /\ drops' \in Nat /\ mishaps' \in Nat /\ faults' \in Nat
  BY <1>0 DEF Abort, Crash, FilesTyped
<1>2. FilesTyped' /\ RequestsSound' /\ FiledAsRequested' /\ MintedGrows
  BY <1>1, CutShortKeeps
<1>3. UNCHANGED project
  BY <1>1
<1>4. CASE Abort(p)
  <2>1. PICK j \in Job, to \in {"release", "unwind"} :
          j = job[p] /\ pc' = [pc EXCEPT ![p] = to]
    BY <1>0, <1>4 DEF Abort, Step
  <2>2. \A x \in j.todo : minted'[x] \in Request
    BY <1>0, <1>2, <2>1 DEF JobFits, MintedGrows, Job
  <2>3. JobFits(to, j)' /\ WorkFits(to, j)'
    BY <1>0, <2>1, <2>2 DEF JobFits, WorkFits, FilingSteps, AcceptedSteps
  <2>4. job' = [job EXCEPT ![p] = j] /\ to \in Steps /\ pc[p] \in LockedSteps
    BY <1>4, <2>1, StayLocal DEF Abort, Steps, LockedSteps
  <2> QED
    BY <1>1, <1>2, <1>3, <2>1, <2>3, <2>4, ProcessStep
<1>5. CASE Crash(p)
  <2>1. PICK j \in Job, to \in Steps : j = NoJob /\ to = "idle"
    BY NoJobFits DEF Steps
  <2>2. JobFits(to, j)' /\ WorkFits(to, j)'
    BY <2>1 DEF NoJob, JobFits, WorkFits, FilingSteps, AcceptedSteps
  <2>3. pc' = [pc EXCEPT ![p] = to] /\ job' = [job EXCEPT ![p] = j]
        /\ to \notin LockedSteps
    BY <1>5, <2>1 DEF Crash, Step, Local, LockedSteps
  <2> QED
    BY <1>1, <1>2, <1>3, <2>2, <2>3, ProcessStep
<1> QED
  BY <1>4, <1>5

\* A step of the world keeps the invariant when it leaves the processes and
\* the ledger alone, and the inbox files, too, while somebody works on them.
LEMMA WorldStep ==
  ASSUME HandoffInvariant, pc' = pc, job' = job, filed' = filed, archived' = archived,
         minted' = minted, FilesTyped', RequestsSound',
         \/ lock' = lock
         \/ lock' = None /\ \A p \in Proc : pc[p] \notin LockedSteps,
         \/ \A p \in Proc : pc[p] \notin LockedSteps
         \/ \A n \in Name : inbox[n] # None => inbox'[n] = inbox[n]
  PROVE  HandoffInvariant'
<1>0. /\ lock \in Proc \cup {None} /\ pc \in [Proc -> Steps] /\ job \in [Proc -> Job]
      /\ FilesTyped
  BY TypesSplit DEF HandoffInvariant
<1>1. TypeOK'
  BY <1>0 DEF TypeOK, FilesTyped
<1>2. OneWriter'
  BY LockedStep DEF HandoffInvariant, OneWriter, Locked, LockedSteps
<1>3. FiledAsRequested'
  BY DEF HandoffInvariant, FiledAsRequested
<1>4. ASSUME NEW p \in Proc
      PROVE  JobReady(p)' /\ WorkSound(p)'
  <2>1. JobFits(pc[p], job[p]) /\ WorkFits(pc[p], job[p]) /\ pc[p] \in Steps /\ job[p] \in Job
    BY ProcessFacts
  <2>2. JobReady(p)'
    BY <2>1 DEF JobReady, JobFits
  <2>3. PICK j \in Job, step \in Steps : j = job[p] /\ step = pc[p]
    BY <2>1
  <2>4. WorkFits(step, j)'
    <3>1. CASE \A q \in Proc : pc[q] \notin LockedSteps
      <4>1. step \notin LockedSteps
        BY <2>3, <3>1
      <4> QED
        BY <4>1 DEF WorkFits, Steps, LockedSteps, FilingSteps
    <3>2. CASE \A n \in Name : inbox[n] # None => inbox'[n] = inbox[n]
      <4>1. ListedAreFiled(j) => ListedAreFiled(j)'
        BY <3>2 DEF ListedAreFiled, Job
      <4>2. j.src \in Source /\ j.name \in Name /\ inbox[j.name] = j.src =>
              inbox'[j.name] = j.src
        BY <3>2, ConstantsAssumption
      <4> QED
        BY <2>1, <2>3, <4>1, <4>2 DEF WorkFits, FilingSteps
    <3> QED
      BY <3>1, <3>2
  <2> QED
    BY <2>2, <2>3, <2>4 DEF WorkSound
<1> QED
  BY <1>1, <1>2, <1>3, <1>4 DEF HandoffInvariant

\* The agent, the operator and the hosts.
LEMMA WorldKeeps ==
  ASSUME HandoffInvariant, World
  PROVE  HandoffInvariant'
<1>0. FilesTyped /\ RequestsSound /\ lock \in Proc \cup {None}
      /\ \A p \in Proc : pc[p] \in LockedSteps => lock = p
  BY TypesSplit, LockedStep DEF HandoffInvariant, OneWriter
<1>1. CASE RemoveStaleLock
  <2>1. lock \in Proc /\ ~Locked(lock) /\ lock' = None
    BY <1>0, <1>1 DEF RemoveStaleLock
  <2>2. \A p \in Proc : pc[p] \notin LockedSteps
    BY <1>0, <2>1, LockedStep
  <2>3. FilesTyped' /\ RequestsSound' /\ inbox' = inbox /\ filed' = filed
        /\ archived' = archived /\ minted' = minted /\ pc' = pc /\ job' = job
    BY <1>0, <1>1 DEF RemoveStaleLock, FilesTyped, RequestsSound, project, cache, budget
  <2> QED
    BY <2>1, <2>2, <2>3, WorldStep
<1>2. ASSUME NEW n \in Name, NEW s \in Source, Drop(n, s)
      PROVE  HandoffInvariant'
  <2>1. FilesTyped'
    BY <1>0, <1>2 DEF Drop, FilesTyped, cache
  <2>2. RequestsSound' /\ lock' = lock /\ filed' = filed /\ archived' = archived
        /\ minted' = minted /\ pc' = pc /\ job' = job
    BY <1>0, <1>2 DEF Drop, RequestsSound, cache
  <2>3. CASE lock = None
    <3>1. \A p \in Proc : pc[p] \notin LockedSteps
      BY <1>0, <2>3, ConstantsAssumption
    <3> QED
      BY <2>1, <2>2, <3>1, WorldStep
  <2>4. CASE inbox[n] = None
    <3>1. \A x \in Name : inbox[x] # None => inbox'[x] = inbox[x]
      BY <1>0, <1>2, <2>4 DEF Drop, FilesTyped
    <3> QED
      BY <2>1, <2>2, <3>1, WorldStep
  <2> QED
    BY <1>2, <2>3, <2>4 DEF Drop
<1>3. ASSUME NEW r \in Run, Respond(r) \/ Abandon(r) \/ \E a \in Answer : Misanswer(r, a)
      PROVE  HandoffInvariant'
  <2>1. RightAnswer(r) \in Answer
    BY DEF RightAnswer, Answer
  <2>2. /\ UNCHANGED <<lock, project, minted, runtime, pc, job>>
        /\ requests' = requests \/ requests' = [requests EXCEPT ![r] = None]
        /\ \E a \in Answer \cup {None} : responses' = [responses EXCEPT ![r] = a]
        /\ drops' \in Nat /\ mishaps' \in Nat /\ faults' \in Nat
    BY <1>0, <1>3, <2>1 DEF Respond, Abandon, Misanswer, budget, FilesTyped
  <2>3. FilesTyped'
    BY <1>0, <2>2 DEF FilesTyped, project
  <2>4. RequestsSound'
    <3>1. \A x \in Run : requests'[x] \in {requests[x], None}
      BY <1>0, <2>2 DEF FilesTyped
    <3> QED
      BY <1>0, <2>2, <3>1 DEF RequestsSound
  <2> QED
    BY <2>2, <2>3, <2>4, WorldStep DEF project
<1>4. ASSUME NEW rt \in Runtime, ChangeRuntime(rt)
      PROVE  HandoffInvariant'
  <2>1. FilesTyped'
    BY <1>0, <1>4 DEF ChangeRuntime, FilesTyped, project, cache
  <2>2. RequestsSound' /\ lock' = lock /\ inbox' = inbox /\ filed' = filed
        /\ archived' = archived /\ minted' = minted /\ pc' = pc /\ job' = job
    BY <1>0, <1>4 DEF ChangeRuntime, RequestsSound, project, cache
  <2> QED
    BY <2>1, <2>2, WorldStep
<1> QED
  BY <1>1, <1>2, <1>3, <1>4 DEF World

-----------------------------------------------------------------------------
(* The invariant.                                                          *)

LEMMA InitSound ==
  Init => HandoffInvariant
<1> SUFFICES ASSUME Init PROVE HandoffInvariant
  OBVIOUS
<1>1. TypeOK
  <2>1. requests \in [Run -> Request \cup {None, TornRequest}] /\ minted = requests
        /\ \A r \in Run : requests[r] \in Request \cup {None}
    BY DEF Init, Request
  <2>2. minted \in [Run -> Request \cup {None}]
    BY <2>1
  <2>3. pc \in [Proc -> Steps] /\ job \in [Proc -> Job]
    BY NoJobFits DEF Init, Steps
  <2> QED
    BY <2>1, <2>2, <2>3 DEF Init, TypeOK
<1>2. OneWriter /\ FiledAsRequested
  BY DEF Init, OneWriter, Locked, FiledAsRequested
<1>3. RequestsSound
  BY DEF Init, RequestsSound, Request
<1>4. \A p \in Proc : JobReady(p) /\ WorkSound(p)
  BY NoJobFits DEF Init, JobReady, WorkSound
<1> QED
  BY <1>1, <1>2, <1>3, <1>4 DEF HandoffInvariant

\* The invariant holds for every step of the specification.
LEMMA InvariantNext ==
  ASSUME HandoffInvariant, [Next]_vars
  PROVE  HandoffInvariant'
<1>1. ASSUME NEW p \in Proc, Advance(p)
      PROVE  HandoffInvariant'
  <2>1. CASE Acquire(p) \/ LockConflict(p) \/ Release(p) \/ Unwind(p)
    BY <2>1, LockKeeps
  <2>2. CASE BatchStep(p)
    BY <2>2, BatchKeeps
  <2>3. CASE Phase1(p)
    BY <2>3, PrepareKeeps, RejectKeeps, WriteKeeps DEF Phase1
  <2>4. CASE Phase2(p)
    BY <2>4, ConsumeKeeps, RejectedKeeps, CommitKeeps DEF Phase2
  <2>5. CASE Finish(p)
    BY <2>5, ArchiveKeeps, MoveKeeps, CompleteKeeps, CleanKeeps, ReconcileKeeps DEF Finish
  <2> QED
    BY <1>1, <2>1, <2>2, <2>3, <2>4, <2>5 DEF Advance
<1>2. ASSUME NEW p \in Proc,
             Start(p) \/ Abort(p) \/ Crash(p) \/ \E r \in Run : ExtractorFails(p, r)
      PROVE  HandoffInvariant'
  BY <1>2, StartKeeps, FaultKeeps, BatchKeeps
<1>3. CASE UNCHANGED vars
  <2>1. /\ pc' = pc /\ job' = job /\ filed' = filed /\ archived' = archived
        /\ minted' = minted /\ lock' = lock /\ inbox' = inbox
    BY <1>3 DEF vars, project, cache
  <2>2. FilesTyped' /\ RequestsSound'
    BY <1>3, TypesSplit DEF HandoffInvariant, FilesTyped, RequestsSound, vars, project, cache,
                            budget
  <2> QED
    BY <2>1, <2>2, WorldStep
<1> QED
  BY <1>1, <1>2, <1>3, WorldKeeps DEF Next

\* At each of its steps a process knows what it needs to: the lock is its own,
\* the request it has accepted was minted for the content it files, and what
\* it read under the lock is still so, with any number of commands running,
\* dying and failing at any point (session_inbox.py, pipeline.py).
THEOREM HandoffInvariance ==
  Spec => []HandoffInvariant
<1>1. Init => HandoffInvariant
  BY InitSound
<1>2. HandoffInvariant /\ [Next]_vars => HandoffInvariant'
  BY InvariantNext
<1> QED
  BY <1>1, <1>2, PTL DEF Spec

\* Every variable stays within the values the code can give it.
THEOREM HandoffTypeCorrect ==
  Spec => []TypeOK
<1>1. HandoffInvariant => TypeOK
  BY DEF HandoffInvariant
<1> QED
  BY <1>1, HandoffInvariance, PTL

\* Whatever a request waits for: a source is filed only from a request that
\* was minted for this very content, bound to a runtime, and under the date
\* and the runtime of that request (_verify_identity, _verify_runtime_binding).
THEOREM FiledFromItsRequest ==
  Spec => []FiledAsRequested
<1>1. HandoffInvariant => FiledAsRequested
  BY DEF HandoffInvariant
<1> QED
  BY <1>1, HandoffInvariance, PTL

-----------------------------------------------------------------------------
(* Handoffs.                                                               *)

\* Only the end of an ingest takes a whole request away from its agent.
LEMMA RequestsStay ==
  ASSUME HandoffInvariant, NEW p \in Proc, NEW r \in Run,
         \/ Start(p) \/ Advance(p) \/ Abort(p) \/ Crash(p)
         \/ \E x \in Run : ExtractorFails(p, x),
         requests[r] \notin {None, TornRequest}, requests'[r] = None
  PROVE  pc[p] = "clean_request" /\ r = job[p].run
<1>0. requests \in [Run -> Request \cup {None, TornRequest}] /\ RequestsSound
  BY DEF HandoffInvariant, TypeOK
<1>1. requests' # requests
  OBVIOUS
<1>2. ~Start(p) /\ ~BatchStep(p) /\ ~\E x \in Run : ExtractorFails(p, x)
  BY <1>1 DEF Start, StartSessionInbox, StartIngestInbox, StartReconcile,
              StartProviderRequest, StartIngest, BatchStep, Plan, GoFresh, BatchDone,
              ListInbox, ListBlocked, StillWaiting, CompleteNext, MintNext, ExtractorFails,
              cache
<1>3. ~Acquire(p) /\ ~LockConflict(p) /\ ~Release(p) /\ ~Unwind(p) /\ ~Phase2(p)
  BY <1>1 DEF Acquire, LockConflict, Release, Unwind, Phase2, GuardPassed, GuardRefused,
              ConsumeGone, ConsumeFiled, ConsumeRefused, ConsumeRejected, ConsumeAccepted,
              Commit, cache
<1>4. ASSUME NEW x \in Run, NEW d \in Date, NEW content,
             WriteRequestFile(p, x, d, content)
      PROVE  FALSE
  <2>1. minted[x] = None /\ requests' = [requests EXCEPT ![x] = content]
    BY <1>4 DEF WriteRequestFile, NextRun
  <2>2. requests[x] = None
    BY <1>0, <2>1, NoneAssumption DEF RequestsSound
  <2> QED
    BY <1>0, <2>1, <2>2
<1>5. ~Phase1(p) /\ ~Abort(p) /\ ~Crash(p)
  BY <1>1, <1>4 DEF Phase1, PrepareGone, PrepareFiled, PrepareUnreadable, PrepareFresh,
                    WriteRequest, OutOfRuns, Abort, Crash, CutShort, cache
<1>6. CleanRequest(p)
  BY <1>1, <1>2, <1>3, <1>5 DEF Advance, Finish, Archive, Move, Complete, CleanResponse,
                                ReconcileScan, RepairNext, RepairDone, cache
<1>7. pc[p] = "clean_request" /\ requests' = [requests EXCEPT ![job[p].run] = None]
  BY <1>6 DEF CleanRequest, Step
<1> QED
  BY <1>0, <1>7

\* No command removes a request unless its source is filed from it and
\* settled: an ingest that is refused, rejected, killed or fails leaves the
\* handoff for another attempt (cleanup_session_provider_files).
THEOREM HandoffsAreKept ==
  Spec => HandoffKept
<1>1. ASSUME HandoffInvariant, [Next]_vars, NEW r \in Run,
             requests[r] \notin {None, TornRequest}, requests'[r] = None, pc' # pc
      PROVE  LET f == filed[requests[r].src] IN f # None /\ f.run = r /\ f.settled
  <2>1. PICK p \in Proc : \/ Start(p) \/ Advance(p) \/ Abort(p) \/ Crash(p)
                          \/ \E x \in Run : ExtractorFails(p, x)
    BY <1>1 DEF Next, World, RemoveStaleLock, Drop, Respond, Abandon, Misanswer,
                ChangeRuntime, vars
  <2>2. pc[p] = "clean_request" /\ r = job[p].run
    BY <1>1, <2>1, RequestsStay
  <2>3. JobFits(pc[p], job[p]) /\ WorkFits(pc[p], job[p])
    BY <1>1, ProcessFacts
  <2>4. minted[r].src = job[p].src /\ job[p].src \in Source
    BY <2>2, <2>3 DEF WorkFits, FilingSteps
  <2>5. requests[r] = minted[r]
    BY <1>1 DEF HandoffInvariant, RequestsSound
  <2> QED
    BY <2>2, <2>3, <2>4, <2>5 DEF WorkFits, FilingSteps
<1>2. HandoffInvariant /\ [Next]_vars =>
        \A r \in Run :
          /\ requests[r] \notin {None, TornRequest}
          /\ requests'[r] = None
          /\ pc' # pc
          => LET f == filed[requests[r].src] IN f # None /\ f.run = r /\ f.settled
  BY <1>1
<1> QED
  BY <1>2, HandoffInvariance, PTL DEF Spec, HandoffKept

-----------------------------------------------------------------------------
(***************************************************************************)
(* SessionHandoff implements IngestPromise, for any number of processes,   *)
(* names, sources and dates: a handoff that is minted, answered, refused,  *)
(* rejected or lost is no step of the promise; a filing, an archive copy,  *)
(* a move out of the inbox and a quarantine are.                           *)
(***************************************************************************)

PromiseStep == [Promise!Next]_Promise!vars

\* A step that leaves the files and the filings alone.
LEMMA ProjectFrame ==
  ASSUME UNCHANGED project
  PROVE  PromiseStep
<1>1. FiledMeetings' = FiledMeetings /\ WaitingSources' = WaitingSources
  BY DEF project, FiledMeetings, WaitingSources
<1> QED
  BY <1>1 DEF project, PromiseStep, Promise!vars

\* The promise's notion of a filed source is the handoff's.
LEMMA FiledIsFiled ==
  ASSUME HandoffInvariant, NEW s \in Source
  PROVE  Promise!Filed(s) <=> filed[s] # None
<1>1. ASSUME NEW m \in FiledMeetings, m[1] = s
      PROVE  filed[s] # None
  BY <1>1 DEF FiledMeetings
<1>2. ASSUME filed[s] # None
      PROVE  \E m \in FiledMeetings : m[1] = s
  <2>1. <<s, filed[s].date>> \in FiledMeetings
    BY <1>2 DEF FiledMeetings
  <2>2. <<s, filed[s].date>>[1] = s
    OBVIOUS
  <2> QED
    BY <2>1, <2>2
<1> QED
  BY <1>1, <1>2 DEF Promise!Filed

\* A file that leaves the inbox takes its source along, or there is another
\* one with that content.
LEMMA InboxLeft ==
  ASSUME HandoffInvariant, NEW n \in Name, NEW s \in Source, inbox[n] = s,
         inbox' = [inbox EXCEPT ![n] = None], replaced' = replaced
  PROVE  WaitingSources' \in {WaitingSources, WaitingSources \ {s}}
<1>1. inbox \in [Name -> Source \cup {None}] /\ None \notin Source /\ replaced \subseteq Source
  BY ConstantsAssumption DEF HandoffInvariant, TypeOK
<1>2. inbox'[n] = None /\ \A m \in Name \ {n} : inbox'[m] = inbox[m]
  BY <1>1
<1>3. \A t \in Source : t # s => (t \in WaitingSources' <=> t \in WaitingSources)
  BY <1>1, <1>2 DEF WaitingSources
<1>4. s \in WaitingSources
  BY DEF WaitingSources
<1>5. WaitingSources \subseteq Source /\ WaitingSources' \subseteq Source
  BY <1>1 DEF WaitingSources
<1> QED
  BY <1>3, <1>4, <1>5

-----------------------------------------------------------------------------
(* The steps of the promise.                                               *)

\* The outputs of a source that had none: the source is filed.
LEMMA CommitFiles ==
  ASSUME HandoffInvariant, NEW p \in Proc, Commit(p)
  PROVE  PromiseStep
<1>0. JobFits(pc[p], job[p]) /\ WorkFits(pc[p], job[p]) /\ FilesTyped /\ pc[p] = "commit"
  BY ProcessFacts DEF Commit, Step
<1>1. /\ job[p].src \in Source /\ filed[job[p].src] = None /\ minted[job[p].run] \in Request
  BY <1>0 DEF WorkFits, FilingSteps
<1>2. PICK s \in Source, d \in Date : s = job[p].src /\ d = minted[job[p].run].date
  BY <1>1 DEF Request
<1>3. HandoffInvariant'
  BY CommitKeeps
<1>4. PICK f : /\ filed' = [filed EXCEPT ![s] = f] /\ f.date = d
               /\ f = [run |-> job[p].run, src |-> s, date |-> d,
                       runtime |-> minted[job[p].run].runtime, settled |-> FALSE]
  BY <1>2 DEF Commit
<1>5. f # None
  <2>1. f.run = job[p].run /\ job[p].run \in Run
    BY <1>0, <1>4, ProcessFacts DEF WorkFits, FilingSteps, Job
  <2>2. f \in Filing
    BY <1>1, <1>2, <1>4, <2>1 DEF Filing, Request
  <2> QED
    BY <2>2, NoneAssumption
<1>6. filed'[s] = f /\ \A t \in Source \ {s} : filed'[t] = filed[t]
  BY <1>0, <1>4 DEF FilesTyped
<1>7. FiledMeetings' = FiledMeetings \cup {<<s, d>>}
  BY <1>1, <1>2, <1>4, <1>5, <1>6 DEF FiledMeetings
<1>8. ~Promise!Filed(s)
  BY <1>1, <1>2, FiledIsFiled
<1>9. WaitingSources' = WaitingSources /\ archived' = archived /\ rejected' = rejected
  BY DEF Commit, WaitingSources
<1>10. Promise!File(s, d)
  BY <1>7, <1>8, <1>9 DEF Promise!File
<1> QED
  BY <1>10 DEF PromiseStep, Promise!Next

\* The archive gets a copy of a filed source.
LEMMA ArchiveArchives ==
  ASSUME HandoffInvariant, NEW p \in Proc, Archive(p)
  PROVE  PromiseStep
<1>0. WorkFits(pc[p], job[p]) /\ pc[p] = "archive"
  BY ProcessFacts DEF Archive, Step
<1>1. job[p].src \in Source /\ filed[job[p].src] # None
  BY <1>0 DEF WorkFits, FilingSteps
<1>2. FiledMeetings' = FiledMeetings /\ WaitingSources' = WaitingSources
  BY DEF Archive, FiledMeetings, WaitingSources
<1>3. Promise!Archive(job[p].src)
  BY <1>1, <1>2, FiledIsFiled DEF Promise!Archive, Archive
<1> QED
  BY <1>1, <1>3 DEF PromiseStep, Promise!Next

\* The inbox file of a filed and archived source is put away; there may be
\* another file with that content.
LEMMA MoveRetires ==
  ASSUME HandoffInvariant, NEW p \in Proc, Move(p)
  PROVE  PromiseStep
<1>0. /\ JobFits(pc[p], job[p]) /\ WorkFits(pc[p], job[p]) /\ FilesTyped /\ pc[p] = "move"
  BY ProcessFacts DEF Move, Step
<1>1. /\ job[p].src \in Source /\ filed[job[p].src] # None /\ job[p].src \in archived
  BY <1>0 DEF WorkFits, FilingSteps
<1>2. /\ filed' = filed /\ archived' = archived /\ rejected' = rejected
      /\ replaced' = replaced
  BY DEF Move
<1>3. CASE job[p].at # "inbox"
  BY <1>2, <1>3, ProjectFrame DEF Move, project
<1>4. CASE job[p].at = "inbox"
  <2>1. PICK n \in Name, s \in Source :
          n = job[p].name /\ s = job[p].src /\ inbox[n] = s
    BY <1>0, <1>1, <1>4 DEF WorkFits
  <2>2. inbox' = [inbox EXCEPT ![n] = None]
    BY <1>4, <2>1 DEF Move
  <2>3. WaitingSources' \in {WaitingSources, WaitingSources \ {s}}
    BY <1>2, <2>1, <2>2, InboxLeft
  <2>4. FiledMeetings' = FiledMeetings
    BY <1>2 DEF FiledMeetings
  <2>5. CASE WaitingSources' = WaitingSources
    BY <1>2, <2>4, <2>5 DEF PromiseStep, Promise!vars
  <2>6. CASE WaitingSources' = WaitingSources \ {s}
    <3>1. Promise!Retire(s)
      BY <1>1, <1>2, <2>1, <2>4, <2>6, FiledIsFiled DEF Promise!Retire
    <3> QED
      BY <3>1 DEF PromiseStep, Promise!Next
  <2> QED
    BY <2>3, <2>5, <2>6
<1> QED
  BY <1>3, <1>4

\* A filing that is settled files nothing anew.
LEMMA CompleteStutters ==
  ASSUME HandoffInvariant, NEW p \in Proc, Complete(p)
  PROVE  PromiseStep
<1>1. \A s \in Source : /\ filed'[s] = None <=> filed[s] = None
                        /\ filed'[s].date = filed[s].date
  BY Settled
<1>2. FiledMeetings' = FiledMeetings
  BY <1>1 DEF FiledMeetings
<1>3. WaitingSources' = WaitingSources /\ archived' = archived /\ rejected' = rejected
  BY DEF Complete, WaitingSources
<1> QED
  BY <1>2, <1>3 DEF PromiseStep, Promise!vars

\* A file that cannot be read is put into quarantine, while its source is not
\* filed.
LEMMA UnreadableRejects ==
  ASSUME HandoffInvariant, NEW p \in Proc, PrepareUnreadable(p)
  PROVE  PromiseStep
<1>0. /\ FilesTyped /\ pc[p] = "prepare" /\ Content(p) # None /\ filed[Content(p)] = None
  BY ProcessFacts DEF PrepareUnreadable, Step
<1>1. /\ Content(p) \in Source /\ job[p].name \in Name
      /\ job[p].at = "inbox" => inbox[job[p].name] = Content(p)
  BY <1>0, ContentTyped
<1>2. filed' = filed /\ archived' = archived /\ replaced' = replaced
  BY DEF PrepareUnreadable
<1>3. CASE job[p].at # "inbox"
  BY <1>2, <1>3, ProjectFrame DEF PrepareUnreadable, project
<1>4. CASE job[p].at = "inbox"
  <2>1. PICK n \in Name, s \in Source :
          n = job[p].name /\ s = Content(p) /\ inbox[n] = s
    BY <1>1, <1>4
  <2>2. inbox' = [inbox EXCEPT ![n] = None] /\ rejected' = rejected \cup {s}
    BY <1>4, <2>1 DEF PrepareUnreadable
  <2>3. WaitingSources' \in {WaitingSources, WaitingSources \ {s}}
    BY <1>2, <2>1, <2>2, InboxLeft
  <2>4. s \in WaitingSources
    BY <2>1 DEF WaitingSources
  <2>5. FiledMeetings' = FiledMeetings /\ ~Promise!Filed(s)
    BY <1>0, <1>2, <2>1, FiledIsFiled DEF FiledMeetings
  <2>6. Promise!Reject(s)
    BY <1>2, <2>2, <2>3, <2>4, <2>5 DEF Promise!Reject
  <2> QED
    BY <2>6 DEF PromiseStep, Promise!Next
<1> QED
  BY <1>3, <1>4

\* A file is dropped; the one it may replace is not missed.
LEMMA DropArrives ==
  ASSUME HandoffInvariant, NEW n \in Name, NEW s \in Source, Drop(n, s)
  PROVE  PromiseStep
<1>1. /\ inbox' = [inbox EXCEPT ![n] = s] /\ filed' = filed /\ archived' = archived
      /\ rejected' = rejected /\ replaced' = replaced \cup ({inbox[n]} \ {None})
      /\ inbox \in [Name -> Source \cup {None}] /\ FilesTyped
  BY ProcessFacts, TypesSplit DEF Drop, HandoffInvariant, FilesTyped
<1>2. inbox'[n] = s /\ \A m \in Name \ {n} : inbox'[m] = inbox[m]
  BY <1>1
<1>3. WaitingSources' = WaitingSources \cup {s}
  BY <1>1, <1>2, ConstantsAssumption DEF WaitingSources
<1>4. FiledMeetings' = FiledMeetings
  BY <1>1 DEF FiledMeetings
<1>5. Promise!Arrive(s)
  BY <1>1, <1>3, <1>4 DEF Promise!Arrive
<1> QED
  BY <1>5 DEF PromiseStep, Promise!Next

-----------------------------------------------------------------------------
(* Every step.                                                             *)

\* What neither files, archives, moves nor quarantines.
LEMMA QuietProcess ==
  ASSUME NEW p \in Proc,
         \/ Start(p) \/ BatchStep(p) \/ Abort(p) \/ Crash(p)
         \/ \E r \in Run : ExtractorFails(p, r)
  PROVE  UNCHANGED project
<1>1. CASE Start(p)
  BY <1>1 DEF Start, StartSessionInbox, StartIngestInbox, StartReconcile,
              StartProviderRequest, StartIngest
<1>2. CASE BatchStep(p)
  BY <1>2 DEF BatchStep, Plan, GoFresh, BatchDone, ListInbox, ListBlocked, StillWaiting,
              CompleteNext, MintNext
<1>3. CASE Abort(p) \/ Crash(p) \/ \E r \in Run : ExtractorFails(p, r)
  BY <1>3 DEF Abort, Crash, ExtractorFails
<1> QED
  BY <1>1, <1>2, <1>3

\* A step of a command is a step of the promise, or none of its business.
LEMMA AdvanceKept ==
  ASSUME HandoffInvariant, NEW p \in Proc, Advance(p)
  PROVE  PromiseStep
<1>1. CASE Acquire(p) \/ LockConflict(p) \/ Release(p) \/ Unwind(p)
  BY <1>1, ProjectFrame DEF Acquire, LockConflict, Release, Unwind
<1>2. CASE BatchStep(p)
  BY <1>2, QuietProcess, ProjectFrame
<1>3. CASE Phase1(p)
  BY <1>3, UnreadableRejects, ProjectFrame
     DEF Phase1, PrepareGone, PrepareFiled, PrepareFresh, WriteRequest, OutOfRuns
<1>4. CASE Phase2(p)
  <2>1. CASE ConsumeRejected(p)
    <3>1. filed' = filed
      BY <2>1, RejectedKeeps
    <3>2. UNCHANGED project
      BY <2>1, <3>1 DEF ConsumeRejected, project
    <3> QED
      BY <3>2, ProjectFrame
  <2> QED
    BY <1>4, <2>1, CommitFiles, ProjectFrame
       DEF Phase2, GuardPassed, GuardRefused, ConsumeGone, ConsumeFiled, ConsumeRefused,
           ConsumeAccepted
<1>5. CASE Finish(p)
  BY <1>5, ArchiveArchives, MoveRetires, CompleteStutters, ProjectFrame
     DEF Finish, CleanRequest, CleanResponse, ReconcileScan, RepairDone, RepairNext
<1> QED
  BY <1>1, <1>2, <1>3, <1>4, <1>5 DEF Advance

LEMMA HandoffStepKept ==
  ASSUME HandoffInvariant, [Next]_vars
  PROVE  PromiseStep
<1>1. CASE World
  BY <1>1, DropArrives, ProjectFrame
     DEF World, RemoveStaleLock, Respond, Abandon, Misanswer, ChangeRuntime
<1>2. CASE UNCHANGED vars
  BY <1>2, ProjectFrame DEF vars
<1>3. ASSUME NEW p \in Proc, Advance(p)
      PROVE  PromiseStep
  BY <1>3, AdvanceKept
<1>4. ASSUME NEW p \in Proc,
             Start(p) \/ Abort(p) \/ Crash(p) \/ \E r \in Run : ExtractorFails(p, r)
      PROVE  PromiseStep
  BY <1>4, QuietProcess, ProjectFrame
<1> QED
  BY <1>1, <1>2, <1>3, <1>4 DEF Next

LEMMA HandoffInitKept ==
  ASSUME Init
  PROVE  Promise!Init
<1>1. FiledMeetings = {} /\ WaitingSources \in SUBSET Source
  BY DEF Init, FiledMeetings, WaitingSources
<1> QED
  BY <1>1 DEF Init, Promise!Init

\* Session ingests implement the promise: with requests that are minted twice,
\* answers that come late, wrong or to another file, files that are replaced
\* while a handoff waits, and commands that fail or die anywhere, a source is
\* filed once and for good, archived only when filed, put away only when
\* archived, and put into quarantine only while not filed.
THEOREM HandoffRefinement ==
  Spec => PromiseKept
<1>1. Init => Promise!Init
  BY HandoffInitKept
<1>2. HandoffInvariant /\ [Next]_vars => [Promise!Next]_Promise!vars
  BY HandoffStepKept DEF PromiseStep
<1> QED
  BY <1>1, <1>2, HandoffInvariance, PTL DEF Spec, PromiseKept, Promise!Spec
=============================================================================
