--------------------------- MODULE PlaybookProofs ---------------------------
(***************************************************************************)
(* Proofs about Playbook for any number of commands, readers, people and   *)
(* signals, any reviews and any bounds.                                    *)
(*                                                                         *)
(* IInv is shown to hold initially and to be preserved by every step; the  *)
(* safety of the playbook and the promise of PlaybookPromise follow.       *)
(***************************************************************************)
EXTENDS PlaybookInvariant, AppendLogProofs

-----------------------------------------------------------------------------
(* Steps of a command in general.                                          *)

\* The types of everything but the lock and the commands.
FilesTyped ==
  /\ registry \in Registry /\ signals \subseteq Signal /\ overrides \in Log(Event)
  /\ ledger \in Log(Derivation)
  /\ gens \subseteq Run /\ files \in [Run -> SUBSET Member]
  /\ DOMAIN content = Run /\ \A r \in Run : DOMAIN content[r] = Person
  /\ index \in Index \cup {None}
  /\ minted \in 0..MaxRuns
  /\ view \in [Reader -> View \cup {None}]
  /\ edits \in Nat /\ faults \in Nat /\ between \in [Run -> SUBSET Registry]

\* What the files say of each other.
FilesSound == RunsOrdered /\ CommitsSound /\ IndexSound /\ ViewsSound

LEMMA IInvSplit ==
  IInv <=> /\ lock \in Command \cup {None} /\ pc \in [Command -> Steps]
           /\ job \in [Command -> Job]
           /\ FilesTyped /\ OneHolder /\ FilesSound /\ WorkSound
  BY DEF IInv, TypeOK, FilesTyped, FilesSound

\* A step of c keeps the invariant when the locked section is entered and left
\* with the lock, files are sound after it, and c knows at its new step what
\* that step relies on.
LEMMA CommandStep ==
  ASSUME IInv, NEW c \in Command, NEW to \in Steps, NEW j \in Job,
         pc' = [pc EXCEPT ![c] = to], job' = [job EXCEPT ![c] = j],
         \/ lock' = lock /\ (to \in LockedSteps => pc[c] \in LockedSteps)
         \/ lock = None /\ lock' = c
         \/ lock' = None /\ pc[c] \in LockedSteps /\ to \notin LockedSteps,
         pc[c] \in LockedSteps \/ lock = None \/ to \notin LockedSteps,
         UNCHANGED <<outputs, minted, view>> \/ pc[c] \in LockedSteps \/ lock = None,
         FilesTyped', FilesSound', WorkFits(to, j)'
  PROVE  IInv'
<1>1. /\ lock \in Command \cup {None} /\ pc \in [Command -> Steps]
      /\ job \in [Command -> Job] /\ OneHolder /\ WorkSound
  BY IInvSplit
<1>2. /\ pc' \in [Command -> Steps] /\ job' \in [Command -> Job]
      /\ lock' \in Command \cup {None}
      /\ pc'[c] = to /\ job'[c] = j
      /\ \A b \in Command \ {c} : pc'[b] = pc[b] /\ job'[b] = job[b]
  BY <1>1
<1>3. OneHolder'
  BY <1>1, <1>2, PlaybookAssumption DEF OneHolder
<1>4. WorkSound'
  <2>1. WorkFits(pc[c], job[c])'
    BY <1>2 DEF WorkFits
  <2>2. ASSUME NEW b \in Command \ {c}
        PROVE  WorkFits(pc[b], job[b])'
    <3>1. pc'[b] = pc[b] /\ job'[b] = job[b] /\ WorkFits(pc[b], job[b]) /\ pc[b] \in Steps
      BY <1>1, <1>2 DEF WorkSound
    <3>2. CASE pc[b] \notin LockedSteps
      BY <3>1, <3>2 DEF WorkFits, LockedSteps, Steps, Drafting
    <3>3. CASE pc[b] \in LockedSteps
      <4>1. lock = b /\ pc[c] \notin LockedSteps /\ lock # None
        BY <1>1, <3>3, PlaybookAssumption DEF OneHolder
      <4>2. UNCHANGED <<ledger, gens, files, content, index, minted, view>>
        BY <4>1 DEF outputs, generations
      <4>3. Committed' = Committed /\ Malformed(ledger)' = Malformed(ledger)
        BY <4>2 DEF Committed, Successes
      <4> QED
        BY <3>1, <4>2, <4>3 DEF WorkFits, Unpublished, Unrecorded, Complete
    <3> QED
      BY <3>2, <3>3
  <2> QED
    BY <2>1, <2>2 DEF WorkSound
<1> QED
  BY <1>2, <1>3, <1>4, IInvSplit DEF IInv, TypeOK, FilesTyped, FilesSound

\* A step that leaves ledger, generations, index and readers alone.
LEMMA QuietFiles ==
  ASSUME FilesSound, UNCHANGED <<outputs, minted, view>>
  PROVE  FilesSound' /\ Committed' = Committed /\ Malformed(ledger)' = Malformed(ledger)
<1>1. UNCHANGED <<ledger, gens, files, content, index, minted, view>>
  BY DEF outputs, generations
<1>2. Committed' = Committed /\ Successes' = Successes /\ Malformed(ledger)' = Malformed(ledger)
      /\ Whole(ledger)' = Whole(ledger)
  BY <1>1 DEF Committed, Successes
<1>3. RunsOrdered'
  BY <1>1, <1>2 DEF FilesSound, RunsOrdered
<1>4. CommitsSound'
  BY <1>1, <1>2 DEF FilesSound, CommitsSound, Complete
<1>5. IndexSound'
  BY <1>1, <1>2 DEF FilesSound, IndexSound, Complete
<1>6. ViewsSound'
  BY <1>1, <1>2 DEF FilesSound, ViewsSound, Complete
<1> QED
  BY <1>2, <1>3, <1>4, <1>5, <1>6 DEF FilesSound

\* Record d of the run that works under the lock is appended to the ledger,
\* whole or cut short.
LEMMA LedgerStep ==
  ASSUME FilesTyped, FilesSound, NEW d \in Derivation, d.run = minted, Unrecorded(d.run),
         d.success => Complete(d.run) /\ d.people = People(content[d.run]),
         NEW r \in {d, Garbled}, NEW e \in BOOLEAN, ledger' = Put(ledger, r, e),
         UNCHANGED <<generations, index, minted, view>>
  PROVE  /\ FilesSound' /\ ledger' \in Log(Derivation)
         /\ r = d /\ d.success => d.run \in Committed' \/ Malformed(ledger)'
         /\ d.success => d.run \in Committed' \/ Unrecorded(d.run)'
<1>1. UNCHANGED <<gens, files, content, index, minted, view>>
  BY DEF generations
<1>2. ledger \in Log(Derivation) /\ ledger' \in Log(Derivation) /\ Len(ledger) \in Nat
      /\ minted \in Nat
  <2>1. ledger \in Log(Derivation) /\ minted \in Nat
    BY PlaybookAssumption DEF FilesTyped
  <2>2. ledger' \in Log(Derivation)
    BY <2>1, PutTyped
  <2> QED
    BY <2>1, <2>2 DEF Log
<1>3. /\ \A i \in Whole(ledger') :
           (i \in Whole(ledger) /\ ledger'[i] = ledger[i])
             \/ (i = Len(ledger) + 1 /\ ledger'[i].record = d)
      /\ \/ Malformed(ledger')
         \/ \A i \in Whole(ledger) : i \in Whole(ledger') /\ ledger'[i] = ledger[i]
      /\ \/ Malformed(ledger')
         \/ Len(ledger) + 1 \in Whole(ledger') /\ ledger'[Len(ledger) + 1].record = r
      /\ Malformed(ledger) => Malformed(ledger')
  <2>1. \A i \in Whole(ledger') : ledger'[i].record # Garbled
    BY DEF Whole
  <2> HIDE DEF Whole, Malformed
  <2>2. /\ \A i \in Whole(ledger') :
             (i \in Whole(ledger) /\ ledger'[i] = ledger[i])
               \/ (i = Len(ledger) + 1 /\ ledger'[i].record = r)
        /\ \/ Malformed(ledger')
           \/ \A i \in Whole(ledger) : i \in Whole(ledger') /\ ledger'[i] = ledger[i]
        /\ \/ Malformed(ledger')
           \/ Len(ledger) + 1 \in Whole(ledger') /\ ledger'[Len(ledger) + 1].record = r
        /\ Malformed(ledger) => Malformed(ledger')
    BY <1>2, PutKeeps
  <2> QED
    BY <2>1, <2>2
<1>4. \A run : run \in Committed => run \in Committed' \/ Malformed(ledger')
  BY <1>3 DEF Committed, Successes
<1>5. \A i \in Whole(ledger) : i \in 1..Len(ledger) /\ ledger[i].record.run <= minted
                              /\ ledger[i].record.run # d.run /\ ledger[i].record \in Derivation
  <2>1. ASSUME NEW i \in Whole(ledger)
        PROVE  i \in 1..Len(ledger) /\ ledger[i].record \in Derivation
    <3>1. i \in 1..Len(ledger) /\ ledger[i].record # Garbled
      BY DEF Whole
    <3>2. ledger[i] \in Line(Derivation)
      BY <1>2, <3>1 DEF Log
    <3> QED
      BY <3>1, <3>2 DEF Line
  <2> QED
    BY <2>1 DEF FilesSound, RunsOrdered, Unrecorded
<1>6. RunsOrdered'
  <2>1. \A i \in Whole(ledger') : ledger'[i].record.run <= minted'
    BY <1>1, <1>2, <1>3, <1>5
  <2>2. ASSUME NEW i \in Whole(ledger'), NEW k \in Whole(ledger'), i < k
        PROVE  ledger'[i].record.run < ledger'[k].record.run
    <3>1. i \in Whole(ledger) /\ ledger'[i] = ledger[i]
      BY <1>2, <1>3, <1>5, <2>2
    <3>2. CASE k \in Whole(ledger) /\ ledger'[k] = ledger[k]
      BY <2>2, <3>1, <3>2 DEF FilesSound, RunsOrdered
    <3>3. CASE ledger'[k].record = d
      <4>1. ledger[i].record.run \in Nat /\ ledger[i].record.run <= minted
            /\ ledger[i].record.run # d.run
        BY <1>5, <3>1, PlaybookAssumption DEF Derivation, Run
      <4> QED
        BY <1>2, <3>1, <3>3, <4>1
    <3> QED
      BY <1>3, <3>2, <3>3
  <2> QED
    BY <1>1, <2>1, <2>2 DEF FilesSound, RunsOrdered
<1>7. CommitsSound'
  BY <1>1, <1>3 DEF FilesSound, CommitsSound, Successes, Complete
<1>8. IndexSound'
  BY <1>1, <1>3, <1>4 DEF FilesSound, IndexSound, Complete
<1>9. ViewsSound'
  BY <1>1, <1>3, <1>4 DEF FilesSound, ViewsSound, Complete
<1>10. r = d /\ d.success => d.run \in Committed' \/ Malformed(ledger')
  BY <1>3 DEF Committed, Successes
<1>11. d.success => d.run \in Committed' \/ Unrecorded(d.run)'
  <2>1. CASE \E i \in Whole(ledger') : ledger'[i].record = d
    BY <2>1 DEF Committed, Successes
  <2>2. CASE \A i \in Whole(ledger') : ledger'[i].record # d
    BY <1>3, <1>5, <2>2 DEF Unrecorded
  <2> QED
    BY <2>1, <2>2
<1> QED
  BY <1>2, <1>6, <1>7, <1>8, <1>9, <1>10, <1>11 DEF FilesSound

\* A step of c that leaves ledger, generations, index and readers alone, and
\* for which c knows all that its next step relies on.
LEMMA QuietCommand ==
  ASSUME IInv, NEW c \in Command, NEW to \in Steps, NEW j \in Job,
         pc' = [pc EXCEPT ![c] = to], job' = [job EXCEPT ![c] = j],
         \/ lock' = lock /\ (to \in LockedSteps => pc[c] \in LockedSteps)
         \/ lock' = None /\ pc[c] \in LockedSteps /\ to \notin LockedSteps,
         UNCHANGED <<outputs, minted, view>>,
         registry' \in Registry, signals' \subseteq Signal, overrides' \in Log(Event),
         edits' \in Nat, between' \in [Run -> SUBSET Registry], faults' \in Nat,
         WorkFits(to, j)
  PROVE  IInv'
<1>1. FilesTyped /\ FilesSound
  BY IInvSplit
<1>2. FilesSound' /\ Committed' = Committed /\ Malformed(ledger)' = Malformed(ledger)
  BY <1>1, QuietFiles
<1>3. FilesTyped'
  BY <1>1 DEF FilesTyped, outputs, generations
<1>4. WorkFits(to, j)'
  BY <1>2 DEF WorkFits, Unpublished, Unrecorded, Complete, outputs, generations
<1> QED
  BY <1>2, <1>3, <1>4, CommandStep

\* The types of a command's variables, and the types of the files.
LEMMA Types ==
  IInv => /\ pc \in [Command -> Steps] /\ job \in [Command -> Job]
          /\ registry \in Registry /\ signals \subseteq Signal /\ overrides \in Log(Event)
          /\ edits \in Nat /\ between \in [Run -> SUBSET Registry]
          /\ faults \in Nat /\ minted \in 0..MaxRuns
          /\ FilesTyped /\ FilesSound
          /\ \A c \in Command : WorkFits(pc[c], job[c])
          /\ NoJob \in Job
  BY IInvSplit DEF FilesTyped, WorkSound, NoJob, Job

\* The same for a step that keeps the local variables of c.
LEMMA QuietProceed ==
  ASSUME IInv, NEW c \in Command, NEW to \in Steps \cap LockedSteps,
         pc[c] \in LockedSteps, pc' = [pc EXCEPT ![c] = to], job' = job, lock' = lock,
         UNCHANGED <<outputs, minted, view>>,
         registry' \in Registry, signals' \subseteq Signal, overrides' \in Log(Event),
         edits' \in Nat, between' \in [Run -> SUBSET Registry], faults' \in Nat,
         WorkFits(to, job[c])
  PROVE  IInv'
<1>1. PICK j \in Job : j = job[c]
  BY Types
<1>2. job' = [job EXCEPT ![c] = j] /\ WorkFits(to, j)
  BY <1>1, Types
<1> HIDE DEF LockedSteps, Steps
<1> QED
  BY <1>2, QuietCommand

\* And for a step by which c is gone, the lock still held.
LEMMA QuietDies ==
  ASSUME IInv, NEW c \in Command, Dies(c, pc[c]), lock' = lock,
         UNCHANGED <<outputs, minted, view>>,
         registry' \in Registry, signals' \subseteq Signal, overrides' \in Log(Event),
         edits' \in Nat, between' \in [Run -> SUBSET Registry], faults' \in Nat
  PROVE  IInv'
<1>1. WorkFits("idle", NoJob) /\ "idle" \in Steps \ LockedSteps /\ NoJob \in Job
  BY Types DEF WorkFits, Steps, LockedSteps, Drafting
<1>2. pc' = [pc EXCEPT ![c] = "idle"] /\ job' = [job EXCEPT ![c] = NoJob]
  BY DEF Dies, Step, Local
<1> QED
  BY <1>1, <1>2, QuietCommand

-----------------------------------------------------------------------------
(* Begin, lock and unlock.                                                 *)

LEMMA StartKeeps ==
  ASSUME IInv, NEW c \in Command, NEW j \in Job, j.op \in Op,
         j.op = "playbook-review" => j.review \in Review, Start(c, j)
  PROVE  IInv'
<1>1. WorkFits("acquire", j)
  BY DEF WorkFits, Drafting
<1>2. "acquire" \in Steps \ LockedSteps
  BY DEF Steps, LockedSteps
<1> QED
  BY <1>1, <1>2, Types, QuietCommand DEF Start, Step, Local, inputs, budget, history

LEMMA BeginKeeps ==
  ASSUME IInv, NEW c \in Command, Begin(c)
  PROVE  IInv'
<1>1. CASE StartUpdate(c)
  <2> DEFINE j == [NoJob EXCEPT !.op = "playbook-update"]
  <2>1. j \in Job /\ j.op \in Op /\ j.op # "playbook-review"
    BY DEF NoJob, Job, Op
  <2>2. Start(c, j)
    BY <1>1 DEF StartUpdate
  <2> HIDE DEF j
  <2> QED
    BY <2>1, <2>2, StartKeeps
<1>2. CASE StartRepair(c)
  <2> DEFINE j == [NoJob EXCEPT !.op = "playbook-repair-index"]
  <2>1. j \in Job /\ j.op \in Op /\ j.op # "playbook-review"
    BY DEF NoJob, Job, Op
  <2>2. Start(c, j)
    BY <1>2 DEF StartRepair
  <2> HIDE DEF j
  <2> QED
    BY <2>1, <2>2, StartKeeps
<1>3. CASE StartCleanup(c)
  <2> DEFINE j == [NoJob EXCEPT !.op = "playbook-cleanup"]
  <2>1. j \in Job /\ j.op \in Op /\ j.op # "playbook-review"
    BY DEF NoJob, Job, Op
  <2>2. Start(c, j)
    BY <1>3 DEF StartCleanup
  <2> HIDE DEF j
  <2> QED
    BY <2>1, <2>2, StartKeeps
<1>4. ASSUME NEW r \in Requests, StartReview(c, r) PROVE IInv'
  <2> DEFINE j == [NoJob EXCEPT !.op = "playbook-review", !.review = r]
  <2>1. r \in Review
    BY PlaybookAssumption
  <2>2. j \in Job /\ j.op \in Op /\ j.review \in Review
    BY <2>1 DEF NoJob, Job, Op
  <2>3. Start(c, j)
    BY <1>4 DEF StartReview
  <2> HIDE DEF j
  <2> QED
    BY <2>2, <2>3, StartKeeps
<1> QED
  BY <1>1, <1>2, <1>3, <1>4 DEF Begin

LEMMA AcquireKeeps ==
  ASSUME IInv, NEW c \in Command, Acquire(c)
  PROVE  IInv'
<1>1. /\ pc[c] = "acquire" /\ lock = None /\ lock' = c
      /\ pc' = [pc EXCEPT ![c] = First(job[c].op)]
      /\ WorkFits("acquire", job[c]) /\ job[c] \in Job
      /\ UNCHANGED <<inputs, outputs, view, budget>>
  BY Types DEF Acquire, Step
<1>2. job[c].op \in Op
  BY <1>1 DEF WorkFits
<1>3. CASE job[c].op = "playbook-update"
  <2>1. minted < MaxRuns /\ minted' = minted + 1
        /\ job' = [job EXCEPT ![c] = [job[c] EXCEPT !.run = minted']]
    BY <1>3 DEF Acquire, Local
  <2>2. minted \in Nat /\ minted' \in Run /\ minted' \in 0..MaxRuns
    BY <2>1, Types, PlaybookAssumption DEF Run
  <2>3. PICK j \in Job : j = [job[c] EXCEPT !.run = minted']
    BY <1>1, <2>2 DEF Job
  <2>4. j.run = minted' /\ job' = [job EXCEPT ![c] = j]
    BY <1>1, <2>1, <2>3 DEF Job
  <2>5. UNCHANGED <<ledger, gens, files, content, index, view, registry, signals, overrides,
                    edits, between, faults>>
    BY <1>1 DEF inputs, outputs, generations, budget, history
  <2>6. FilesTyped'
    BY <2>2, <2>5, Types DEF FilesTyped
  <2>7. /\ Committed' = Committed /\ Successes' = Successes /\ Whole(ledger)' = Whole(ledger)
        /\ Malformed(ledger)' = Malformed(ledger)
    BY <2>5 DEF Committed, Successes
  <2>8. /\ \A i \in Whole(ledger) : ledger[i].record.run \in Nat
        /\ \A r \in gens : r \in Nat
        /\ index # None => index.run \in Nat
        /\ \A d \in Reader : view[d] # None => view[d].run \in Nat
    <3> Run \subseteq Nat
      BY PlaybookAssumption DEF Run
    <3>1. ASSUME NEW i \in Whole(ledger) PROVE ledger[i].record.run \in Nat
      <4>1. ledger[i].record # Garbled /\ i \in 1..Len(ledger) /\ ledger \in Log(Derivation)
        BY Types DEF FilesTyped, Whole
      <4>2. ledger[i] \in Line(Derivation)
        BY <4>1 DEF Log
      <4> QED
        BY <4>1, <4>2 DEF Line, Derivation
    <3> QED
      BY <3>1, Types DEF FilesTyped, Index, View
  <2>9. FilesSound'
    <3>1. RunsOrdered'
      <4>1. \A n \in Nat : n <= minted => n <= minted'
        BY <2>1, <2>2
      <4> QED
        BY <2>5, <2>7, <2>8, <4>1, Types DEF FilesSound, RunsOrdered
    <3>2. CommitsSound'
      BY <2>5, <2>7, Types DEF FilesSound, CommitsSound, Complete
    <3>3. IndexSound'
      BY <2>5, <2>7, Types DEF FilesSound, IndexSound, Complete
    <3>4. ViewsSound'
      <4>1. \A n \in Nat : n <= minted => n <= minted'
        BY <2>1, <2>2
      <4> QED
        BY <2>5, <2>7, <2>8, <4>1, Types DEF FilesSound, ViewsSound, Complete
    <3> QED
      BY <3>1, <3>2, <3>3, <3>4 DEF FilesSound
  <2>10. /\ \A i \in Whole(ledger) : ledger[i].record.run # minted'
         /\ minted' \notin gens
         /\ index # None => index.run # minted'
         /\ \A d \in Reader : view[d] # None => view[d].run # minted'
    <3>1. \A n \in Nat : n <= minted => n # minted'
      BY <2>1, <2>2
    <3> QED
      BY <2>8, <3>1, Types DEF FilesSound, RunsOrdered, ViewsSound
  <2>11. WorkFits("discover", j)'
    <3>1. Unpublished(j.run)' /\ j.run \notin gens'
      BY <2>4, <2>5, <2>7, <2>10 DEF Unpublished, Unrecorded
    <3>2. j.run \in Run /\ j.run = minted'
      BY <2>2, <2>4
    <3> QED
      BY <3>1, <3>2 DEF WorkFits, Drafting
  <2>12. First(job[c].op) = "discover" /\ "discover" \in Steps \cap LockedSteps
    BY <1>3 DEF First, Steps, LockedSteps
  <2> QED
    BY <1>1, <2>3, <2>4, <2>6, <2>9, <2>11, <2>12, CommandStep
<1>4. CASE job[c].op # "playbook-update"
  <2>1. PICK to, j : to = First(job[c].op) /\ j = job[c]
    OBVIOUS
  <2>2. minted' = minted /\ job' = [job EXCEPT ![c] = j]
    BY <1>4, <2>1, Types DEF Acquire
  <2>3. /\ to \in {"repair", "list", "review"} /\ to \in Steps \cap LockedSteps
        /\ (to = "review" => j.review \in Review) /\ j \in Job
    BY <1>1, <1>2, <1>4, <2>1 DEF First, Op, Steps, LockedSteps, WorkFits
  <2>4. FilesSound'
    BY <1>1, <2>2, QuietFiles, Types
  <2>5. FilesTyped'
    BY <1>1, <2>2, Types DEF FilesTyped, inputs, outputs, generations, budget, history
  <2>6. WorkFits(to, j)'
    BY <2>3 DEF WorkFits, Drafting
  <2> QED
    BY <1>1, <2>1, <2>2, <2>3, <2>4, <2>5, <2>6, CommandStep
<1> QED
  BY <1>3, <1>4

LEMMA RefusedKeeps ==
  ASSUME IInv, NEW c \in Command, Refused(c)
  PROVE  IInv'
<1>1. WorkFits("idle", NoJob) /\ "idle" \in Steps \ LockedSteps
  BY DEF WorkFits, Steps, LockedSteps, Drafting
<1> QED
  BY <1>1, Types, QuietCommand DEF Refused, Step, Local, inputs, budget, history

LEMMA ReleaseKeeps ==
  ASSUME IInv, NEW c \in Command, Release(c)
  PROVE  IInv'
<1>1. WorkFits("idle", NoJob) /\ "idle" \in Steps \ LockedSteps /\ "release" \in LockedSteps
  BY DEF WorkFits, Steps, LockedSteps, Drafting
<1> QED
  BY <1>1, Types, QuietCommand DEF Release, Step, Local, inputs, budget, history

-----------------------------------------------------------------------------
(* Derivations.                                                            *)

LEMMA DiscoverKeeps ==
  ASSUME IInv, NEW c \in Command, Discover(c)
  PROVE  IInv'
<1>1. WorkFits("discover", job[c]) /\ job[c] \in Job /\ Now \in Inputs /\ pc[c] = "discover"
  BY Types DEF Discover, Step, Now, Inputs
<1>2. PICK j \in Job : j = [job[c] EXCEPT !.inputs = Now]
  BY <1>1 DEF Job
<1>3. j.run = job[c].run /\ j.inputs \in Inputs
  BY <1>1, <1>2 DEF Job
<1>4. WorkFits("derive", j)
  BY <1>1, <1>3 DEF WorkFits, Drafting
<1>5. "derive" \in Steps \cap LockedSteps /\ "discover" \in LockedSteps
  BY DEF Steps, LockedSteps
<1> QED
  BY <1>1, <1>2, <1>4, <1>5, Types, QuietCommand DEF Discover, Step, Local, inputs, budget, history

LEMMA RegistryInvalidKeeps ==
  ASSUME IInv, NEW c \in Command, RegistryInvalid(c)
  PROVE  IInv'
<1>1. WorkFits("derive", job[c]) /\ pc[c] = "derive"
  BY Types DEF RegistryInvalid, Step
<1>2. WorkFits("failing", job[c])
  BY <1>1 DEF WorkFits, Drafting, Unpublished
<1>3. "failing" \in Steps \cap LockedSteps /\ "derive" \in LockedSteps
  BY DEF Steps, LockedSteps
<1> QED
  BY <1>1, <1>2, <1>3, Types, QuietProceed DEF RegistryInvalid, Step, inputs, budget, history

\* A step of the draft of run j.run, which nobody refers to yet.
LEMMA DraftStep ==
  ASSUME FilesSound, NEW run \in Run, run = minted, Unpublished(run),
         UNCHANGED <<ledger, index, minted, view>>,
         gens' = gens \cup {run}, files \in [Run -> SUBSET Member],
         run \notin gens => files'[run] = {},
         files' \in [Run -> SUBSET Member],
         \A r \in Run \ {run} : files'[r] = files[r] /\ content'[r] = content[r],
         gens \subseteq Run
  PROVE  FilesSound' /\ Committed' = Committed /\ Malformed(ledger)' = Malformed(ledger)
         /\ Unpublished(run)'
<1>1. Committed' = Committed /\ Successes' = Successes /\ Malformed(ledger)' = Malformed(ledger)
      /\ Whole(ledger)' = Whole(ledger)
  BY DEF Committed, Successes
<1>2. run \in Nat /\ minted \in Nat
  BY PlaybookAssumption DEF Run
<1>3. \A r \in Run : Complete(r) /\ r # run => Complete(r)' /\ content'[r] = content[r]
  BY DEF Complete
<1>4. \A r : Complete(r) => r \in Run
  BY DEF Complete
<1>5. RunsOrdered'
  BY <1>1, <1>2 DEF FilesSound, RunsOrdered
<1>6. CommitsSound'
  BY <1>1, <1>3, <1>4 DEF FilesSound, CommitsSound, Successes, Unpublished, Unrecorded
<1>7. IndexSound'
  BY <1>1, <1>3, <1>4 DEF FilesSound, IndexSound, Unpublished
<1>8. ViewsSound'
  BY <1>1, <1>3, <1>4 DEF FilesSound, ViewsSound, Unpublished
<1>9. Unpublished(run)'
  BY <1>1 DEF Unpublished, Unrecorded
<1> QED
  BY <1>1, <1>5, <1>6, <1>7, <1>8, <1>9 DEF FilesSound

LEMMA DeriveKeeps ==
  ASSUME IInv, NEW c \in Command, Derive(c)
  PROVE  IInv'
<1>1. PICK j \in Job : j = job[c]
  BY Types
<1>2. WorkFits("derive", j) /\ pc[c] = "derive" /\ FilesTyped /\ FilesSound
  BY <1>1, Types DEF Derive, Step
<1>3. /\ gens' = gens \cup {j.run}
      /\ content' = [content EXCEPT ![j.run] = Profiles(registry, j.inputs.signals, overrides)]
      /\ UNCHANGED <<lock, registry, signals, overrides, ledger, files, index, minted, job,
                     view, edits, between, faults>>
  BY <1>1 DEF Derive, inputs, budget, history
<1>4. j.run \in Run /\ j.run = minted /\ Unpublished(j.run) /\ j.run \notin gens
      /\ j.inputs \in Inputs
  BY <1>2 DEF WorkFits, Drafting
<1>5. files[j.run] = {}
  BY <1>2, <1>4 DEF FilesSound, RunsOrdered
<1>6. FilesSound' /\ Unpublished(j.run)'
  BY <1>2, <1>3, <1>4, <1>5, DraftStep DEF FilesTyped
<1>7. FilesTyped'
  <2>1. DOMAIN Profiles(registry, j.inputs.signals, overrides) = Person
    BY DEF Profiles
  <2> QED
    BY <1>2, <1>3, <1>4, <2>1 DEF FilesTyped
<1>8. WorkFits("write", j)'
  BY <1>3, <1>4, <1>5, <1>6 DEF WorkFits, Drafting
<1>9. "write" \in Steps \cap LockedSteps /\ "derive" \in LockedSteps
  BY DEF Steps, LockedSteps
<1>10. pc' = [pc EXCEPT ![c] = "write"] /\ job' = [job EXCEPT ![c] = j]
  BY <1>1, <1>3, Types DEF Derive, Step
<1> QED
  BY <1>2, <1>3, <1>6, <1>7, <1>8, <1>9, <1>10, CommandStep

LEMMA WriteMemberKeeps ==
  ASSUME IInv, NEW c \in Command, NEW m \in Member, WriteMember(c, m)
  PROVE  IInv'
<1>1. PICK j, to : j \in Job /\ j = job[c] /\ to = IF m = "manifest" THEN "commit" ELSE "write"
  BY Types
<1>2. WorkFits("write", j) /\ pc[c] = "write" /\ FilesTyped /\ FilesSound
  BY <1>1, Types DEF WriteMember, Step
<1>3. /\ files' = [files EXCEPT ![j.run] = @ \cup {m}]
      /\ m \in Members(content[j.run]) \ files[j.run]
      /\ m = "manifest" => files[j.run] = Members(content[j.run]) \ {m}
      /\ UNCHANGED <<lock, registry, signals, overrides, ledger, gens, content, index, minted,
                     job, view, edits, between, faults>>
  BY <1>1 DEF WriteMember, inputs, budget, history
<1>4. /\ j.run \in Run /\ j.run = minted /\ Unpublished(j.run) /\ j.run \in gens
      /\ j.inputs \in Inputs
      /\ files[j.run] \subseteq Members(content[j.run]) \ {"manifest"}
  BY <1>2 DEF WorkFits, Drafting
<1>5. files' \in [Run -> SUBSET Member] /\ files'[j.run] = files[j.run] \cup {m}
      /\ \A r \in Run \ {j.run} : files'[r] = files[r]
  BY <1>2, <1>3, <1>4 DEF FilesTyped
<1>6. FilesSound' /\ Unpublished(j.run)'
  BY <1>2, <1>3, <1>4, <1>5, DraftStep DEF FilesTyped
<1>7. FilesTyped'
  BY <1>2, <1>3, <1>5 DEF FilesTyped
<1>8. WorkFits(to, j)'
  <2>1. CASE m = "manifest"
    <3>1. Complete(j.run)'
      BY <1>3, <1>4, <1>5, <2>1 DEF Complete
    <3> QED
      BY <1>1, <1>3, <1>4, <1>6, <2>1, <3>1 DEF WorkFits, Drafting
  <2>2. CASE m # "manifest"
    BY <1>1, <1>3, <1>4, <1>5, <1>6, <2>2 DEF WorkFits, Drafting
  <2> QED
    BY <2>1, <2>2
<1>9. to \in Steps \cap LockedSteps /\ "write" \in LockedSteps
  BY <1>1 DEF Steps, LockedSteps
<1>10. pc' = [pc EXCEPT ![c] = to] /\ job' = [job EXCEPT ![c] = j]
  BY <1>1, <1>3, Types DEF WriteMember, Step
<1> QED
  BY <1>1, <1>2, <1>3, <1>6, <1>7, <1>8, <1>9, <1>10, CommandStep

-----------------------------------------------------------------------------
(* The derivation ledger.                                                  *)

\* A record of this run.
LEMMA RecordTyped ==
  ASSUME IInv, NEW c \in Command, NEW success \in BOOLEAN, job[c].run \in Run,
         success => job[c].inputs \in Inputs
  PROVE  LET d == Record(c, success) IN
         d \in Derivation /\ d.run = job[c].run /\ d.success = success
         /\ (success => d.people = People(content[d.run]))
<1>1. Now \in Inputs
  BY Types DEF Now, Inputs
<1>2. People(content[job[c].run]) \in SUBSET Person
  BY DEF People
<1> QED
  BY <1>1, <1>2 DEF Record, Derivation

\* What a derivation appends to the ledger, and the rest of a ledger step.
LEMMA LedgerCommand ==
  ASSUME IInv, NEW c \in Command, NEW to \in Steps, NEW j \in Job,
         pc' = [pc EXCEPT ![c] = to], job' = [job EXCEPT ![c] = j], lock' = lock,
         pc[c] \in LockedSteps,
         UNCHANGED <<inputs, generations, index, minted, view, edits, between>>, faults' \in Nat,
         FilesSound', ledger' \in Log(Derivation), WorkFits(to, j)'
  PROVE  IInv'
<1>1. FilesTyped'
  BY Types DEF FilesTyped, inputs, generations
<1> QED
  BY <1>1, CommandStep

LEMMA CommitKeeps ==
  ASSUME IInv, NEW c \in Command, NEW to \in {"index", "failing"}, pc[c] = "commit",
         lock' = lock, UNCHANGED <<inputs, generations, index, minted, view, edits, between>>,
         faults' \in Nat,
         (Step(c, "commit", to) /\ job' = job) \/ Dies(c, "commit"),
         \/ ledger' = ledger /\ to = "failing"
         \/ ledger' = Put(ledger, Garbled, FALSE) /\ to = "failing"
         \/ \E e \in BOOLEAN : ledger' = Put(ledger, Record(c, TRUE), e)
  PROVE  IInv'
<1>1. PICK j, d : j \in Job /\ j = job[c] /\ d = Record(c, TRUE)
  BY Types
<1>2. WorkFits("commit", j) /\ FilesTyped /\ FilesSound
  BY <1>1, Types
<1>3. j.run \in Run /\ j.run = minted /\ j.inputs \in Inputs /\ Unpublished(j.run)
      /\ j.run \in gens /\ Complete(j.run)
  BY <1>2 DEF WorkFits, Drafting
<1>4. d \in Derivation /\ d.run = j.run /\ d.success /\ d.people = People(content[d.run])
  BY <1>1, <1>3, RecordTyped
<1>5. FilesSound' /\ ledger' \in Log(Derivation)
      /\ (to = "index" => j.run \in Committed' \/ Malformed(ledger)')
      /\ (j.run \in Committed' \/ Unrecorded(j.run)')
  <2>1. CASE ledger' = ledger /\ to = "failing"
    <3>1. UNCHANGED <<outputs, minted, view>>
      BY <2>1 DEF outputs
    <3>2. FilesSound' /\ ledger' \in Log(Derivation)
      BY <1>2, <2>1, <3>1, QuietFiles DEF FilesTyped
    <3>3. Unrecorded(j.run)'
      BY <1>3, <2>1 DEF Unpublished, Unrecorded
    <3> QED
      BY <2>1, <3>2, <3>3
  <2>2. ASSUME NEW r \in {d, Garbled}, NEW e \in BOOLEAN, ledger' = Put(ledger, r, e),
               r = d \/ to = "failing"
        PROVE  FilesSound' /\ ledger' \in Log(Derivation)
               /\ (to = "index" => j.run \in Committed' \/ Malformed(ledger)')
               /\ (j.run \in Committed' \/ Unrecorded(j.run)')
    <3>1. d.success => Complete(d.run) /\ d.people = People(content[d.run])
      BY <1>3, <1>4
    <3>2. Unrecorded(d.run) /\ d.run = minted
      BY <1>3, <1>4 DEF Unpublished
    <3>3. /\ FilesSound' /\ ledger' \in Log(Derivation)
          /\ r = d /\ d.success => d.run \in Committed' \/ Malformed(ledger)'
          /\ d.success => d.run \in Committed' \/ Unrecorded(d.run)'
      BY <1>2, <1>4, <2>2, <3>1, <3>2, LedgerStep
    <3> QED
      BY <1>4, <2>2, <3>3
  <2> QED
    BY <1>1, <2>1, <2>2
<1>6. "commit" \in LockedSteps /\ to \in Steps \cap LockedSteps /\ "idle" \in Steps
  BY DEF Steps, LockedSteps
<1>7. CASE Step(c, "commit", to) /\ job' = job
  <2>1. WorkFits(to, j)'
    BY <1>3, <1>5 DEF WorkFits, Drafting, Complete, generations
  <2>2. job' = [job EXCEPT ![c] = j] /\ pc' = [pc EXCEPT ![c] = to]
    BY <1>1, <1>7, Types DEF Step
  <2> QED
    BY <1>1, <1>5, <1>6, <2>1, <2>2, LedgerCommand
<1>8. CASE Dies(c, "commit")
  <2>1. WorkFits("idle", NoJob)'
    BY DEF WorkFits, Drafting
  <2>2. job' = [job EXCEPT ![c] = NoJob] /\ pc' = [pc EXCEPT ![c] = "idle"]
    BY <1>8 DEF Dies, Step, Local
  <2> QED
    BY <1>5, <1>6, <2>1, <2>2, Types, LedgerCommand
<1> QED
  BY <1>7, <1>8

\* The end of a failed derivation.
LEMMA FailureKeeps ==
  ASSUME IInv, NEW c \in Command, pc[c] = "failing",
         lock' = lock, UNCHANGED <<inputs, generations, index, minted, view, edits, between>>,
         faults' \in Nat,
         (Step(c, "failing", "release") /\ job' = job) \/ Dies(c, "failing"),
         \/ ledger' = ledger
         \/ /\ job[c].run \notin Committed
            /\ \E r \in {Record(c, FALSE), Garbled}, e \in BOOLEAN : ledger' = Put(ledger, r, e)
  PROVE  IInv'
<1>1. PICK j, d : j \in Job /\ j = job[c] /\ d = Record(c, FALSE)
  BY Types
<1>2. WorkFits("failing", j) /\ FilesTyped /\ FilesSound
  BY <1>1, Types
<1>3. j.run \in Run /\ j.run = minted /\ (j.run \in Committed \/ Unrecorded(j.run))
  BY <1>2 DEF WorkFits, Drafting
<1>4. d \in Derivation /\ d.run = j.run /\ ~d.success
  BY <1>1, <1>3, RecordTyped
<1>5. FilesSound' /\ ledger' \in Log(Derivation)
  <2>1. CASE ledger' = ledger
    <3>1. UNCHANGED <<outputs, minted, view>>
      BY <2>1 DEF outputs
    <3> QED
      BY <1>2, <2>1, <3>1, QuietFiles DEF FilesTyped
  <2>2. ASSUME NEW r \in {d, Garbled}, NEW e \in BOOLEAN, ledger' = Put(ledger, r, e),
               j.run \notin Committed
        PROVE  FilesSound' /\ ledger' \in Log(Derivation)
    <3>1. Unrecorded(d.run) /\ d.run = minted
      BY <1>3, <1>4, <2>2
    <3> QED
      BY <1>2, <1>4, <2>2, <3>1, LedgerStep
  <2> QED
    BY <1>1, <2>1, <2>2
<1>6. "failing" \in LockedSteps /\ "release" \in Steps \cap LockedSteps /\ "idle" \in Steps
  BY DEF Steps, LockedSteps
<1>7. CASE Step(c, "failing", "release") /\ job' = job
  <2>1. WorkFits("release", j)'
    BY DEF WorkFits, Drafting
  <2>2. job' = [job EXCEPT ![c] = j] /\ pc' = [pc EXCEPT ![c] = "release"]
    BY <1>1, <1>7, Types DEF Step
  <2> QED
    BY <1>1, <1>5, <1>6, <2>1, <2>2, LedgerCommand
<1>8. CASE Dies(c, "failing")
  <2>1. WorkFits("idle", NoJob)'
    BY DEF WorkFits, Drafting
  <2>2. job' = [job EXCEPT ![c] = NoJob] /\ pc' = [pc EXCEPT ![c] = "idle"]
    BY <1>8 DEF Dies, Step, Local
  <2> QED
    BY <1>5, <1>6, <2>1, <2>2, Types, LedgerCommand
<1> QED
  BY <1>7, <1>8

-----------------------------------------------------------------------------
(* The index.                                                              *)

\* The index is exchanged for one that names a complete, committed generation.
LEMMA IndexStep ==
  ASSUME IInv, NEW c \in Command, NEW from \in LockedSteps, pc[c] = from,
         Step(c, from, "release"), NEW i, i \in Index, index' = i,
         i.run \in Committed \/ Malformed(ledger), i.run <= minted,
         Complete(i.run), i.people = People(content[i.run]),
         UNCHANGED <<lock, inputs, ledger, generations, minted, job, view, budget>>
  PROVE  IInv'
<1>1. PICK j \in Job : j = job[c]
  BY Types
<1>2. UNCHANGED <<lock, registry, signals, overrides, ledger, gens, files, content, minted, job,
                  view, edits, between, faults>>
  BY DEF inputs, generations, budget, history
<1>3. FilesTyped'
  BY <1>2, Types DEF FilesTyped
<1>4. /\ Committed' = Committed /\ Successes' = Successes /\ Whole(ledger)' = Whole(ledger)
      /\ Malformed(ledger)' = Malformed(ledger)
  BY <1>2 DEF Committed, Successes
<1>5. FilesSound'
  <2>1. RunsOrdered'
    BY <1>2, <1>4, Types DEF FilesSound, RunsOrdered
  <2>2. CommitsSound'
    BY <1>2, <1>4, Types DEF FilesSound, CommitsSound, Complete
  <2>3. IndexSound'
    BY <1>2, <1>4, Types DEF IndexSound, Complete
  <2>4. ViewsSound'
    BY <1>2, <1>4, Types DEF FilesSound, ViewsSound, Complete
  <2> QED
    BY <2>1, <2>2, <2>3, <2>4 DEF FilesSound
<1>6. WorkFits("release", j)'
  BY DEF WorkFits, Drafting
<1>7. "release" \in Steps \cap LockedSteps
  BY DEF Steps, LockedSteps
<1>8. pc' = [pc EXCEPT ![c] = "release"] /\ job' = [job EXCEPT ![c] = j]
  BY <1>1, <1>2, Types DEF Step
<1> QED
  BY <1>2, <1>3, <1>5, <1>6, <1>7, <1>8, CommandStep

LEMMA PublishIndexKeeps ==
  ASSUME IInv, NEW c \in Command, PublishIndex(c)
  PROVE  IInv'
<1>1. PICK i : i = [run |-> job[c].run, inputs |-> job[c].inputs,
                    people |-> People(content[job[c].run])]
  OBVIOUS
<1>2. WorkFits("index", job[c]) /\ pc[c] = "index" /\ minted \in Nat
  BY Types DEF PublishIndex, Step
<1>3. job[c].run \in Run /\ job[c].run = minted /\ job[c].inputs \in Inputs
      /\ Complete(job[c].run) /\ (job[c].run \in Committed \/ Malformed(ledger))
  BY <1>2 DEF WorkFits
<1>4. i \in Index
  BY <1>1, <1>3 DEF Index, People
<1>5. "index" \in LockedSteps
  BY DEF LockedSteps, Steps
<1> QED
  BY <1>1, <1>2, <1>3, <1>4, <1>5, IndexStep DEF PublishIndex

\* The latest commit is the commit with the highest run.
LEMMA LatestIs ==
  ASSUME ledger \in Log(Derivation), RunsOrdered, Successes # {}
  PROVE  \E i \in Successes : /\ Latest = ledger[i].record /\ Latest \in Derivation
                             /\ \A r \in Committed : r <= Latest.run
<1>1. Len(ledger) \in Nat /\ Successes \in SUBSET (1..Len(ledger))
  BY DEF Successes, Whole, Log
<1>2. \E i \in Successes : \A k \in Successes : k <= i
  BY <1>1, LastOf
<1>3. PICK i \in Successes : Latest = ledger[i].record /\ \A k \in Successes : k <= i
  BY <1>2 DEF Latest
<1>4. \A k \in Successes : k \in Whole(ledger) /\ ledger[k].record \in Derivation
  <2>1. ASSUME NEW k \in Successes PROVE k \in Whole(ledger) /\ ledger[k].record \in Derivation
    <3>1. k \in 1..Len(ledger) /\ ledger[k].record # Garbled /\ k \in Whole(ledger)
      BY DEF Successes, Whole
    <3>2. ledger[k] \in Line(Derivation)
      BY <3>1 DEF Log
    <3> QED
      BY <3>1, <3>2 DEF Line
  <2> QED
    BY <2>1
<1>5. ASSUME NEW r \in Committed PROVE r <= Latest.run
  <2>1. PICK k \in Successes : r = ledger[k].record.run
    BY DEF Committed
  <2>2. k <= i /\ k \in Nat /\ i \in Nat
    BY <1>1, <1>3
  <2>3. k < i => r < Latest.run
    BY <1>3, <1>4, <2>1 DEF RunsOrdered
  <2>4. r \in Nat /\ Latest.run \in Nat
    BY <1>3, <1>4, <2>1, PlaybookAssumption DEF Derivation, Run
  <2> QED
    BY <1>3, <2>1, <2>2, <2>3, <2>4
<1> QED
  BY <1>3, <1>4, <1>5

LEMMA RepairKeeps ==
  ASSUME IInv, NEW c \in Command, Repair(c)
  PROVE  IInv'
<1>1. pc[c] = "repair" /\ "repair" \in LockedSteps /\ "release" \in Steps \cap LockedSteps
  BY DEF Repair, Step, LockedSteps, Steps
<1>2. CASE index' = index
  <2>1. WorkFits("release", job[c])
    BY DEF WorkFits, Drafting
  <2>2. UNCHANGED <<outputs, minted, view>>
    BY <1>2 DEF Repair, outputs
  <2> QED
    BY <1>1, <2>1, <2>2, Types, QuietProceed DEF Repair, Step, inputs, budget, history
<1>3. CASE index' # index
  <2>1. PICK i : i = [run |-> Latest.run, inputs |-> Latest.inputs, people |-> Latest.people]
    OBVIOUS
  <2>2. Successes # {} /\ index' = i
    BY <1>3, <2>1 DEF Repair
  <2>3. PICK k \in Successes : Latest = ledger[k].record /\ Latest \in Derivation
    BY <2>2, Types, LatestIs DEF FilesTyped, FilesSound
  <2>4. i \in Index /\ i.run = Latest.run /\ i.people = Latest.people
    BY <2>1, <2>3 DEF Index, Derivation
  <2>5. Latest.run \in Committed /\ Latest.run <= minted
    BY <2>3, Types DEF Committed, Successes, FilesSound, RunsOrdered
  <2>6. Complete(Latest.run) /\ Latest.people = People(content[Latest.run])
    BY <2>3, Types DEF FilesSound, CommitsSound
  <2> QED
    BY <1>1, <2>2, <2>4, <2>5, <2>6, IndexStep DEF Repair
<1> QED
  BY <1>2, <1>3

-----------------------------------------------------------------------------
(* Cleanup.                                                                *)

LEMMA ListUncommittedKeeps ==
  ASSUME IInv, NEW c \in Command, ListUncommitted(c)
  PROVE  IInv'
<1>1. PICK to, todo : /\ to = IF Malformed(ledger) THEN "release" ELSE "remove"
                      /\ todo = IF Malformed(ledger) THEN {}
                                ELSE {r \in gens \ Committed : index # None => index.run # r}
  OBVIOUS
<1>2. PICK j : j = [job[c] EXCEPT !.todo = todo]
  OBVIOUS
<1>3. todo \subseteq gens \ Committed /\ todo \in SUBSET Run
  BY <1>1, Types DEF FilesTyped
<1>4. j \in Job /\ j.todo = todo
  BY <1>2, <1>3, Types DEF Job
<1>5. WorkFits(to, j)
  BY <1>1, <1>3, <1>4 DEF WorkFits, Drafting
<1>6. to \in Steps \cap LockedSteps /\ "list" \in LockedSteps
  BY <1>1 DEF Steps, LockedSteps
<1>7. pc[c] = "list" /\ pc' = [pc EXCEPT ![c] = to] /\ job' = [job EXCEPT ![c] = j]
  BY <1>1, <1>2 DEF ListUncommitted, Step, Local
<1> QED
  BY <1>4, <1>5, <1>6, <1>7, Types, QuietCommand DEF ListUncommitted, inputs, budget, history

\* A generation that is on the list loses files, or is gone.
LEMMA RemovalStep ==
  ASSUME IInv, NEW c \in Command, pc[c] = "remove", NEW r \in Run, r \in job[c].todo,
         NEW to \in {"remove", "release", "idle"}, NEW j \in Job,
         pc' = [pc EXCEPT ![c] = to], job' = [job EXCEPT ![c] = j],
         j.todo \subseteq job[c].todo, to = "remove" => j.todo \subseteq job[c].todo \ {r},
         gens' = gens \/ (gens' = gens \ {r} /\ files'[r] = {}),
         NEW kept \in SUBSET Member, files' = [files EXCEPT ![r] = kept],
         UNCHANGED <<lock, inputs, ledger, content, index, minted, view, edits, between>>,
         faults' \in Nat
  PROVE  IInv'
<1>1. WorkFits("remove", job[c]) /\ FilesTyped /\ FilesSound
  BY Types
<1>2. /\ ~Malformed(ledger) /\ job[c].todo \subseteq gens \ Committed
      /\ index # None => index.run \notin job[c].todo
  BY <1>1 DEF WorkFits
<1>3. r \in Run /\ r \in gens /\ r \notin Committed
  BY <1>1, <1>2 DEF FilesTyped
<1>4. UNCHANGED <<lock, registry, signals, overrides, ledger, content, index, minted, view, edits, between>>
  BY DEF inputs
<1>5. files' \in [Run -> SUBSET Member] /\ \A q \in Run \ {r} : files'[q] = files[q]
  BY <1>1, <1>3 DEF FilesTyped
<1>6. FilesTyped'
  BY <1>1, <1>4, <1>5 DEF FilesTyped
<1>7. /\ Committed' = Committed /\ Successes' = Successes /\ Whole(ledger)' = Whole(ledger)
      /\ Malformed(ledger)' = Malformed(ledger)
  BY <1>4 DEF Committed, Successes
<1>8. \A q : Complete(q) /\ q # r => Complete(q)'
  BY <1>1, <1>4, <1>5 DEF Complete, FilesTyped
<1>9. FilesSound'
  <2>1. RunsOrdered'
    BY <1>1, <1>3, <1>4, <1>5, <1>7 DEF FilesSound, RunsOrdered
  <2>2. CommitsSound'
    BY <1>1, <1>3, <1>4, <1>7, <1>8 DEF FilesSound, CommitsSound, Committed
  <2>3. IndexSound'
    BY <1>1, <1>2, <1>4, <1>7, <1>8 DEF FilesSound, IndexSound
  <2>4. ViewsSound'
    BY <1>1, <1>2, <1>3, <1>4, <1>7, <1>8 DEF FilesSound, ViewsSound
  <2> QED
    BY <2>1, <2>2, <2>3, <2>4 DEF FilesSound
<1>10. WorkFits(to, j)'
  BY <1>2, <1>4, <1>7 DEF WorkFits, Drafting
<1>11. "remove" \in LockedSteps /\ to \in Steps
  BY DEF LockedSteps, Steps
<1> QED
  BY <1>4, <1>6, <1>9, <1>10, <1>11, CommandStep

LEMMA RemoveNextKeeps ==
  ASSUME IInv, NEW c \in Command, NEW r \in Run, RemoveNext(c, r)
  PROVE  IInv'
<1>1. PICK j : j = [job[c] EXCEPT !.todo = @ \ {r}]
  OBVIOUS
<1>2. j \in Job /\ j.todo = job[c].todo \ {r}
  BY <1>1, Types DEF Job
<1>3. /\ pc[c] = "remove" /\ r \in job[c].todo /\ pc' = [pc EXCEPT ![c] = "remove"]
      /\ job' = [job EXCEPT ![c] = j] /\ gens' = gens \ {r} /\ files' = [files EXCEPT ![r] = {}]
      /\ UNCHANGED <<lock, inputs, ledger, content, index, minted, view, edits, between, faults>>
  BY <1>1, Types DEF RemoveNext, Local, budget, history
<1>4. files'[r] = {}
  BY <1>3, Types DEF FilesTyped
<1> QED
  BY <1>2, <1>3, <1>4, Types, RemovalStep

LEMMA RemoveErrorKeeps ==
  ASSUME IInv, NEW c \in Command, NEW r \in Run, RemoveError(c, r)
  PROVE  IInv'
<1>1. PICK kept \in SUBSET files[r] : files' = [files EXCEPT ![r] = kept]
  BY DEF RemoveError
<1>2. kept \in SUBSET Member
  BY <1>1, Types DEF FilesTyped
<1>3. /\ r \in job[c].todo /\ Stops(c, "remove", "release") /\ faults' \in Nat /\ gens' = gens
      /\ UNCHANGED <<lock, inputs, ledger, content, index, minted, view, edits, between>>
  BY Types DEF RemoveError, Fault, history
<1>4. CASE Step(c, "remove", "release") /\ UNCHANGED job
  <2>1. PICK j \in Job : j = job[c]
    BY Types
  <2>2. job' = [job EXCEPT ![c] = j] /\ pc[c] = "remove" /\ pc' = [pc EXCEPT ![c] = "release"]
    BY <1>4, <2>1, Types DEF Step
  <2>3. j.todo \subseteq job[c].todo
    BY <2>1
  <2>4. PICK to \in {"remove", "release", "idle"} : to = "release"
    OBVIOUS
  <2> QED
    BY <1>1, <1>2, <1>3, <2>2, <2>3, <2>4, RemovalStep
<1>5. CASE Dies(c, "remove")
  <2>1. NoJob \in Job /\ NoJob.todo \subseteq job[c].todo
    BY Types DEF NoJob
  <2>2. job' = [job EXCEPT ![c] = NoJob] /\ pc[c] = "remove" /\ pc' = [pc EXCEPT ![c] = "idle"]
    BY <1>5 DEF Dies, Step, Local
  <2>3. PICK to \in {"remove", "release", "idle"} : to = "idle"
    OBVIOUS
  <2> QED
    BY <1>1, <1>2, <1>3, <2>1, <2>2, <2>3, RemovalStep
<1> QED
  BY <1>3, <1>4, <1>5 DEF Stops

-----------------------------------------------------------------------------
(* Steps that write only reviews, or nothing.                              *)

\* The step "release" relies on nothing.
LEMMA ToRelease ==
  ASSUME NEW j
  PROVE  WorkFits("release", j) /\ "release" \in Steps \cap LockedSteps
  BY DEF WorkFits, Steps, LockedSteps, Drafting

LEMMA CleanupDoneKeeps ==
  ASSUME IInv, NEW c \in Command, CleanupDone(c)
  PROVE  IInv'
<1>1. "remove" \in LockedSteps
  BY DEF LockedSteps, Steps
<1> QED
  BY <1>1, ToRelease, Types, QuietProceed DEF CleanupDone, Step, inputs, budget, history

\* An event, whole or cut short.
LEMMA ReviewTyped ==
  ASSUME IInv, NEW c \in Command, pc[c] = "review",
         NEW r \in {EventOf(job[c].review), Garbled}, NEW e \in BOOLEAN
  PROVE  Put(overrides, r, e) \in Log(Event)
<1>1. job[c].review \in Review
  BY Types DEF WorkFits
<1>2. r \in Event \cup {Garbled} /\ overrides \in Log(Event)
  <2>1. PICK matched \in BOOLEAN :
          EventOf(job[c].review) = [review |-> job[c].review, matched |-> matched]
    BY Zenon DEF EventOf
  <2> QED
    BY <1>1, <2>1, Types DEF Event
<1>3. \A x \in Event \cup {Garbled} : Put(overrides, x, e) \in Log(Event)
  BY <1>2, PutTyped
<1> QED
  BY <1>2, <1>3

LEMMA ReviewKeeps ==
  ASSUME IInv, NEW c \in Command, AppendReview(c) \/ ReviewNoOp(c) \/ ReviewCutShort(c)
  PROVE  IInv'
<1>1. pc[c] = "review" /\ "review" \in LockedSteps
  BY DEF AppendReview, ReviewNoOp, ReviewCutShort, Stops, Dies, Step, LockedSteps, Steps
<1>2. CASE AppendReview(c)
  <2>1. overrides' \in Log(Event)
    BY <1>1, <1>2, ReviewTyped DEF AppendReview, Written
  <2> QED
    BY <1>1, <1>2, <2>1, ToRelease, Types, QuietProceed DEF AppendReview, Step, budget, history
<1>3. CASE ReviewNoOp(c)
  BY <1>1, <1>3, ToRelease, Types, QuietProceed DEF ReviewNoOp, Step, inputs, budget, history
<1>4. CASE ReviewCutShort(c)
  <2>1. overrides' \in Log(Event)
    BY <1>1, <1>4, ReviewTyped, Types DEF ReviewCutShort, CutShort
  <2>2. /\ faults' \in Nat /\ edits' \in Nat /\ between' \in [Run -> SUBSET Registry]
        /\ registry' \in Registry /\ signals' \subseteq Signal
        /\ UNCHANGED <<lock, outputs, minted, view>>
    BY <1>4, Types DEF ReviewCutShort, Fault, history
  <2>3. Dies(c, pc[c]) \/ (Step(c, "review", "release") /\ job' = job)
    BY <1>1, <1>4 DEF ReviewCutShort, Stops
  <2>4. CASE Dies(c, pc[c])
    BY <2>1, <2>2, <2>4, QuietDies
  <2>5. CASE Step(c, "review", "release") /\ job' = job
    BY <1>1, <2>1, <2>2, <2>5, ToRelease, QuietProceed DEF Step
  <2> QED
    BY <2>3, <2>4, <2>5
<1> QED
  BY <1>2, <1>3, <1>4

LEMMA KillKeeps ==
  ASSUME IInv, NEW c \in Command, Kill(c)
  PROVE  IInv'
<1>1. faults' \in Nat /\ edits' \in Nat /\ between' \in [Run -> SUBSET Registry]
      /\ UNCHANGED <<lock, inputs, outputs, minted, view>>
  BY Types DEF Kill, Fault, history
<1> QED
  BY <1>1, Types, QuietDies DEF Kill, inputs

LEMMA InterruptKeeps ==
  ASSUME IInv, NEW c \in Command, Interrupt(c)
  PROVE  IInv'
<1>1. pc[c] \in LockedSteps
  BY Types DEF Interrupt, Holding, LockedSteps
<1>2. faults' \in Nat /\ edits' \in Nat /\ between' \in [Run -> SUBSET Registry]
      /\ UNCHANGED <<lock, inputs, outputs, minted, view>>
  BY Types DEF Interrupt, Fault, history
<1> QED
  BY <1>1, <1>2, ToRelease, Types, QuietProceed DEF Interrupt, Step, inputs

LEMMA WriteErrorKeeps ==
  ASSUME IInv, NEW c \in Command, WriteError(c)
  PROVE  IInv'
<1>1. /\ faults' \in Nat /\ edits' \in Nat /\ between' \in [Run -> SUBSET Registry]
      /\ job' = job
      /\ UNCHANGED <<lock, inputs, outputs, minted, view>>
  BY Types DEF WriteError, Fault, history
<1>2. ASSUME NEW from \in {"derive", "write", "index"}, Step(c, from, "failing")
      PROVE  IInv'
  <2>1. WorkFits(from, job[c]) /\ pc[c] = from /\ pc' = [pc EXCEPT ![c] = "failing"]
    BY <1>2, Types DEF Step
  <2>2. WorkFits("failing", job[c])
    BY <2>1 DEF WorkFits, Drafting, Unpublished
  <2>3. from \in LockedSteps /\ "failing" \in Steps \cap LockedSteps
    BY DEF Steps, LockedSteps
  <2> QED
    BY <1>1, <2>1, <2>2, <2>3, Types, QuietProceed DEF inputs
<1>3. CASE Step(c, "repair", "release")
  <2>1. "repair" \in LockedSteps
    BY DEF Steps, LockedSteps
  <2> QED
    BY <1>1, <1>3, <2>1, ToRelease, Types, QuietProceed DEF Step, inputs
<1> QED
  BY <1>2, <1>3 DEF WriteError

-----------------------------------------------------------------------------
(* Readers and people.                                                     *)

\* A reader starts, from an index that is sound, or ends.
LEMMA ReaderKeeps ==
  ASSUME IInv, NEW d \in Reader, NEW v \in View \cup {None},
         UNCHANGED <<lock, inputs, outputs, minted, pc, job, budget>>,
         view' = [view EXCEPT ![d] = v],
         v # None => /\ index # None /\ v.run = index.run /\ v.person \in index.people
                     /\ ~v.missing
  PROVE  IInv'
<1>1. UNCHANGED <<lock, registry, signals, overrides, ledger, gens, files, content, index, minted,
                  pc, job, edits, between, faults>>
  BY DEF inputs, outputs, generations, budget, history
<1>2. /\ Committed' = Committed /\ Successes' = Successes /\ Whole(ledger)' = Whole(ledger)
      /\ Malformed(ledger)' = Malformed(ledger)
  BY <1>1 DEF Committed, Successes
<1>3. view' \in [Reader -> View \cup {None}] /\ view'[d] = v
      /\ \A b \in Reader \ {d} : view'[b] = view[b]
  BY Types DEF FilesTyped
<1>4. TypeOK' /\ OneHolder'
  BY <1>1, <1>3 DEF IInv, TypeOK, OneHolder
<1>5. RunsOrdered' /\ CommitsSound' /\ IndexSound'
  BY <1>1, <1>2 DEF IInv, RunsOrdered, CommitsSound, IndexSound, Complete
<1>6. ViewsSound'
  BY <1>1, <1>2, <1>3 DEF IInv, ViewsSound, IndexSound, RunsOrdered, Complete
<1>7. ASSUME NEW r, Unpublished(r) PROVE Unpublished(r)'
  BY <1>1, <1>2, <1>3, <1>7 DEF Unpublished, Unrecorded
<1>8. WorkSound'
  <2>1. ASSUME NEW b \in Command PROVE WorkFits(pc[b], job[b])'
    <3>1. WorkFits(pc[b], job[b])
      BY Types
    <3> QED
      BY <1>1, <1>2, <1>7, <3>1 DEF WorkFits, Unrecorded, Complete
  <2> QED
    BY <2>1 DEF WorkSound
<1> QED
  BY <1>4, <1>5, <1>6, <1>8 DEF IInv

LEMMA ReadingKeeps ==
  ASSUME IInv, NEW d \in Reader, Reading(d)
  PROVE  IInv'
<1>1. ASSUME NEW p \in Person, Open(d, p) PROVE IInv'
  <2>1. PICK v : v = [run |-> index.run, person |-> p, missing |-> FALSE]
    OBVIOUS
  <2>2. index # None /\ p \in index.people /\ index \in Index
    BY <1>1, Types DEF Open, FilesTyped
  <2>3. v \in View /\ v.run = index.run /\ v.person = p /\ ~v.missing
    BY <2>1, <2>2 DEF View, Index
  <2>4. view' = [view EXCEPT ![d] = v]
    BY <1>1, <2>1 DEF Open
  <2> QED
    BY <1>1, <2>2, <2>3, <2>4, ReaderKeeps DEF Open
<1>2. CASE ReadProfile(d)
  <2>1. view[d] # None /\ view[d] \in View
    BY <1>2, Types DEF ReadProfile, FilesTyped
  <2>2. /\ Complete(view[d].run) /\ view[d].person \in People(content[view[d].run])
    BY <2>1 DEF IInv, ViewsSound
  <2>3. view[d].run \in gens /\ view[d].person \in files[view[d].run]
    BY <2>2 DEF Complete, Members
  <2>4. view' = [view EXCEPT ![d] = None]
    BY <1>2, <2>3 DEF ReadProfile
  <2> QED
    BY <1>2, <2>4, ReaderKeeps DEF ReadProfile
<1> QED
  BY <1>1, <1>2 DEF Reading

\* Steps of nobody in particular.
LEMMA WorldKeeps ==
  ASSUME IInv, UNCHANGED <<outputs, minted, pc, job, view>>,
         \/ lock' = lock
         \/ lock' = None /\ \A c \in Command : pc[c] \notin LockedSteps,
         registry' \in Registry, signals' \subseteq Signal, overrides' \in Log(Event),
         edits' \in Nat, between' \in [Run -> SUBSET Registry], faults' \in Nat
  PROVE  IInv'
<1>1. UNCHANGED <<ledger, gens, files, content, index, minted, pc, job, view>>
  BY DEF outputs, generations
<1>2. FilesSound' /\ Committed' = Committed /\ Malformed(ledger)' = Malformed(ledger)
  BY Types, QuietFiles
<1>3. OneHolder' /\ TypeOK'
  BY <1>1 DEF IInv, OneHolder, TypeOK
<1>4. WorkSound'
  <2>1. ASSUME NEW b \in Command PROVE WorkFits(pc[b], job[b])'
    <3>1. WorkFits(pc[b], job[b])
      BY Types
    <3> QED
      BY <1>1, <1>2, <3>1 DEF WorkFits, Unpublished, Unrecorded, Complete
  <2> QED
    BY <2>1 DEF WorkSound
<1> QED
  BY <1>2, <1>3, <1>4 DEF IInv, FilesSound

LEMMA EnvironmentKeeps ==
  ASSUME IInv, \/ \E new \in Registry : EditRegistry(new)
               \/ \E src : Ingest(src)
               \/ RemoveLock
               \/ UNCHANGED vars
  PROVE  IInv'
<1>1. ASSUME NEW new \in Registry, EditRegistry(new) PROVE IInv'
  <2>1. between' \in [Run -> SUBSET Registry]
    BY <1>1, Types DEF EditRegistry, FilesTyped
  <2> QED
    BY <1>1, <2>1, Types, WorldKeeps DEF EditRegistry
<1>2. ASSUME NEW src, Ingest(src) PROVE IInv'
  BY <1>2, Types, WorldKeeps DEF Ingest, budget, history
<1>3. CASE RemoveLock
  <2>1. \A c \in Command : pc[c] \notin LockedSteps
    BY <1>3, Types DEF RemoveLock, IInv, OneHolder, TypeOK, Holding, LockedSteps
  <2> QED
    BY <1>3, <2>1, Types, WorldKeeps DEF RemoveLock, inputs, budget, history
<1>4. CASE UNCHANGED vars
  BY <1>4, Types, WorldKeeps DEF vars, inputs, budget, history
<1> QED
  BY <1>1, <1>2, <1>3, <1>4

-----------------------------------------------------------------------------
(* The invariant.                                                          *)

LEMMA ProgressKeeps ==
  ASSUME IInv, NEW c \in Command, Progress(c)
  PROVE  IInv'
<1>1. CASE Commit(c)
  <2>1. /\ pc[c] = "commit" /\ Step(c, "commit", "index") /\ job' = job /\ lock' = lock
        /\ UNCHANGED <<inputs, generations, index, minted, view, edits, between>> /\ faults' \in Nat
        /\ ledger' = Put(ledger, Record(c, TRUE), TRUE)
    BY <1>1, Types DEF Commit, Step, budget, history, Written
  <2>2. PICK to \in {"index", "failing"} : to = "index"
    OBVIOUS
  <2> QED
    BY <2>1, <2>2, CommitKeeps
<1>2. CASE RecordFailure(c)
  <2>1. /\ pc[c] = "failing" /\ Step(c, "failing", "release") /\ job' = job /\ lock' = lock
        /\ UNCHANGED <<inputs, generations, index, minted, view, edits, between>> /\ faults' \in Nat
    BY <1>2, Types DEF RecordFailure, Step, budget, history
  <2>2. \/ ledger' = ledger
        \/ job[c].run \notin Committed /\ ledger' = Put(ledger, Record(c, FALSE), TRUE)
    BY <1>2 DEF RecordFailure, Written
  <2> QED
    BY <2>1, <2>2, FailureKeeps
<1>3. CASE Update(c)
  BY <1>1, <1>2, <1>3, DiscoverKeeps, RegistryInvalidKeeps, DeriveKeeps, WriteMemberKeeps,
     PublishIndexKeeps DEF Update
<1>4. CASE Upkeep(c)
  BY <1>4, RepairKeeps, ListUncommittedKeeps, CleanupDoneKeeps, ReviewKeeps, RemoveNextKeeps
     DEF Upkeep
<1> QED
  BY <1>3, <1>4, AcquireKeeps, RefusedKeeps, ReleaseKeeps DEF Progress

LEMMA MishapKeeps ==
  ASSUME IInv, NEW c \in Command, Mishap(c)
  PROVE  IInv'
<1>1. CASE CommitCutShort(c)
  <2>1. /\ pc[c] = "commit" /\ ((Step(c, "commit", "failing") /\ job' = job) \/ Dies(c, "commit"))
        /\ lock' = lock /\ faults' \in Nat
        /\ UNCHANGED <<inputs, generations, index, minted, view, edits, between>>
    BY <1>1, Types DEF CommitCutShort, Stops, Dies, Step, Fault, history
  <2>2. \/ ledger' = ledger \/ ledger' = Put(ledger, Garbled, FALSE)
        \/ ledger' = Put(ledger, Record(c, TRUE), FALSE)
    BY <1>1 DEF CommitCutShort, CutShort
  <2>3. PICK to \in {"index", "failing"} : to = "failing"
    OBVIOUS
  <2> QED
    BY <2>1, <2>2, <2>3, CommitKeeps
<1>2. CASE FailureCutShort(c)
  <2>1. /\ pc[c] = "failing" /\ ((Step(c, "failing", "release") /\ job' = job) \/ Dies(c, "failing"))
        /\ lock' = lock /\ faults' \in Nat
        /\ UNCHANGED <<inputs, generations, index, minted, view, edits, between>>
        /\ job[c].run \notin Committed
    BY <1>2, Types DEF FailureCutShort, Stops, Dies, Step, Fault, history
  <2>2. \/ ledger' = ledger \/ ledger' = Put(ledger, Garbled, FALSE)
        \/ ledger' = Put(ledger, Record(c, FALSE), FALSE)
    BY <1>2 DEF FailureCutShort, CutShort
  <2> QED
    BY <2>1, <2>2, FailureKeeps
<1> QED
  BY <1>1, <1>2, KillKeeps, InterruptKeeps, WriteErrorKeeps, ReviewKeeps, RemoveErrorKeeps
     DEF Mishap

LEMMA Initially == Init => IInv
<1> SUFFICES ASSUME Init PROVE IInv
  OBVIOUS
<1>1. NoJob \in Job /\ Whole(ledger) = {} /\ Successes = {}
  BY DEF Init, NoJob, Job, Successes, Whole
<1>2. TypeOK
  <2>1. registry \in Registry /\ signals \subseteq Signal /\ overrides \in Log(Event)
        /\ ledger \in Log(Derivation)
    BY PlaybookAssumption DEF Init, Registry, Log
  <2>2. /\ index \in Index \cup {None} /\ minted \in 0..MaxRuns /\ gens \subseteq Run
        /\ files \in [Run -> SUBSET Member]
        /\ DOMAIN content = Run /\ \A r \in Run : DOMAIN content[r] = Person
    BY PlaybookAssumption DEF Init, NoPlaybook
  <2>3. /\ lock \in Command \cup {None} /\ pc \in [Command -> Steps] /\ job \in [Command -> Job]
        /\ view \in [Reader -> View \cup {None}] /\ edits \in Nat /\ faults \in Nat
        /\ between \in [Run -> SUBSET Registry]
    BY <1>1 DEF Init, Steps
  <2> QED
    BY <2>1, <2>2, <2>3 DEF TypeOK
<1>3. OneHolder /\ RunsOrdered /\ CommitsSound /\ IndexSound /\ ViewsSound
  BY <1>1 DEF Init, OneHolder, LockedSteps, RunsOrdered, CommitsSound, IndexSound, ViewsSound
<1>4. WorkSound
  BY DEF Init, WorkSound, WorkFits, Drafting
<1> QED
  BY <1>2, <1>3, <1>4 DEF IInv

LEMMA Inductive == IInv /\ [Next]_vars => IInv'
<1> SUFFICES ASSUME IInv, [Next]_vars PROVE IInv'
  OBVIOUS
<1>1. ASSUME NEW c \in Command, Begin(c) \/ Progress(c) \/ Mishap(c) PROVE IInv'
  BY <1>1, BeginKeeps, ProgressKeeps, MishapKeeps
<1>2. ASSUME NEW d \in Reader, Reading(d) PROVE IInv'
  BY <1>2, ReadingKeeps
<1> QED
  BY <1>1, <1>2, EnvironmentKeeps DEF Next

\* The invariant holds in every state.
THEOREM InvariantHolds == Spec => []IInv
  BY Initially, Inductive, PTL DEF Spec

\* Files, ledgers and the variables of commands always have their types.
THEOREM TypeCorrect == Spec => []TypeOK
<1>1. IInv => TypeOK
  BY DEF IInv
<1> QED
  BY <1>1, InvariantHolds, PTL

\* The index names a committed generation as long as the ledger is whole.
THEOREM IndexIsCommitted == Spec => []IndexCommitted
<1>1. IInv => IndexCommitted
  BY DEF IInv, IndexSound, IndexCommitted
<1> QED
  BY <1>1, InvariantHolds, PTL

\* No run has two outcomes in the ledger.
THEOREM OneOutcomeHolds == Spec => []OneOutcome
<1>1. IInv => OneOutcome
  <2> SUFFICES ASSUME IInv, NEW i \in Whole(ledger), NEW j \in Whole(ledger), i # j
               PROVE  ledger[i].record.run # ledger[j].record.run
    BY DEF OneOutcome
  <2>1. i \in Nat /\ j \in Nat
    BY DEF Whole
  <2>2. ledger[i].record.run \in Nat /\ ledger[j].record.run \in Nat
    <3>1. ASSUME NEW k \in Whole(ledger) PROVE ledger[k].record.run \in Nat
      <4>1. k \in 1..Len(ledger) /\ ledger[k].record # Garbled /\ ledger \in Log(Derivation)
        BY Types DEF Whole, FilesTyped
      <4>2. ledger[k] \in Line(Derivation)
        BY <4>1 DEF Log
      <4> QED
        BY <4>1, <4>2, PlaybookAssumption DEF Line, Derivation, Run
    <3> QED
      BY <3>1
  <2> QED
    BY <2>1, <2>2 DEF IInv, RunsOrdered
<1> QED
  BY <1>1, InvariantHolds, PTL

\* Whatever runs while somebody reads, the profile that was looked up is found.
THEOREM ReadersAreServed == Spec => []ReadersServed
<1>1. IInv => ReadersServed
  BY DEF IInv, ViewsSound, ReadersServed
<1> QED
  BY <1>1, InvariantHolds, PTL

-----------------------------------------------------------------------------
(***************************************************************************)
(* What a step never does to a playbook that somebody may read, and the    *)
(* refinement of PlaybookPromise, from the invariant of PlaybookProofs.    *)
(***************************************************************************)

\* The ledger, the index or a reader names run r.
Named(r) ==
  \/ r \in Committed
  \/ index # None /\ index.run = r
  \/ \E d \in Reader : view[d] # None /\ view[d].run = r

LEMMA NamedComplete ==
  ASSUME IInv, NEW r, Named(r)
  PROVE  Complete(r) /\ r \in Run
<1>1. Complete(r)
  BY DEF Named, IInv, CommitsSound, IndexSound, ViewsSound, Committed
<1> QED
  BY <1>1 DEF Complete, IInv, TypeOK

\* A draft has no name yet, and neither has a generation that cleanup removes.
LEMMA DraftUnnamed ==
  ASSUME IInv, NEW c \in Command, pc[c] \in Drafting
  PROVE  job[c].run \in Run /\ ~Named(job[c].run)
<1>1. WorkFits(pc[c], job[c])
  BY Types
<1>2. job[c].run \in Run /\ Unpublished(job[c].run)
  BY <1>1 DEF WorkFits
<1> QED
  BY <1>2 DEF Unpublished, Unrecorded, Named, Committed, Successes

LEMMA ListedUnnamed ==
  ASSUME IInv, NEW c \in Command, pc[c] = "remove", NEW r \in job[c].todo
  PROVE  ~Named(r)
<1>1. WorkFits("remove", job[c])
  BY Types
<1> QED
  BY <1>1 DEF WorkFits, Named, IInv, ViewsSound

\* What the ledger, the index or a reader names is complete and is not touched.
LEMMA NamedKept ==
  ASSUME IInv, Next, NEW r, Named(r)
  PROVE  Complete(r) /\ r \in gens' /\ files'[r] = files[r] /\ content'[r] = content[r]
<1>1. Complete(r) /\ r \in Run /\ r \in gens
  BY NamedComplete DEF Complete
<1>2. CASE UNCHANGED generations
  BY <1>1, <1>2 DEF generations
<1>3. ASSUME NEW c \in Command, Derive(c) \/ \E m \in Member : WriteMember(c, m)
      PROVE  r \in gens' /\ files'[r] = files[r] /\ content'[r] = content[r]
  <2>1. job[c].run \in Run /\ r # job[c].run
    BY <1>3, DraftUnnamed DEF Derive, WriteMember, Step, Drafting
  <2>2. CASE Derive(c)
    BY <1>1, <2>1, <2>2, Types DEF Derive, FilesTyped
  <2>3. ASSUME NEW m \in Member, WriteMember(c, m)
        PROVE  r \in gens' /\ files'[r] = files[r] /\ content'[r] = content[r]
    BY <1>1, <2>1, <2>3, Types DEF WriteMember, FilesTyped
  <2> QED
    BY <1>3, <2>2, <2>3
<1>4. ASSUME NEW c \in Command, NEW q \in Run, RemoveNext(c, q) \/ RemoveError(c, q)
      PROVE  r \in gens' /\ files'[r] = files[r] /\ content'[r] = content[r]
  <2>1. pc[c] = "remove" /\ q \in job[c].todo
    BY <1>4 DEF RemoveNext, RemoveError, Stops, Dies, Step
  <2>2. r # q
    BY <2>1, ListedUnnamed
  <2> QED
    BY <1>1, <1>4, <2>2, Types DEF RemoveNext, RemoveError, FilesTyped
<1>5. ASSUME NEW c \in Command, Begin(c) \/ Progress(c) \/ Mishap(c)
      PROVE  r \in gens' /\ files'[r] = files[r] /\ content'[r] = content[r]
  <2>1. CASE Begin(c)
    BY <1>2, <2>1 DEF Begin, StartUpdate, StartRepair, StartCleanup, StartReview, Start, outputs
  <2>2. CASE Progress(c)
    BY <1>2, <1>3, <1>4, <2>2 DEF Progress, Acquire, Refused, Release, Update, Upkeep, Discover,
       RegistryInvalid, Commit, PublishIndex, RecordFailure, Repair, ListUncommitted, CleanupDone,
       AppendReview, ReviewNoOp, outputs
  <2>3. CASE Mishap(c)
    BY <1>2, <1>4, <2>3 DEF Mishap, Kill, Interrupt, WriteError, CommitCutShort, FailureCutShort,
       ReviewCutShort, outputs
  <2> QED
    BY <1>5, <2>1, <2>2, <2>3
<1>6. ASSUME \/ \E d \in Reader : Reading(d)
             \/ \E new \in Registry : EditRegistry(new)
             \/ \E src \in {Source[s] : s \in Signal} : Ingest(src)
             \/ RemoveLock
      PROVE  r \in gens' /\ files'[r] = files[r] /\ content'[r] = content[r]
  BY <1>2, <1>6 DEF Reading, Open, ReadProfile, EditRegistry, Ingest, RemoveLock, outputs
<1> QED
  BY <1>1, <1>5, <1>6 DEF Next

\* A committed generation is complete, stays, and keeps what it says.
THEOREM CommittedIsKept == Spec => CommittedKept
<1>1. IInv /\ [Next]_vars =>
        [\A r \in Committed : Complete(r) /\ r \in gens' /\ files'[r] = files[r]
                             /\ content'[r] = content[r]]_outputs
  <2> SUFFICES ASSUME IInv, Next, NEW r \in Committed
               PROVE  Complete(r) /\ r \in gens' /\ files'[r] = files[r] /\ content'[r] = content[r]
    BY DEF vars
  <2> QED
    BY NamedKept DEF Named
<1> QED
  BY <1>1, InvariantHolds, PTL DEF Spec, CommittedKept

\* Who writes the index, and what.
LEMMA IndexWritten ==
  ASSUME IInv, Next, index' # index
  PROVE  /\ index' # None /\ UNCHANGED view
         /\ \E c \in Command :
              \/ WorkFits("index", job[c]) /\ index'.run = job[c].run
              \/ Successes # {} /\ index'.run = Latest.run
<1>1. PICK c \in Command : PublishIndex(c) \/ Repair(c)
  <2>1. \A d \in Reader : ~Reading(d)
    BY DEF Reading, Open, ReadProfile, outputs
  <2>2. /\ \A new \in Registry : ~EditRegistry(new)
        /\ \A src \in {Source[s] : s \in Signal} : ~Ingest(src)
        /\ ~RemoveLock
    BY DEF EditRegistry, Ingest, RemoveLock, outputs
  <2>3. PICK c \in Command : Begin(c) \/ Progress(c) \/ Mishap(c)
    BY <2>1, <2>2 DEF Next
  <2>4. ~Begin(c)
    BY DEF Begin, StartUpdate, StartRepair, StartCleanup, StartReview, Start, outputs
  <2>5. ~Mishap(c)
    BY DEF Mishap, Kill, Interrupt, WriteError, RemoveError, CommitCutShort, FailureCutShort,
       ReviewCutShort, outputs
  <2>6. CASE Progress(c)
    BY <2>6 DEF Progress, Acquire, Refused, Release, Update, Upkeep, Discover, RegistryInvalid,
       Derive, WriteMember, Commit, RecordFailure, ListUncommitted, RemoveNext, CleanupDone,
       AppendReview, ReviewNoOp, outputs
  <2> QED
    BY <2>3, <2>4, <2>5, <2>6
<1>2. CASE PublishIndex(c)
  <2>1. WorkFits("index", job[c]) /\ index'.run = job[c].run /\ UNCHANGED view
    BY <1>2, Types DEF PublishIndex, Step
  <2>2. index' \in Index
    BY <1>2, <2>1 DEF PublishIndex, WorkFits, Index, People
  <2> QED
    BY <2>1, <2>2, NoneNotAValue
<1>3. CASE Repair(c)
  <2>1. /\ Successes # {} /\ UNCHANGED view
        /\ index' = [run |-> Latest.run, inputs |-> Latest.inputs, people |-> Latest.people]
    BY <1>3 DEF Repair
  <2>2. Latest \in Derivation
    BY <2>1, Types, LatestIs DEF FilesTyped, FilesSound
  <2>3. index' \in Index /\ index'.run = Latest.run
    BY <2>1, <2>2 DEF Index, Derivation
  <2> QED
    BY <2>1, <2>3, NoneNotAValue
<1> QED
  BY <1>1, <1>2, <1>3

\* The index never goes back while the ledger is whole.
THEOREM IndexMovesForward == Spec => IndexForward
<1>1. IInv /\ [Next]_vars =>
        [index # None /\ ~Malformed(ledger) => index' # None /\ index'.run >= index.run]_index
  <2> SUFFICES ASSUME IInv, Next, index' # index, index # None, ~Malformed(ledger)
               PROVE  index' # None /\ index'.run >= index.run
    BY DEF vars, outputs
  <2>1. index.run \in Run /\ index.run <= minted /\ index.run \in Committed
    BY DEF IInv, TypeOK, Index, IndexSound, RunsOrdered
  <2>2. index' # None
    BY IndexWritten
  <2>3. ASSUME NEW c \in Command, WorkFits("index", job[c]), index'.run = job[c].run
        PROVE  index'.run >= index.run
    <3>1. index'.run = minted /\ minted \in Nat
      BY <2>3, Types DEF WorkFits
    <3> QED
      BY <2>1, <3>1, PlaybookAssumption DEF Run
  <2>4. ASSUME Successes # {}, index'.run = Latest.run
        PROVE  index'.run >= index.run
    <3>1. index.run <= Latest.run /\ Latest \in Derivation
      BY <2>1, <2>4, Types, LatestIs DEF FilesTyped, FilesSound
    <3> QED
      BY <2>1, <2>4, <3>1, PlaybookAssumption DEF Run, Derivation
  <2> QED
    BY <2>2, <2>3, <2>4, IndexWritten
<1> QED
  BY <1>1, InvariantHolds, PTL DEF Spec, IndexForward

-----------------------------------------------------------------------------
(* Refinement.                                                             *)

\* The playbooks that readers and index name go on to show what they show.
LEMMA ShownKept ==
  ASSUME IInv, Next, NEW r, Named(r), IInv'
  PROVE  Shown(r)' = Shown(r)
<1>1. Complete(r) /\ r \in gens' /\ files'[r] = files[r] /\ content'[r] = content[r]
  BY NamedKept
<1>2. Complete(r)'
  BY <1>1 DEF Complete
<1> QED
  BY <1>1, <1>2 DEF Shown

\* A step of a reader: nothing but its view changes.
LEMMA ReadingRefines ==
  ASSUME IInv, IInv', Next, NEW d \in Reader, Reading(d)
  PROVE  Promise!Look(d) \/ Promise!Leave(d)
<1>1. UNCHANGED <<gens, files, content, index>>
  BY DEF Reading, Open, ReadProfile, outputs, generations
<1>2. \A x : Book(x)' = Book(x)
  BY <1>1 DEF Book, Shown, Complete
<1>3. view \in [Reader -> View \cup {None}] /\ view' \in [Reader -> View \cup {None}]
  BY DEF IInv, TypeOK
<1>4. ASSUME NEW v, view' = [view EXCEPT ![d] = v]
      PROVE  [e \in Reader |-> Book(view[e])]'
             = [[e \in Reader |-> Book(view[e])] EXCEPT ![d] = Book(v)]
  BY <1>1, <1>3, <1>4 DEF Book, Shown, Complete
<1>5. ASSUME NEW p \in Person, Open(d, p) PROVE Promise!Look(d)
  <2>1. PICK v : v = [run |-> index.run, person |-> p, missing |-> FALSE]
    OBVIOUS
  <2>2. index # None /\ view[d] = None /\ view' = [view EXCEPT ![d] = v] /\ index \in Index
    BY <1>5, <2>1, Types DEF Open, FilesTyped
  <2>3. v \in View /\ v.run = index.run
    BY <2>1, <2>2 DEF View, Index
  <2>4. v # None
    BY <2>3, NoneNotAValue
  <2>5. Book(v) = Book(index) /\ Book(index) # <<>> /\ Book(view[d]) = <<>>
    BY <2>2, <2>3, <2>4 DEF Book
  <2>6. Book(index)' = Book(index)
    BY <1>1 DEF Book, Shown, Complete
  <2> QED
    BY <1>4, <2>2, <2>5, <2>6 DEF Promise!Look
<1>6. CASE ReadProfile(d)
  <2>1. view[d] # None
    BY <1>6 DEF ReadProfile
  <2>2. view[d].run \in gens /\ view[d].person \in files[view[d].run]
    BY <2>1 DEF IInv, ViewsSound, Complete, Members
  <2>3. view' = [view EXCEPT ![d] = None]
    BY <1>6, <2>2 DEF ReadProfile
  <2>4. Book(view[d]) # <<>> /\ Book(None) = <<>>
    BY <2>1 DEF Book
  <2>5. Book(index)' = Book(index)
    BY <1>1 DEF Book, Shown, Complete
  <2> QED
    BY <1>4, <2>3, <2>4, <2>5 DEF Promise!Leave
<1> QED
  BY <1>5, <1>6 DEF Reading

\* Every other step publishes a playbook or is not seen from outside.
LEMMA OtherRefines ==
  ASSUME IInv, IInv', Next, UNCHANGED view
  PROVE  Promise!Publish \/ UNCHANGED Promise!vars
<1>1. ASSUME NEW d \in Reader PROVE Book(view[d])' = Book(view[d])
  <2>1. CASE view[d] = None
    BY <2>1 DEF Book
  <2>2. ASSUME NEW r, view[d] # None, r = view[d].run PROVE Book(view[d])' = Book(view[d])
    <3>1. Shown(r)' = Shown(r)
      BY <2>2, ShownKept DEF Named
    <3>2. view'[d].run = r /\ view'[d] # None
      BY <2>2
    <3> QED
      BY <2>2, <3>1, <3>2 DEF Book, Shown, Complete
  <2> QED
    BY <2>1, <2>2
<1>2. [d \in Reader |-> Book(view[d])]' = [d \in Reader |-> Book(view[d])]
  BY <1>1
<1>3. CASE index' = index
  <2>1. Book(index)' = Book(index)
    <3>1. CASE index = None
      BY <1>3, <3>1 DEF Book
    <3>2. ASSUME NEW r, index # None, r = index.run PROVE Book(index)' = Book(index)
      <4>1. Shown(r)' = Shown(r)
        BY <3>2, ShownKept DEF Named
      <4> QED
        BY <1>3, <3>2, <4>1 DEF Book, Shown, Complete
    <3> QED
      BY <3>1, <3>2
  <2> QED
    BY <1>2, <2>1 DEF Promise!vars
<1>4. CASE index' # index
  <2>1. index' # None
    BY <1>4, IndexWritten
  <2>2. Complete(index.run)' /\ index'.run \in Run /\ DOMAIN content'[index'.run] = Person
    BY <2>1 DEF IInv, IndexSound, TypeOK, Index
  <2>3. Book(index)' = <<content'[index'.run]>>
    BY <2>1, <2>2 DEF Book, Shown
  <2>4. Book(index)' # <<>> /\ DOMAIN Book(index)'[1] = Person
    BY <2>2, <2>3
  <2> QED
    BY <1>2, <2>4 DEF Promise!Publish
<1> QED
  BY <1>3, <1>4

\* The playbook commands refine the promise to their readers.
THEOREM PlaybookRefines == Spec => PromiseKept
<1>1. Init => Promise!Init
  BY DEF Init, Promise!Init, Book
<1>2. IInv /\ IInv' /\ [Next]_vars => [Promise!Next]_(Promise!vars)
  <2> SUFFICES ASSUME IInv, IInv', [Next]_vars PROVE [Promise!Next]_(Promise!vars)
    OBVIOUS
  <2>1. CASE UNCHANGED vars
    <3>1. UNCHANGED <<gens, files, content, index, view>>
      BY <2>1 DEF vars, outputs, generations
    <3> QED
      BY <3>1 DEF Promise!vars, Book, Shown, Complete
  <2>2. ASSUME Next, NEW d \in Reader, Reading(d) PROVE Promise!Next
    BY <2>2, ReadingRefines DEF Promise!Next
  <2>3. CASE Next /\ \A d \in Reader : ~Reading(d)
    <3>1. UNCHANGED view
      <4>1. ASSUME NEW c \in Command, Begin(c) \/ Progress(c) \/ Mishap(c) PROVE UNCHANGED view
        <5>1. CASE Begin(c)
          BY <5>1 DEF Begin, StartUpdate, StartRepair, StartCleanup, StartReview, Start
        <5>2. CASE Progress(c)
          BY <5>2 DEF Progress, Acquire, Refused, Release, Update, Upkeep, Discover,
             RegistryInvalid, Derive, WriteMember, Commit, PublishIndex, RecordFailure, Repair,
             ListUncommitted, RemoveNext, CleanupDone, AppendReview, ReviewNoOp
        <5>3. CASE Mishap(c)
          BY <5>3 DEF Mishap, Kill, Interrupt, WriteError, RemoveError, CommitCutShort,
             FailureCutShort, ReviewCutShort
        <5> QED
          BY <4>1, <5>1, <5>2, <5>3
      <4> QED
        BY <2>3, <4>1 DEF Next, EditRegistry, Ingest, RemoveLock
    <3> QED
      BY <2>3, <3>1, OtherRefines DEF Promise!Next
  <2> QED
    BY <2>1, <2>2, <2>3
<1> QED
  BY <1>1, <1>2, InvariantHolds, PTL DEF Spec, PromiseKept, Promise!Spec

-----------------------------------------------------------------------------
(* Folding forwards is reading backwards: what read_review_state computes  *)
(* line by line is what the last decision of each kind says.               *)

Entries == {"reject_entry", "restore_entry"}
Items == {"resolve_tracked_item"}
Suppression == {"suppress_signal", "unsuppress_signal"}

State == [entry : [Signal -> {"unreviewed", "rejected", "restored"}],
          resolution : [Signal -> Resolution \cup {None}],
          suppressed : SUBSET Signal, matched : SUBSET Signal]

\* What the state shows of a signal, when these were the last decisions.
EntrySays(state, s, d) ==
  state.entry[s] = IF d = None THEN "unreviewed"
                   ELSE IF d.action = "reject_entry" THEN "rejected" ELSE "restored"

ResolutionSays(state, s, d) == state.resolution[s] = IF d = None THEN None ELSE d.state

SuppressionSays(state, s, d) ==
  s \in state.suppressed <=> (d # None /\ d.action = "suppress_signal")

Agrees(state, log) ==
  /\ state \in State
  /\ \A s \in Signal : /\ EntrySays(state, s, Decided(log, s, Entries))
                       /\ ResolutionSays(state, s, Decided(log, s, Items))
                       /\ SuppressionSays(state, s, Decided(log, s, Suppression))

\* read_review_state, as a recursion along the lines.
Folding == INSTANCE FoldTheorems WITH Op <- ReadReview, Base <- NoReviews, Holds <- Agrees

LEMMA ReviewsAreFolded == \A log : Reviews(log) = Folding!Fold(log)
  BY DEF Reviews, Folding!Fold

\* The last decision is there as soon as there is one.
LEMMA DecidedIsLast ==
  ASSUME NEW log \in Log(Event), NEW s, NEW actions, On(log, s, actions) # {}
  PROVE  \E i \in On(log, s, actions) :
           /\ \A j \in On(log, s, actions) : j <= i
           /\ Decided(log, s, actions) = log[i].record.review
<1> DEFINE on == On(log, s, actions)
<1>1. on \in SUBSET (1..Len(log)) /\ on # {} /\ Len(log) \in Nat
  BY DEF On, Whole, Log
<1>2. \E i \in on : \A j \in on : j <= i
  <2> HIDE DEF on
  <2> QED
    BY <1>1, LastOf
<1> QED
  BY <1>2 DEF Decided

\* A line that decides the same replaces the last decision, another does not.
LEMMA DecidedAppend ==
  ASSUME NEW log \in Log(Event), NEW line \in Line(Event), NEW s, NEW actions
  PROVE  Decided(Append(log, line), s, actions) =
           IF /\ line.record # Garbled
              /\ line.record.review.target = s /\ line.record.review.action \in actions
             THEN line.record.review ELSE Decided(log, s, actions)
<1> DEFINE new == Append(log, line)
           n == Len(log) + 1
           fits == /\ line.record # Garbled
                   /\ line.record.review.target = s /\ line.record.review.action \in actions
<1>1. /\ Len(new) = n /\ Len(log) \in Nat /\ new[n] = line
      /\ \A i \in 1..Len(log) : new[i] = log[i]
  BY DEF Log
<1> HIDE DEF new
<1>2. On(new, s, actions) = On(log, s, actions) \cup (IF fits THEN {n} ELSE {})
  <2>1. ASSUME NEW i \in 1..Len(log) PROVE i \in On(new, s, actions) <=> i \in On(log, s, actions)
    BY <1>1, <2>1 DEF On, Whole
  <2>2. n \in On(new, s, actions) <=> fits
    BY <1>1 DEF On, Whole
  <2>3. On(new, s, actions) \subseteq 1..n /\ On(log, s, actions) \subseteq 1..Len(log)
    BY <1>1 DEF On, Whole
  <2>4. \A i \in 1..n : i \in 1..Len(log) \/ i = n
    BY <1>1
  <2> HIDE DEF fits, n
  <2> QED
    BY <2>1, <2>2, <2>3, <2>4
<1>3. CASE fits
  <2>1. n \in On(new, s, actions) /\ \A j \in On(new, s, actions) : j <= n
    BY <1>1, <1>2, <1>3 DEF On, Whole
  <2>2. \A i \in On(new, s, actions) : (\A j \in On(new, s, actions) : j <= i) => i = n
    BY <1>1, <2>1 DEF On, Whole
  <2>3. (CHOOSE i \in On(new, s, actions) : \A j \in On(new, s, actions) : j <= i) = n
    <3> HIDE DEF n
    <3> QED
      BY <2>1, <2>2
  <2>4. Decided(new, s, actions) = new[n].record.review
    BY <2>1, <2>3 DEF Decided
  <2> QED
    BY <1>1, <1>3, <2>4 DEF new
<1>4. CASE ~fits
  <2>1. On(new, s, actions) = On(log, s, actions)
    BY <1>2, <1>4
  <2>2. CASE On(log, s, actions) = {}
    <3>1. Decided(new, s, actions) = Decided(log, s, actions)
      BY <2>1, <2>2 DEF Decided
    <3> QED
      BY <1>4, <3>1 DEF new
  <2>3. CASE On(log, s, actions) # {}
    <3> DEFINE last == CHOOSE i \in On(log, s, actions) : \A j \in On(log, s, actions) : j <= i
    <3>1. last \in 1..Len(log)
      <4>1. \E i \in On(log, s, actions) : \A j \in On(log, s, actions) : j <= i
        BY <2>3, DecidedIsLast
      <4> QED
        BY <4>1 DEF On, Whole
    <3>2. Decided(new, s, actions) = new[last].record.review
          /\ Decided(log, s, actions) = log[last].record.review
      BY <2>1, <2>3 DEF Decided
    <3> HIDE DEF last, fits
    <3> QED
      BY <1>1, <1>4, <3>1, <3>2 DEF new, fits
  <2> QED
    BY <2>2, <2>3
<1> QED
  BY <1>3, <1>4

\* One event, by the kind of its decision.
LEMMA FoldTyped ==
  ASSUME NEW state \in State, NEW event \in Event
  PROVE  /\ Fold(state, event) \in State
         /\ \A s \in Signal :
              LET r == event.review
                  new == Fold(state, event)
              IN
              /\ new.entry[s] = IF r.target = s /\ r.action \in Entries
                                  THEN IF r.action = "reject_entry" THEN "rejected" ELSE "restored"
                                  ELSE state.entry[s]
              /\ new.resolution[s] = IF r.target = s /\ r.action \in Items
                                       THEN r.state ELSE state.resolution[s]
              /\ s \in new.suppressed <=> IF r.target = s /\ r.action \in Suppression
                                            THEN r.action = "suppress_signal"
                                            ELSE s \in state.suppressed
<1> DEFINE r == event.review
           new == Fold(state, event)
<1>1. r \in Review /\ r.action \in Action /\ r.target \in Signal /\ r.state \in Resolution \cup {None}
  BY DEF Event, Review
<1>2. /\ state.entry \in [Signal -> {"unreviewed", "rejected", "restored"}]
      /\ state.resolution \in [Signal -> Resolution \cup {None}]
      /\ state.suppressed \subseteq Signal /\ state.matched \subseteq Signal
  BY DEF State
<1>3. CASE r.action = "reject_entry"
  <2>1. new = [state EXCEPT !.entry[r.target] = "rejected"]
    BY <1>3 DEF Fold
  <2> HIDE DEF new, r
  <2> QED
    BY <1>1, <1>2, <1>3, <2>1 DEF State, Entries, Items, Suppression, new, r
<1>4. CASE r.action = "restore_entry"
  <2>1. new = [state EXCEPT !.entry[r.target] = "restored"]
    BY <1>4 DEF Fold
  <2> HIDE DEF new, r
  <2> QED
    BY <1>1, <1>2, <1>4, <2>1 DEF State, Entries, Items, Suppression, new, r
<1>5. CASE r.action = "resolve_tracked_item"
  <2>1. new = [state EXCEPT !.resolution[r.target] = r.state]
    BY <1>5 DEF Fold
  <2> HIDE DEF new, r
  <2> QED
    BY <1>1, <1>2, <1>5, <2>1 DEF State, Entries, Items, Suppression, new, r
<1>6. CASE r.action = "suppress_signal"
  <2>1. new = [state EXCEPT !.suppressed = @ \cup {r.target},
                            !.matched = IF event.matched THEN @ \cup {r.target} ELSE @]
    BY <1>6 DEF Fold
  <2> HIDE DEF new, r
  <2>2. /\ new.entry = state.entry /\ new.resolution = state.resolution
        /\ new.suppressed = state.suppressed \cup {r.target}
    BY <1>2, <2>1 DEF State
  <2>3. new.suppressed \subseteq Signal
    BY <1>1, <1>2, <2>2
  <2>4. new.matched \subseteq Signal
    BY <1>1, <1>2, <2>1 DEF State
  <2>5. new \in State
    BY <1>2, <2>1, <2>3, <2>4 DEF State
  <2>6. r.action \notin Entries /\ r.action \notin Items /\ r.action \in Suppression
    BY <1>6 DEF Entries, Items, Suppression
  <2>7. ASSUME NEW s \in Signal
        PROVE  s \in new.suppressed <=>
                 IF r.target = s THEN r.action = "suppress_signal" ELSE s \in state.suppressed
    BY <1>6, <2>2
  <2> QED
    BY <2>2, <2>5, <2>6, <2>7 DEF new, r
<1>7. CASE r.action = "unsuppress_signal"
  <2>1. new = [state EXCEPT !.suppressed = @ \ {r.target}, !.matched = @ \ {r.target}]
    BY <1>7 DEF Fold
  <2> HIDE DEF new, r
  <2>2. /\ new.entry = state.entry /\ new.resolution = state.resolution
        /\ new.suppressed = state.suppressed \ {r.target}
    BY <1>2, <2>1 DEF State
  <2>3. new.suppressed \subseteq Signal
    BY <1>1, <1>2, <2>2
  <2>4. new.matched \subseteq Signal
    BY <1>1, <1>2, <2>1 DEF State
  <2>5. new \in State
    BY <1>2, <2>1, <2>3, <2>4 DEF State
  <2>6. r.action \notin Entries /\ r.action \notin Items /\ r.action \in Suppression
    BY <1>7 DEF Entries, Items, Suppression
  <2>7. ASSUME NEW s \in Signal
        PROVE  s \in new.suppressed <=>
                 IF r.target = s THEN r.action = "suppress_signal" ELSE s \in state.suppressed
    BY <1>7, <2>2
  <2> QED
    BY <2>2, <2>5, <2>6, <2>7 DEF new, r
<1> QED
  BY <1>1, <1>3, <1>4, <1>5, <1>6, <1>7 DEF Action

\* One line more.
LEMMA AgreesAppend ==
  ASSUME NEW log \in Log(Event), NEW line \in Line(Event), NEW state, Agrees(state, log)
  PROVE  Agrees(ReadReview(state, line), Append(log, line))
<1> DEFINE new == ReadReview(state, line)
           longer == Append(log, line)
           r == line.record.review
<1>1. state \in State
  BY DEF Agrees
<1>2. CASE line.record = Garbled
  <2>1. new = state
    BY <1>2 DEF ReadReview
  <2>2. \A s, actions : Decided(longer, s, actions) = Decided(log, s, actions)
    BY <1>2, DecidedAppend
  <2> QED
    BY <2>1, <2>2 DEF Agrees
<1>3. CASE line.record # Garbled
  <2>1. new = Fold(state, line.record) /\ line.record \in Event
    BY <1>3 DEF ReadReview, Line
  <2>2. /\ new \in State
        /\ \A s \in Signal :
             /\ new.entry[s] = IF r.target = s /\ r.action \in Entries
                                 THEN IF r.action = "reject_entry" THEN "rejected" ELSE "restored"
                                 ELSE state.entry[s]
             /\ new.resolution[s] = IF r.target = s /\ r.action \in Items
                                      THEN r.state ELSE state.resolution[s]
             /\ s \in new.suppressed <=> IF r.target = s /\ r.action \in Suppression
                                           THEN r.action = "suppress_signal"
                                           ELSE s \in state.suppressed
    BY <1>1, <2>1, FoldTyped
  <2>3. r # None
    BY <2>1, NoneNotAValue DEF Event
  <2>4. \A s, actions : Decided(longer, s, actions) =
          IF r.target = s /\ r.action \in actions THEN r ELSE Decided(log, s, actions)
    BY <1>3, DecidedAppend
  <2> HIDE DEF new, longer, r
  <2>5. ASSUME NEW s \in Signal
        PROVE  /\ EntrySays(new, s, Decided(longer, s, Entries))
               /\ ResolutionSays(new, s, Decided(longer, s, Items))
               /\ SuppressionSays(new, s, Decided(longer, s, Suppression))
    <3>1. /\ EntrySays(state, s, Decided(log, s, Entries))
          /\ ResolutionSays(state, s, Decided(log, s, Items))
          /\ SuppressionSays(state, s, Decided(log, s, Suppression))
      BY DEF Agrees
    <3>2. EntrySays(new, s, Decided(longer, s, Entries))
      BY <2>2, <2>3, <2>4, <3>1 DEF EntrySays
    <3>3. ResolutionSays(new, s, Decided(longer, s, Items))
      BY <2>2, <2>3, <2>4, <3>1 DEF ResolutionSays
    <3>4. SuppressionSays(new, s, Decided(longer, s, Suppression))
      BY <2>2, <2>3, <2>4, <3>1 DEF SuppressionSays
    <3> QED
      BY <3>2, <3>3, <3>4
  <2> QED
    BY <2>2, <2>5 DEF Agrees, new, longer
<1> QED
  BY <1>2, <1>3

\* Whatever was reviewed and whatever became of the lines: read_review_state
\* returns, for every signal, what the last decision of each kind says of it.
THEOREM LastDecisionsCount == \A log \in Log(Event) : Agrees(Reviews(log), log)
<1>1. Agrees(NoReviews, <<>>)
  <2>1. \A s, actions : Decided(<<>>, s, actions) = None
    BY DEF Decided, On, Whole
  <2>2. NoReviews \in State
    BY DEF NoReviews, State
  <2> QED
    BY <2>1, <2>2 DEF Agrees, NoReviews, EntrySays, ResolutionSays, SuppressionSays
<1>2. \A log \in Seq(Line(Event)), line \in Line(Event) :
        Agrees(Folding!Fold(log), log)
          => Agrees(ReadReview(Folding!Fold(log), line), Append(log, line))
  BY AgreesAppend DEF Log
<1>3. \A log \in Seq(Line(Event)) : Agrees(Folding!Fold(log), log)
  BY <1>1, <1>2, Folding!FoldInduction
<1> QED
  BY <1>3, ReviewsAreFolded DEF Log

-----------------------------------------------------------------------------
(* No review is repeated.                                                  *)

LEMMA FamilyIs ==
  ASSUME NEW action
  PROVE  /\ action \in Entries => Family(action) = Entries
         /\ action \in Items => Family(action) = Items
         /\ action \in Suppression => Family(action) = Suppression
<1>1. ASSUME NEW f \in {Entries, Items, Suppression}, NEW g \in {Entries, Items, Suppression},
             action \in f, action \in g
      PROVE  f = g
  BY <1>1 DEF Entries, Items, Suppression
<1>2. Family(action) = CHOOSE f \in {Entries, Items, Suppression} : action \in f
  BY DEF Family, Entries, Items, Suppression
<1> HIDE DEF Family
<1>3. ASSUME NEW g \in {Entries, Items, Suppression}, action \in g PROVE Family(action) = g
  <2>1. Family(action) \in {Entries, Items, Suppression} /\ action \in Family(action)
    BY <1>2, <1>3
  <2> QED
    BY <1>1, <1>3, <2>1
<1> QED
  BY <1>3

\* A review that is still the last decision of its kind changes nothing.
LEMMA EchoIsNoOp ==
  ASSUME NEW log \in Log(Event), NEW r \in Review, Decided(log, r.target, Family(r.action)) = r
  PROVE  NoOp(Reviews(log), r)
<1> DEFINE state == Reviews(log)
           s == r.target
<1>1. s \in Signal /\ r.action \in Action /\ r # None
  BY NoneNotAValue DEF Review
<1>2. /\ EntrySays(state, s, Decided(log, s, Entries))
      /\ ResolutionSays(state, s, Decided(log, s, Items))
      /\ SuppressionSays(state, s, Decided(log, s, Suppression))
  BY <1>1, LastDecisionsCount DEF Agrees
<1>3. /\ r.action \in Entries => Family(r.action) = Entries
      /\ r.action \in Items => Family(r.action) = Items
      /\ r.action \in Suppression => Family(r.action) = Suppression
  BY FamilyIs
<1> HIDE DEF state, s
<1>4. CASE r.action \in Entries
  BY <1>1, <1>2, <1>3, <1>4 DEF EntrySays, NoOp, Entries, state, s
<1>5. CASE r.action \in Items
  BY <1>1, <1>2, <1>3, <1>5 DEF ResolutionSays, NoOp, Items, state, s
<1>6. CASE r.action \in Suppression
  BY <1>1, <1>2, <1>3, <1>6 DEF SuppressionSays, NoOp, Suppression, state, s
<1> QED
  BY <1>1, <1>4, <1>5, <1>6 DEF Action, Entries, Items, Suppression

\* The reviews stay without an echo when one is appended that is no echo.
LEMMA ReviewAppended ==
  ASSUME overrides \in Log(Event), NoEcho, NEW a \in Review,
         ~NoOp(Reviews(overrides), a),
         NEW x \in {EventOf(a), Garbled}, NEW e \in BOOLEAN,
         overrides' = Put(overrides, x, e)
  PROVE  NoEcho'
<1> DEFINE new == Put(overrides, x, e)
           n == Len(overrides) + 1
<1>1. /\ \A i \in Whole(new) : \/ i \in Whole(overrides) /\ new[i] = overrides[i]
                               \/ i = n /\ new[i].record = x
      /\ \A k \in Whole(overrides), i \in Whole(new) :
           k < i => k \in Whole(new) /\ new[k] = overrides[k]
  BY PutKeeps, PutKeepsEarlier
<1>2. overrides' = new /\ Len(overrides) \in Nat
  BY DEF Log
<1> HIDE DEF new
<1>3. SUFFICES ASSUME NEW i \in Whole(new), NEW j \in Whole(new), i < j,
                      new[j].record.review = new[i].record.review
               PROVE  \E k \in Whole(new) :
                        LET r == new[k].record.review IN
                        /\ i < k /\ k < j /\ r # new[i].record.review
                        /\ r.target = new[i].record.review.target
                        /\ r.action \in Family(new[i].record.review.action)
  BY <1>2 DEF NoEcho
<1>4. i \in Whole(overrides) /\ new[i] = overrides[i] /\ i \in 1..Len(overrides)
  <2>1. i \in Nat /\ j \in Nat
    BY DEF Whole
  <2>2. ASSUME i = n PROVE FALSE
    <3>1. j \in 1..n
      BY <1>1, <1>2 DEF Whole
    <3> QED
      BY <1>2, <1>3, <2>1, <2>2, <3>1
  <2> QED
    BY <1>1, <2>2 DEF Whole
<1>5. CASE j \in Whole(overrides) /\ new[j] = overrides[j]
  <2>1. PICK k \in Whole(overrides) :
          LET r == overrides[k].record.review IN
          /\ i < k /\ k < j /\ r # overrides[i].record.review
          /\ r.target = overrides[i].record.review.target
          /\ r.action \in Family(overrides[i].record.review.action)
    BY <1>3, <1>4, <1>5 DEF NoEcho
  <2>2. k \in Whole(new) /\ new[k] = overrides[k]
    BY <1>1, <2>1
  <2> QED
    BY <1>4, <2>1, <2>2
<1>6. CASE j = n /\ new[j].record = x
  <2>1. x # Garbled
    BY <1>6 DEF Whole
  <2>2. new[i].record.review = a
    BY <1>3, <1>6, <2>1 DEF EventOf
  <2> DEFINE on == On(overrides, a.target, Family(a.action))
  <2>3. a.action \in Family(a.action)
    BY FamilyIs DEF Review, Action, Entries, Items, Suppression
  <2>4. i \in on
    BY <1>4, <2>2, <2>3 DEF On
  <2>5. PICK k \in on : /\ \A m \in on : m <= k
                        /\ Decided(overrides, a.target, Family(a.action))
                             = overrides[k].record.review
    BY <2>4, DecidedIsLast
  <2>6. overrides[k].record.review # a
    BY <2>5, EchoIsNoOp
  <2>7. /\ k \in Whole(overrides) /\ k \in 1..Len(overrides)
        /\ overrides[k].record.review.target = a.target
        /\ overrides[k].record.review.action \in Family(a.action)
    BY DEF On, Whole
  <2>8. i <= k /\ k # i
    BY <1>4, <2>2, <2>4, <2>5, <2>6
  <2>9. i < k /\ k < j
    BY <1>2, <1>4, <1>6, <2>7, <2>8
  <2>10. k \in Whole(new) /\ new[k] = overrides[k]
    BY <1>1, <2>7, <2>9
  <2> QED
    BY <2>2, <2>6, <2>7, <2>9, <2>10
<1> QED
  BY <1>1, <1>5, <1>6

\* Reviews are appended by the commands that ask for them, and by nobody else.
LEMMA OverridesStep ==
  ASSUME IInv, [Next]_vars
  PROVE  \/ overrides' = overrides
         \/ \E c \in Command :
              /\ pc[c] = "review" /\ ~NoOp(Reviews(overrides), job[c].review)
              /\ \E x \in {EventOf(job[c].review), Garbled}, e \in BOOLEAN :
                   overrides' = Put(overrides, x, e)
<1>1. ASSUME NEW c \in Command, AppendReview(c) \/ ReviewCutShort(c)
      PROVE  \/ overrides' = overrides
             \/ /\ pc[c] = "review" /\ ~NoOp(Reviews(overrides), job[c].review)
                /\ \E x \in {EventOf(job[c].review), Garbled}, e \in BOOLEAN :
                     overrides' = Put(overrides, x, e)
  <2>1. pc[c] = "review" /\ ~NoOp(Reviews(overrides), job[c].review)
    BY <1>1 DEF AppendReview, ReviewCutShort, Stops, Dies, Step
  <2>2. \/ overrides' = overrides
        \/ overrides' = Put(overrides, EventOf(job[c].review), TRUE)
        \/ overrides' = Put(overrides, Garbled, FALSE)
        \/ overrides' = Put(overrides, EventOf(job[c].review), FALSE)
    BY <1>1 DEF AppendReview, ReviewCutShort, Written, CutShort
  <2> QED
    BY <2>1, <2>2
<1>2. ASSUME NEW c \in Command, Begin(c) PROVE overrides' = overrides
  BY <1>2 DEF Begin, StartUpdate, StartReview, StartRepair, StartCleanup, Start, inputs
<1>3. ASSUME NEW c \in Command, Acquire(c) \/ Refused(c) \/ Release(c) PROVE overrides' = overrides
  BY <1>3 DEF Acquire, Refused, Release, inputs
<1>4. ASSUME NEW c \in Command, Update(c) PROVE overrides' = overrides
  BY <1>4 DEF Update, Discover, RegistryInvalid, Derive, Commit, PublishIndex, RecordFailure,
     WriteMember, inputs
<1>5. ASSUME NEW c \in Command, Upkeep(c), ~AppendReview(c) PROVE overrides' = overrides
  BY <1>5 DEF Upkeep, Repair, ListUncommitted, CleanupDone, ReviewNoOp, RemoveNext, inputs
<1>6. ASSUME NEW c \in Command, Mishap(c), ~ReviewCutShort(c) PROVE overrides' = overrides
  BY <1>6 DEF Mishap, Kill, Interrupt, WriteError, CommitCutShort, FailureCutShort, RemoveError,
     inputs
<1>7. ASSUME NEW d \in Reader, Reading(d) PROVE overrides' = overrides
  BY <1>7 DEF Reading, ReadProfile, Open, inputs
<1>8. ASSUME \/ \E new \in Registry : EditRegistry(new)
             \/ \E src \in {Source[s] : s \in Signal} : Ingest(src)
             \/ RemoveLock \/ UNCHANGED vars
      PROVE  overrides' = overrides
  BY <1>8 DEF EditRegistry, Ingest, RemoveLock, vars, inputs
<1> QED
  BY <1>1, <1>2, <1>3, <1>4, <1>5, <1>6, <1>7, <1>8 DEF Next, Progress, Upkeep, Mishap

LEMMA NoEchoKept ==
  ASSUME IInv, NoEcho, [Next]_vars
  PROVE  NoEcho'
<1>1. CASE overrides' = overrides
  BY <1>1 DEF NoEcho
<1>2. ASSUME NEW c \in Command, pc[c] = "review", ~NoOp(Reviews(overrides), job[c].review),
             NEW x \in {EventOf(job[c].review), Garbled}, NEW e \in BOOLEAN,
             overrides' = Put(overrides, x, e)
      PROVE  NoEcho'
  <2>1. job[c].review \in Review
    BY <1>2, Types DEF WorkFits
  <2>2. overrides \in Log(Event)
    BY Types DEF FilesTyped
  <2> QED
    BY <1>2, <2>1, <2>2, ReviewAppended
<1> QED
  BY <1>1, <1>2, OverridesStep

\* Commands that ask for the same review at the same time leave one event,
\* whatever is killed or cut short between them.
THEOREM ReviewsAreNotRepeated == Spec => []NoEcho
<1>1. Init => NoEcho
  BY DEF Init, NoEcho, Whole
<1>2. IInv /\ NoEcho /\ [Next]_vars => NoEcho'
  BY NoEchoKept
<1> QED
  BY <1>1, <1>2, InvariantHolds, PTL DEF Spec

-----------------------------------------------------------------------------
(* A current playbook is what its inputs say.                              *)

\* Derived and AboutToRead in the next state, of values of this one.
DerivedNext(r, in) ==
  \E read \in ({in.registry} \cup between'[r]) \ {None} :
    content'[r] = Profiles(read, in.signals, in.overrides)

AboutToReadNext(j) ==
  /\ j.inputs.signals = signals' /\ j.inputs.overrides = overrides'
  /\ registry' \in {j.inputs.registry} \cup between'[j.run]

LEMMA StaysDerived ==
  ASSUME NEW r, NEW in, Derived(r, in), content'[r] = content[r],
         between[r] \subseteq between'[r]
  PROVE  DerivedNext(r, in)
  BY DEF Derived, DerivedNext

\* A step of c, after which the ledger, the index and what c works on is
\* derived; other commands work on something only while c does not.
LEMMA DerivedStep ==
  ASSUME IInv, DerivedSound, NEW c \in Command, NEW to, NEW j,
         pc' = [pc EXCEPT ![c] = to], job' = [job EXCEPT ![c] = j],
         \/ UNCHANGED <<content, registry, signals, overrides, between>>
         \/ pc[c] \in LockedSteps,
         \A i \in Successes' : DerivedNext(ledger'[i].record.run, ledger'[i].record.inputs),
         index' # None => DerivedNext(index'.run, index'.inputs),
         to \in {"write", "commit", "index"} => DerivedNext(j.run, j.inputs),
         to = "derive" => AboutToReadNext(j)
  PROVE  DerivedSound'
<1>1. /\ pc \in [Command -> Steps] /\ job \in [Command -> Job]
      /\ \A d \in Command : pc[d] \in LockedSteps => lock = d
  BY Types DEF IInv, OneHolder
<1>2. /\ pc'[c] = to /\ job'[c] = j
      /\ \A d \in Command : d # c => pc'[d] = pc[d] /\ job'[d] = job[d]
  BY <1>1
<1>3. ASSUME NEW d \in Command, d # c
      PROVE  /\ pc[d] \in {"write", "commit", "index"} => DerivedNext(job[d].run, job[d].inputs)
             /\ pc[d] = "derive" => AboutToReadNext(job[d])
  <2>1. CASE UNCHANGED <<content, registry, signals, overrides, between>>
    <3>1. pc[d] \in {"write", "commit", "index"} => DerivedNext(job[d].run, job[d].inputs)
      BY <2>1, StaysDerived DEF DerivedSound
    <3>2. pc[d] = "derive" => AboutToRead(job[d])
      BY DEF DerivedSound
    <3> QED
      BY <2>1, <3>1, <3>2 DEF AboutToRead, AboutToReadNext
  <2>2. CASE pc[c] \in LockedSteps
    <3>1. pc[d] \notin LockedSteps
      BY <1>1, <1>3, <2>2
    <3> QED
      BY <3>1 DEF LockedSteps, Steps
  <2> QED
    BY <2>1, <2>2
<1>4. ASSUME NEW d \in Command
      PROVE  /\ pc'[d] \in {"write", "commit", "index"} => DerivedNext(job'[d].run, job'[d].inputs)
             /\ pc'[d] = "derive" => AboutToReadNext(job'[d])
  BY <1>2, <1>3
<1> QED
  BY <1>4 DEF DerivedSound, Derived, DerivedNext, AboutToRead, AboutToReadNext

\* The ledger, the index and the contents stay as they are.
LEMMA OutputsDerived ==
  ASSUME DerivedSound, UNCHANGED <<ledger, index, content>>,
         \A i \in Successes :
           between[ledger[i].record.run] \subseteq between'[ledger[i].record.run],
         index # None => between[index.run] \subseteq between'[index.run]
  PROVE  /\ \A i \in Successes' : DerivedNext(ledger'[i].record.run, ledger'[i].record.inputs)
         /\ index' # None => DerivedNext(index'.run, index'.inputs)
<1>1. Successes' = Successes
  BY DEF Successes
<1> QED
  BY <1>1, StaysDerived DEF DerivedSound

\* A step of c that derives nothing, records nothing and publishes nothing.
LEMMA DerivedQuiet ==
  ASSUME IInv, DerivedSound, NEW c \in Command, NEW to, NEW j,
         pc' = [pc EXCEPT ![c] = to], job' = [job EXCEPT ![c] = j],
         UNCHANGED <<ledger, index, content, registry, between>>,
         UNCHANGED <<signals, overrides>> \/ pc[c] \in LockedSteps,
         to \in {"write", "commit", "index"} => pc[c] \in {"write", "commit", "index"} /\ j = job[c],
         to = "derive" => AboutToReadNext(j)
  PROVE  DerivedSound'
<1>1. to \in {"write", "commit", "index"} => DerivedNext(j.run, j.inputs)
  BY StaysDerived DEF DerivedSound
<1> QED
  BY <1>1, OutputsDerived, DerivedStep

\* c leaves the steps of a derivation, or never was at one.
LEMMA DerivedLeft ==
  ASSUME IInv, DerivedSound, NEW c \in Command,
         NEW to \in Steps \ {"derive", "write", "commit", "index"},
         pc' = [pc EXCEPT ![c] = to], job' = job \/ \E j : job' = [job EXCEPT ![c] = j],
         UNCHANGED <<ledger, index, content, registry, between>>,
         UNCHANGED <<signals, overrides>> \/ pc[c] \in LockedSteps
  PROVE  DerivedSound'
<1>1. PICK j : job' = [job EXCEPT ![c] = j]
  <2>1. job = [job EXCEPT ![c] = job[c]]
    BY Types
  <2> QED
    BY <2>1
<1> QED
  BY <1>1, DerivedQuiet

LEMMA BeginDerived ==
  ASSUME IInv, DerivedSound, NEW c \in Command, Begin(c)
  PROVE  DerivedSound'
<1>1. PICK j : Start(c, j)
  BY DEF Begin, StartUpdate, StartReview, StartRepair, StartCleanup
<1>2. "acquire" \in Steps \ {"derive", "write", "commit", "index"}
  BY DEF Steps
<1> QED
  BY <1>1, <1>2, DerivedLeft DEF Start, Step, Local, inputs, outputs, generations, budget, history

LEMMA LockDerived ==
  ASSUME IInv, DerivedSound, NEW c \in Command, Acquire(c) \/ Refused(c) \/ Release(c)
  PROVE  DerivedSound'
<1>1. {"idle", "discover", "repair", "list", "review"}
        \subseteq Steps \ {"derive", "write", "commit", "index"}
  BY DEF Steps
<1>2. CASE Acquire(c)
  <2>1. job[c].op \in Op
    BY <1>2, Types DEF Acquire, Step, WorkFits
  <2>2. PICK to \in {"discover", "repair", "list", "review"} : to = First(job[c].op)
    BY <2>1 DEF First, Op
  <2>3. job' = job \/ \E j : job' = [job EXCEPT ![c] = j]
    BY <1>2 DEF Acquire, Local
  <2> QED
    BY <1>1, <1>2, <2>2, <2>3, DerivedLeft
       DEF Acquire, Step, inputs, outputs, generations, budget, history
<1>3. CASE Refused(c) \/ Release(c)
  BY <1>1, <1>3, DerivedLeft DEF Refused, Release, Step, Local, inputs, outputs, generations, budget, history
<1> QED
  BY <1>2, <1>3

LEMMA DiscoverDerived ==
  ASSUME IInv, DerivedSound, NEW c \in Command, Discover(c)
  PROVE  DerivedSound'
<1> DEFINE j == [job[c] EXCEPT !.inputs = Now]
<1>1. job[c] \in Job
  BY Types
<1>2. /\ j.inputs.signals = signals /\ j.inputs.overrides = overrides
      /\ j.inputs.registry = registry
  BY <1>1 DEF Job, Now
<1>3. job' = [job EXCEPT ![c] = j]
  BY DEF Discover, Local
<1> HIDE DEF j
<1> QED
  BY <1>2, <1>3, DerivedQuiet
     DEF AboutToReadNext, Discover, Step, inputs, outputs, generations, budget, history

LEMMA DeriveDerived ==
  ASSUME IInv, DerivedSound, NEW c \in Command, Derive(c)
  PROVE  DerivedSound'
<1> DEFINE r == job[c].run
           said == Profiles(registry, job[c].inputs.signals, overrides)
<1>1. /\ pc[c] = "derive" /\ pc' = [pc EXCEPT ![c] = "write"] /\ job' = job
      /\ registry # None /\ content' = [content EXCEPT ![r] = said]
      /\ UNCHANGED <<registry, signals, overrides, ledger, index, between>>
  BY DEF Derive, Step, inputs, budget, history
<1>2. job' = [job EXCEPT ![c] = job[c]]
  BY <1>1, Types
<1>3. r \in Run /\ Unpublished(r)
  BY <1>1, Types DEF WorkFits, Drafting
<1>4. content'[r] = said /\ \A x \in Run : x # r => content'[x] = content[x]
  <2>1. r \in DOMAIN content
    BY <1>3, Types DEF FilesTyped
  <2> HIDE DEF r, said
  <2> QED
    BY <1>1, <2>1
<1>5. DerivedNext(r, job[c].inputs)
  <2>1. AboutToRead(job[c])
    BY <1>1 DEF DerivedSound
  <2>2. registry \in ({job[c].inputs.registry} \cup between'[r]) \ {None}
    BY <1>1, <2>1 DEF AboutToRead
  <2> QED
    BY <1>1, <1>4, <2>1, <2>2 DEF DerivedNext, AboutToRead
<1> HIDE DEF r, said
<1>6. \A i \in Successes' : DerivedNext(ledger'[i].record.run, ledger'[i].record.inputs)
  <2>1. Successes' = Successes
    BY <1>1 DEF Successes
  <2>2. ASSUME NEW i \in Successes
        PROVE  DerivedNext(ledger[i].record.run, ledger[i].record.inputs)
    <3>1. ledger[i].record.run # r
      BY <1>3 DEF Unpublished, Unrecorded, Successes
    <3>2. Derived(ledger[i].record.run, ledger[i].record.inputs)
      BY DEF DerivedSound
    <3> QED
      BY <1>1, <1>4, <3>1, <3>2, StaysDerived
  <2> QED
    BY <1>1, <2>1, <2>2
<1>7. index' # None => DerivedNext(index'.run, index'.inputs)
  <2>1. SUFFICES ASSUME index # None PROVE DerivedNext(index.run, index.inputs)
    BY <1>1
  <2>2. index.run # r /\ Derived(index.run, index.inputs)
    BY <1>3, <2>1 DEF Unpublished, DerivedSound
  <2> QED
    BY <1>1, <1>4, <2>2, StaysDerived
<1> QED
  BY <1>1, <1>2, <1>5, <1>6, <1>7, DerivedStep DEF LockedSteps, Steps, r

LEMMA WriteMemberDerived ==
  ASSUME IInv, DerivedSound, NEW c \in Command, NEW m, WriteMember(c, m)
  PROVE  DerivedSound'
<1>1. PICK to \in {"write", "commit"} : /\ pc[c] = "write" /\ pc' = [pc EXCEPT ![c] = to]
  BY DEF WriteMember, Step
<1>2. /\ job' = [job EXCEPT ![c] = job[c]]
      /\ UNCHANGED <<registry, signals, overrides, ledger, index, content, between>>
  BY Types DEF WriteMember, inputs, budget, history
<1> QED
  BY <1>1, <1>2, DerivedQuiet

\* An append to the ledger, whole or cut short, of a line that says the truth.
LEMMA LineDerived ==
  ASSUME IInv, DerivedSound, UNCHANGED <<registry, content, between>>, NEW d, NEW e,
         ledger' = Put(ledger, d, e),
         (d # Garbled /\ d.success) => DerivedNext(d.run, d.inputs)
  PROVE  \A i \in Successes' : DerivedNext(ledger'[i].record.run, ledger'[i].record.inputs)
<1> SUFFICES ASSUME NEW i \in Successes'
             PROVE  DerivedNext(ledger'[i].record.run, ledger'[i].record.inputs)
  OBVIOUS
<1>1. i \in Whole(ledger') /\ ledger'[i].record.success /\ ledger'[i].record # Garbled
  BY DEF Successes, Whole
<1>2. ledger \in Log(Derivation)
  BY Types DEF FilesTyped
<1>3. \/ i \in Whole(ledger) /\ ledger'[i] = ledger[i]
      \/ ledger'[i].record = d
  BY <1>1, <1>2, PutKeeps
<1>4. CASE i \in Whole(ledger) /\ ledger'[i] = ledger[i]
  <2>1. i \in Successes
    BY <1>1, <1>4 DEF Successes
  <2>2. Derived(ledger[i].record.run, ledger[i].record.inputs)
    BY <2>1 DEF DerivedSound
  <2> QED
    BY <1>4, <2>2, StaysDerived
<1>5. CASE ledger'[i].record = d
  BY <1>1, <1>5
<1> QED
  BY <1>3, <1>4, <1>5

LEMMA CommitDerived ==
  ASSUME IInv, DerivedSound, NEW c \in Command, Commit(c) \/ CommitCutShort(c)
  PROVE  DerivedSound'
<1>1. /\ pc[c] = "commit" /\ UNCHANGED <<registry, content, between, index>>
      /\ UNCHANGED <<signals, overrides>>
      /\ \/ ledger' = ledger
         \/ \E d \in {Record(c, TRUE), Garbled}, e \in BOOLEAN : ledger' = Put(ledger, d, e)
  <2>1. /\ pc[c] = "commit" /\ UNCHANGED <<inputs, generations, index, between>>
    BY DEF Commit, CommitCutShort, Stops, Dies, Step, budget, history
  <2>2. \/ ledger' = ledger
        \/ ledger' = Put(ledger, Record(c, TRUE), TRUE)
        \/ ledger' = Put(ledger, Garbled, FALSE)
        \/ ledger' = Put(ledger, Record(c, TRUE), FALSE)
    BY DEF Commit, CommitCutShort, Written, CutShort
  <2> QED
    BY <2>1, <2>2 DEF inputs, generations
<1>2. PICK to \in {"index", "failing", "idle"}, j \in {job[c], NoJob} :
        /\ pc' = [pc EXCEPT ![c] = to] /\ job' = [job EXCEPT ![c] = j]
        /\ to = "index" => j = job[c]
  <2>1. job = [job EXCEPT ![c] = job[c]]
    BY Types
  <2> QED
    BY <2>1 DEF Commit, CommitCutShort, Stops, Dies, Step, Local
<1>3. DerivedNext(job[c].run, job[c].inputs)
  BY <1>1, StaysDerived DEF DerivedSound
<1>4. \A i \in Successes' : DerivedNext(ledger'[i].record.run, ledger'[i].record.inputs)
  <2>1. CASE ledger' = ledger
    BY <1>1, <2>1, OutputsDerived
  <2>2. ASSUME NEW d \in {Record(c, TRUE), Garbled}, NEW e \in BOOLEAN,
               ledger' = Put(ledger, d, e)
        PROVE  \A i \in Successes' : DerivedNext(ledger'[i].record.run, ledger'[i].record.inputs)
    <3>1. d # Garbled => d.run = job[c].run /\ d.inputs = job[c].inputs
      BY DEF Record
    <3> QED
      BY <1>1, <1>3, <2>2, <3>1, LineDerived
  <2> QED
    BY <1>1, <2>1, <2>2
<1>5. index' # None => DerivedNext(index'.run, index'.inputs)
  BY <1>1, StaysDerived DEF DerivedSound
<1> QED
  BY <1>1, <1>2, <1>3, <1>4, <1>5, DerivedStep

LEMMA FailureDerived ==
  ASSUME IInv, DerivedSound, NEW c \in Command, RecordFailure(c) \/ FailureCutShort(c)
  PROVE  DerivedSound'
<1>1. /\ pc[c] = "failing" /\ UNCHANGED <<registry, content, between, index>>
      /\ UNCHANGED <<signals, overrides>>
      /\ \/ ledger' = ledger
         \/ \E d \in {Record(c, FALSE), Garbled}, e \in BOOLEAN : ledger' = Put(ledger, d, e)
  <2>1. /\ pc[c] = "failing" /\ UNCHANGED <<inputs, generations, index, between>>
    BY DEF RecordFailure, FailureCutShort, Stops, Dies, Step, budget, history
  <2>2. \/ ledger' = ledger
        \/ ledger' = Put(ledger, Record(c, FALSE), TRUE)
        \/ ledger' = Put(ledger, Garbled, FALSE)
        \/ ledger' = Put(ledger, Record(c, FALSE), FALSE)
    BY DEF RecordFailure, FailureCutShort, Written, CutShort
  <2> QED
    BY <2>1, <2>2 DEF inputs, generations
<1>2. PICK to \in {"release", "idle"}, j \in {job[c], NoJob} :
        /\ pc' = [pc EXCEPT ![c] = to] /\ job' = [job EXCEPT ![c] = j]
  <2>1. job = [job EXCEPT ![c] = job[c]]
    BY Types
  <2> QED
    BY <2>1 DEF RecordFailure, FailureCutShort, Stops, Dies, Step, Local
<1>3. \A i \in Successes' : DerivedNext(ledger'[i].record.run, ledger'[i].record.inputs)
  <2>1. CASE ledger' = ledger
    BY <1>1, <2>1, OutputsDerived
  <2>2. ASSUME NEW d \in {Record(c, FALSE), Garbled}, NEW e \in BOOLEAN,
               ledger' = Put(ledger, d, e)
        PROVE  \A i \in Successes' : DerivedNext(ledger'[i].record.run, ledger'[i].record.inputs)
    <3>1. d # Garbled => ~d.success
      BY DEF Record
    <3> QED
      BY <1>1, <2>2, <3>1, LineDerived
  <2> QED
    BY <1>1, <2>1, <2>2
<1>4. index' # None => DerivedNext(index'.run, index'.inputs)
  BY <1>1, StaysDerived DEF DerivedSound
<1> QED
  BY <1>1, <1>2, <1>3, <1>4, DerivedStep

\* The index takes what an update has derived, or what the latest commit says.
LEMMA IndexDerived ==
  ASSUME IInv, DerivedSound, NEW c \in Command, PublishIndex(c) \/ Repair(c)
  PROVE  DerivedSound'
<1>1. /\ pc[c] \in {"index", "repair"} /\ pc' = [pc EXCEPT ![c] = "release"]
      /\ job' = [job EXCEPT ![c] = job[c]]
      /\ UNCHANGED <<registry, signals, overrides, ledger, content, between>>
  BY Types DEF PublishIndex, Repair, Step, inputs, generations, budget, history
<1>2. \A i \in Successes' : DerivedNext(ledger'[i].record.run, ledger'[i].record.inputs)
  <2>1. Successes' = Successes
    BY <1>1 DEF Successes
  <2> QED
    BY <1>1, <2>1, StaysDerived DEF DerivedSound
<1>3. \/ index' = index
      \/ \E r, in, people : /\ index' = [run |-> r, inputs |-> in, people |-> people]
                            /\ Derived(r, in)
  <2>1. CASE PublishIndex(c)
    BY <2>1 DEF PublishIndex, Step, DerivedSound
  <2>2. CASE Repair(c) /\ index' # index
    <3>1. /\ Successes # {}
          /\ index' = [run |-> Latest.run, inputs |-> Latest.inputs, people |-> Latest.people]
      BY <2>2 DEF Repair
    <3>2. PICK i \in Successes : Latest = ledger[i].record
      BY <3>1, Types, LatestIs DEF FilesTyped, FilesSound
    <3> QED
      BY <3>1, <3>2 DEF DerivedSound
  <2> QED
    BY <2>1, <2>2
<1>4. index' # None => DerivedNext(index'.run, index'.inputs)
  <2>1. CASE index' = index
    BY <1>1, <2>1, StaysDerived DEF DerivedSound
  <2>2. CASE \E r, in, people : /\ index' = [run |-> r, inputs |-> in, people |-> people]
                                /\ Derived(r, in)
    <3>1. PICK r, in, people : /\ index' = [run |-> r, inputs |-> in, people |-> people]
                               /\ Derived(r, in)
      BY <2>2
    <3>2. DerivedNext(r, in)
      BY <1>1, <3>1, StaysDerived
    <3> QED
      BY <3>1, <3>2
  <2> QED
    BY <1>3, <2>1, <2>2
<1> QED
  BY <1>1, <1>2, <1>4, DerivedStep DEF LockedSteps, Steps

LEMMA UpkeepDerived ==
  ASSUME IInv, DerivedSound, NEW c \in Command,
         \/ RegistryInvalid(c) \/ ListUncommitted(c) \/ CleanupDone(c) \/ AppendReview(c)
         \/ ReviewNoOp(c) \/ \E r \in Run : RemoveNext(c, r)
  PROVE  DerivedSound'
<1>1. {"failing", "remove", "release"} \subseteq Steps \ {"derive", "write", "commit", "index"}
      /\ "review" \in LockedSteps
  BY DEF Steps, LockedSteps
<1>2. CASE RegistryInvalid(c)
  BY <1>1, <1>2, DerivedLeft DEF RegistryInvalid, Step, inputs, outputs, generations, budget, history
<1>3. CASE ListUncommitted(c)
  <2>1. PICK to \in {"remove", "release"} : pc' = [pc EXCEPT ![c] = to]
    BY <1>3 DEF ListUncommitted, Step
  <2>2. \E j : job' = [job EXCEPT ![c] = j]
    BY <1>3 DEF ListUncommitted, Local
  <2> QED
    BY <1>1, <1>3, <2>1, <2>2, DerivedLeft
       DEF ListUncommitted, inputs, outputs, generations, budget, history
<1>4. CASE CleanupDone(c) \/ ReviewNoOp(c)
  BY <1>1, <1>4, DerivedLeft DEF CleanupDone, ReviewNoOp, Step, inputs, outputs, generations, budget, history
<1>5. CASE AppendReview(c)
  BY <1>1, <1>5, DerivedLeft DEF AppendReview, Step, outputs, generations, budget, history
<1>6. ASSUME NEW r \in Run, RemoveNext(c, r) PROVE DerivedSound'
  <2>1. pc' = [pc EXCEPT ![c] = "remove"]
    BY <1>6, Types DEF RemoveNext
  <2>2. \E j : job' = [job EXCEPT ![c] = j]
    BY <1>6 DEF RemoveNext, Local
  <2> QED
    BY <1>1, <1>6, <2>1, <2>2, DerivedLeft DEF RemoveNext, inputs, budget, history
<1> QED
  BY <1>2, <1>3, <1>4, <1>5, <1>6

LEMMA MishapDerived ==
  ASSUME IInv, DerivedSound, NEW c \in Command, Mishap(c)
  PROVE  DerivedSound'
<1>1. {"idle", "release", "failing"} \subseteq Steps \ {"derive", "write", "commit", "index"}
      /\ "review" \in LockedSteps
  BY DEF Steps, LockedSteps
<1>2. CASE Kill(c) \/ Interrupt(c)
  BY <1>1, <1>2, DerivedLeft
     DEF Kill, Interrupt, Dies, Step, Local, inputs, outputs, generations, history
<1>3. CASE WriteError(c)
  BY <1>1, <1>3, DerivedLeft DEF WriteError, Step, inputs, outputs, generations, history
<1>4. CASE ReviewCutShort(c)
  <2>1. PICK to \in {"idle", "release"} : pc' = [pc EXCEPT ![c] = to] /\ pc[c] = "review"
    BY <1>4 DEF ReviewCutShort, Stops, Dies, Step
  <2>2. job' = job \/ \E j : job' = [job EXCEPT ![c] = j]
    BY <1>4 DEF ReviewCutShort, Stops, Dies, Local
  <2> QED
    BY <1>1, <1>4, <2>1, <2>2, DerivedLeft DEF ReviewCutShort, outputs, generations, history
<1>5. ASSUME NEW r \in Run, RemoveError(c, r) PROVE DerivedSound'
  <2>1. PICK to \in {"idle", "release"} : pc' = [pc EXCEPT ![c] = to]
    BY <1>5 DEF RemoveError, Stops, Dies, Step
  <2>2. job' = job \/ \E j : job' = [job EXCEPT ![c] = j]
    BY <1>5 DEF RemoveError, Stops, Dies, Local
  <2> QED
    BY <1>1, <1>5, <2>1, <2>2, DerivedLeft DEF RemoveError, inputs, history
<1> QED
  BY <1>2, <1>3, <1>4, <1>5, CommitDerived, FailureDerived DEF Mishap

\* Readers, and people who edit the registry, ingest or remove a lock.
LEMMA WorldDerived ==
  ASSUME IInv, DerivedSound,
         \/ \E d \in Reader : Reading(d)
         \/ \E new \in Registry : EditRegistry(new)
         \/ \E src : Ingest(src)
         \/ RemoveLock \/ UNCHANGED vars
  PROVE  DerivedSound'
<1>1. UNCHANGED <<ledger, index, content, pc, job, overrides>>
  BY DEF Reading, ReadProfile, Open, EditRegistry, Ingest, RemoveLock, vars, inputs, outputs,
     generations
<1>2. \A r \in Run : between[r] \subseteq between'[r]
  <2>1. between' = between \/ \E new \in Registry : EditRegistry(new)
    BY DEF Reading, ReadProfile, Open, Ingest, RemoveLock, vars, budget, history
  <2> QED
    BY <2>1 DEF EditRegistry
<1>3. \A d \in Command : pc[d] = "derive" => signals' = signals
  <2>1. CASE \E src : Ingest(src)
    <3>1. lock = None
      BY <2>1 DEF Ingest, Ready
    <3>2. \A d \in Command : pc[d] \in LockedSteps => lock = d
      BY DEF IInv, OneHolder
    <3> QED
      BY <3>1, <3>2, PlaybookAssumption DEF LockedSteps, Steps
  <2>2. CASE ~ \E src : Ingest(src)
    BY <2>2 DEF Reading, ReadProfile, Open, EditRegistry, RemoveLock, vars, inputs
  <2> QED
    BY <2>1, <2>2
<1>4. ASSUME NEW d \in Command, pc[d] \in {"write", "commit", "index"}
      PROVE  DerivedNext(job[d].run, job[d].inputs)
  <2>1. job[d].run \in Run
    BY <1>4, Types DEF WorkFits, Drafting
  <2> QED
    BY <1>1, <1>2, <1>4, <2>1, StaysDerived DEF DerivedSound
<1>5. ASSUME NEW d \in Command, pc[d] = "derive"
      PROVE  AboutToReadNext(job[d])
  <2>1. job[d].run \in Run
    BY <1>5, Types DEF WorkFits, Drafting
  <2>2. AboutToRead(job[d])
    BY <1>5 DEF DerivedSound
  <2>3. registry' = registry \/ registry' \in between'[job[d].run]
    <3>1. registry' = registry \/ \E new \in Registry : EditRegistry(new)
      BY DEF Reading, ReadProfile, Open, Ingest, RemoveLock, vars, inputs
    <3>2. ASSUME NEW new \in Registry, EditRegistry(new)
          PROVE  registry' \in between'[job[d].run]
      BY <1>5, <2>1, <3>2 DEF EditRegistry
    <3> QED
      BY <3>1, <3>2
  <2> QED
    BY <1>1, <1>2, <1>3, <1>5, <2>1, <2>2, <2>3 DEF AboutToRead, AboutToReadNext
<1>6. /\ \A i \in Successes' : DerivedNext(ledger'[i].record.run, ledger'[i].record.inputs)
      /\ index' # None => DerivedNext(index'.run, index'.inputs)
  <2>1. ASSUME NEW i \in Successes PROVE ledger[i].record.run \in Run
    <3>1. ledger \in Log(Derivation) /\ i \in 1..Len(ledger) /\ ledger[i].record # Garbled
      BY Types DEF FilesTyped, Successes, Whole
    <3>2. ledger[i] \in Line(Derivation)
      BY <3>1 DEF Log
    <3> QED
      BY <3>1, <3>2 DEF Line, Derivation
  <2>2. index # None => index.run \in Run
    BY Types DEF FilesTyped, Index
  <2> QED
    BY <1>1, <1>2, <2>1, <2>2, OutputsDerived
<1> QED
  BY <1>1, <1>4, <1>5, <1>6 DEF DerivedSound, Derived, DerivedNext, AboutToRead, AboutToReadNext

LEMMA DerivedKept == IInv /\ DerivedSound /\ [Next]_vars => DerivedSound'
<1> SUFFICES ASSUME IInv, DerivedSound, [Next]_vars PROVE DerivedSound'
  OBVIOUS
<1>1. ASSUME NEW c \in Command, Update(c) \/ Upkeep(c) PROVE DerivedSound'
  BY <1>1, DiscoverDerived, DeriveDerived, WriteMemberDerived, CommitDerived, FailureDerived,
     IndexDerived, UpkeepDerived DEF Update, Upkeep
<1>2. ASSUME NEW c \in Command, Begin(c) \/ Progress(c) \/ Mishap(c) PROVE DerivedSound'
  BY <1>1, <1>2, BeginDerived, LockDerived, MishapDerived DEF Progress
<1> QED
  BY <1>2, WorldDerived DEF Next

\* A playbook whose inputs are those of now shows what they say.
LEMMA CurrentIsDerived ==
  ASSUME IInv, DerivedSound
  PROVE  CurrentMeansDerived
<1>1. SUFFICES ASSUME Status = "current"
      PROVE  \E read \in ({registry} \cup between[index.run]) \ {None} :
               \A p \in Person :
                    LET shown == content[index.run][p] IN
                    /\ \A s \in Signal : (\E e \in shown : e.signal = s) <=>
                         /\ s \in signals /\ p \in read /\ Owner[s] = p
                         /\ LET d == Decided(overrides, s, {"suppress_signal", "unsuppress_signal"}) IN
                            d = None \/ d.action = "unsuppress_signal"
                    /\ \A e \in shown :
                         LET d == Decided(overrides, e.signal, {"reject_entry", "restore_entry"})
                             q == Decided(overrides, e.signal, {"resolve_tracked_item"})
                         IN  /\ e.review = IF d = None THEN "unreviewed"
                                           ELSE IF d.action = "reject_entry" THEN "rejected"
                                           ELSE "restored"
                             /\ e.resolution = IF q = None \/ e.signal \notin Tracked THEN None
                                               ELSE q.state
  BY DEF CurrentMeansDerived
<1>2. index # None /\ index.inputs = Now
  BY <1>1 DEF Status, Usable
<1>3. PICK read \in ({registry} \cup between[index.run]) \ {None} :
        content[index.run] = Profiles(read, signals, overrides)
  BY <1>2 DEF DerivedSound, Derived, Now
<1> DEFINE state == Reviews(overrides)
<1>4. Agrees(state, overrides) /\ signals \subseteq Signal /\ overrides \in Log(Event)
  BY LastDecisionsCount, Types DEF FilesTyped
<1> SUFFICES ASSUME NEW p \in Person
             PROVE  LET shown == content[index.run][p] IN
                    /\ \A s \in Signal : (\E e \in shown : e.signal = s) <=>
                         /\ s \in signals /\ p \in read /\ Owner[s] = p
                         /\ LET d == Decided(overrides, s, {"suppress_signal", "unsuppress_signal"}) IN
                            d = None \/ d.action = "unsuppress_signal"
                    /\ \A e \in shown :
                         LET d == Decided(overrides, e.signal, {"reject_entry", "restore_entry"})
                             q == Decided(overrides, e.signal, {"resolve_tracked_item"})
                         IN  /\ e.review = IF d = None THEN "unreviewed"
                                           ELSE IF d.action = "reject_entry" THEN "rejected"
                                           ELSE "restored"
                             /\ e.resolution = IF q = None \/ e.signal \notin Tracked THEN None
                                               ELSE q.state
  BY <1>3
<1> DEFINE shown == content[index.run][p]
           left == {t \in signals \ state.suppressed : p \in read /\ Owner[t] = p}
           told(s) == IF s \in Tracked THEN state.resolution[s] ELSE None
<1>5. shown = {[signal |-> s, review |-> state.entry[s], resolution |-> told(s)] : s \in left}
  BY <1>3 DEF Profiles, told
<1> HIDE DEF state, shown, left, told
<1>6. ASSUME NEW s \in Signal
      PROVE  s \in state.suppressed <=>
               LET d == Decided(overrides, s, Suppression) IN
               ~ (d = None \/ d.action = "unsuppress_signal")
  <2>1. SuppressionSays(state, s, Decided(overrides, s, Suppression))
    BY <1>4 DEF Agrees
  <2>2. Decided(overrides, s, Suppression) # None =>
          Decided(overrides, s, Suppression).action \in Suppression
    <3>1. On(overrides, s, Suppression) = {} => Decided(overrides, s, Suppression) = None
      BY DEF Decided
    <3> QED
      BY <1>4, <3>1, DecidedIsLast DEF On
  <2> QED
    BY <2>1, <2>2 DEF SuppressionSays, Suppression
<1>7. ASSUME NEW s \in Signal
      PROVE  (\E e \in shown : e.signal = s) <=>
               /\ s \in signals /\ p \in read /\ Owner[s] = p
               /\ LET d == Decided(overrides, s, Suppression) IN
                  d = None \/ d.action = "unsuppress_signal"
  <2>1. (\E e \in shown : e.signal = s) <=> s \in left
    <3>1. ASSUME NEW e \in shown, e.signal = s PROVE s \in left
      <4>1. PICK t \in left :
              e = [signal |-> t, review |-> state.entry[t], resolution |-> told(t)]
        BY <1>5
      <4>2. e.signal = t
        BY <4>1
      <4> QED
        BY <3>1, <4>2
    <3>2. ASSUME s \in left PROVE \E e \in shown : e.signal = s
      <4> DEFINE e == [signal |-> s, review |-> state.entry[s], resolution |-> told(s)]
      <4>1. e \in shown
        BY <1>5, <3>2
      <4>2. e.signal = s
        OBVIOUS
      <4> QED
        BY <4>1, <4>2
    <3> QED
      BY <3>1, <3>2
  <2> QED
    BY <1>6, <2>1 DEF left
<1>8. ASSUME NEW e \in shown
      PROVE  LET d == Decided(overrides, e.signal, Entries)
                 q == Decided(overrides, e.signal, Items)
             IN  /\ e.review = IF d = None THEN "unreviewed"
                               ELSE IF d.action = "reject_entry" THEN "rejected" ELSE "restored"
                 /\ e.resolution = IF q = None \/ e.signal \notin Tracked THEN None
                                   ELSE q.state
  <2>1. PICK s \in left :
          e = [signal |-> s, review |-> state.entry[s], resolution |-> told(s)]
    BY <1>5
  <2>2. s \in Signal /\ e.signal = s /\ e.review = state.entry[s] /\ e.resolution = told(s)
    BY <1>4, <2>1 DEF left
  <2>3. /\ EntrySays(state, s, Decided(overrides, s, Entries))
        /\ ResolutionSays(state, s, Decided(overrides, s, Items))
    BY <1>4, <2>2 DEF Agrees
  <2> QED
    BY <2>2, <2>3 DEF EntrySays, ResolutionSays, told
<1> QED
  BY <1>7, <1>8 DEF shown, Suppression, Entries, Items

\* "current" is never said of profiles that do not show the signals and the
\* reviews of now and, but for a registry edit taken back during the derivation,
\* the people of now: however updates, reviews, repairs, ingests, edits and
\* kills are interleaved.
THEOREM CurrentIsTrue == Spec => []CurrentMeansDerived
<1>1. Init => DerivedSound
  BY DEF Init, DerivedSound, Successes, Whole
<1>2. IInv /\ DerivedSound => CurrentMeansDerived
  BY CurrentIsDerived
<1> QED
  BY <1>1, <1>2, DerivedKept, InvariantHolds, PTL DEF Spec
=============================================================================
