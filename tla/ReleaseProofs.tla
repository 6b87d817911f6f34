---------------------------- MODULE ReleaseProofs ----------------------------
(***************************************************************************)
(* Proofs about RuntimeRelease for any number of builds, receipts, roots   *)
(* and commands and any bounds.                                            *)
(*                                                                         *)
(* IInv is shown to hold initially and to be preserved by every step; the  *)
(* safety of releases and pins and the promise of ReleasePromise follow.   *)
(***************************************************************************)
EXTENDS ReleaseInvariant, TLAPS

-----------------------------------------------------------------------------
(* Steps of a command in general.                                          *)

\* The types of everything but the lock and the commands.
ReleasesTyped ==
  /\ channel \in Channel
  /\ wheels \subseteq Build /\ receipts \in [Build -> Receipt \cup {None}]
  /\ tool \in Build \cup {None}
  /\ skill \in [Root -> Bundle \cup {None}] /\ agent \in [Root -> Bundle \cup {None}]
  /\ pin \in [Root -> Pin \cup {None}]
  /\ starts \in Nat /\ faults \in Nat

\* What store, channel and pins say of each other.
ReleasesSound == StoreOrdered /\ ChannelServed /\ PinsSound

LEMMA IInvSplit ==
  IInv <=> /\ lock \in Command \cup {None} /\ pc \in [Command -> Steps]
           /\ job \in [Command -> Job]
           /\ ReleasesTyped /\ OnePublisher /\ ReleasesSound /\ WorkSound
  BY DEF IInv, TypeOK, ReleasesTyped, ReleasesSound

LEMMA Types ==
  IInv => /\ pc \in [Command -> Steps] /\ job \in [Command -> Job]
          /\ ReleasesTyped /\ ReleasesSound
          /\ \A c \in Command : WorkFits(pc[c], job[c])
          /\ \A c \in Command : pc[c] \in Publishing => lock = c
  BY IInvSplit DEF WorkSound, OnePublisher

LEMMA IdleJob ==
  NoJob \in Job /\ WorkFits("idle", NoJob)
  BY DEF NoJob, Job, WorkFits, Selecting

\* A release stays in the store.
StoreKept ==
  /\ \A b \in Build : receipts[b] # None => receipts'[b] = receipts[b]
  /\ wheels \subseteq wheels'

\* A step of c keeps the invariant when the locked section is entered and left
\* with the lock, the store only grows, store, channel and pins are sound after
\* it, and c knows at its new step what that step relies on.
LEMMA CommandStep ==
  ASSUME IInv, NEW c \in Command, NEW to \in Steps, NEW j \in Job,
         Go(c, to, j),
         \/ lock' = lock /\ (to \in Publishing => pc[c] \in Publishing)
         \/ lock = None /\ lock' = c
         \/ lock' = None /\ pc[c] \in Publishing /\ to \notin Publishing,
         StoreKept, channel' = channel \/ pc[c] \in Publishing,
         ReleasesTyped', ReleasesSound', WorkFits(to, j)'
  PROVE  IInv'
<1>1. /\ lock \in Command \cup {None} /\ pc \in [Command -> Steps]
      /\ job \in [Command -> Job] /\ OnePublisher /\ WorkSound /\ ReleasesTyped
  BY IInvSplit
<1>2. /\ pc' \in [Command -> Steps] /\ job' \in [Command -> Job]
      /\ lock' \in Command \cup {None}
      /\ pc'[c] = to /\ job'[c] = j
      /\ \A b \in Command \ {c} : pc'[b] = pc[b] /\ job'[b] = job[b]
  BY <1>1 DEF Go
<1>3. OnePublisher'
  BY <1>1, <1>2, NoneIsNothing DEF OnePublisher
<1>4. WorkSound'
  <2>1. WorkFits(pc[c], job[c])'
    BY <1>2 DEF WorkFits
  <2>2. ASSUME NEW b \in Command \ {c}
        PROVE  WorkFits(pc[b], job[b])'
    <3>1. PICK at \in Steps, its \in Job : at = pc[b] /\ its = job[b]
      BY <1>1
    <3>2. pc'[b] = at /\ job'[b] = its /\ WorkFits(at, its)
      BY <1>1, <1>2, <3>1 DEF WorkSound
    <3>3. at \in {"wheel", "receipt", "advance"} => Successor(its.receipt)' = Successor(its.receipt)
      <4>1. at \in {"wheel", "receipt", "advance"} => pc[c] \notin Publishing
        BY <1>1, <3>1 DEF OnePublisher, Publishing
      <4> QED
        BY <4>1 DEF Successor, Listed
    <3>4. \A r \in Receipt : BuildOf[r] \in wheels => BuildOf[r] \in wheels'
      BY DEF StoreKept
    <3>5. \A r \in Receipt : receipts[BuildOf[r]] = r => receipts'[BuildOf[r]] = r
      BY ReleaseAssumption, NoneIsNothing DEF StoreKept
    <3>6. \A p \in Pin : Sound(p) => Sound(p)'
      <4>1. \A p \in Pin : p.receipt \in Receipt
        BY DEF Pin
      <4> QED
        BY <3>5, <4>1 DEF Sound
    <3>7. WorkFits(at, its)'
      BY <3>2, <3>3, <3>4, <3>5, <3>6 DEF WorkFits, Selecting
    <3> QED
      BY <3>2, <3>7 DEF WorkFits
  <2> QED
    BY <2>1, <2>2 DEF WorkSound
<1> QED
  BY <1>2, <1>3, <1>4, IInvSplit DEF IInv, TypeOK, ReleasesTyped, ReleasesSound

\* A step of c that leaves store, channel and pins alone.
LEMMA QuietCommand ==
  ASSUME IInv, NEW c \in Command, NEW to \in Steps, NEW j \in Job,
         Go(c, to, j),
         \/ lock' = lock /\ (to \in Publishing => pc[c] \in Publishing)
         \/ lock = None /\ lock' = c
         \/ lock' = None /\ pc[c] \in Publishing /\ to \notin Publishing,
         UNCHANGED <<channel, wheels, receipts, pin>>,
         tool' \in Build \cup {None},
         skill' \in [Root -> Bundle \cup {None}], agent' \in [Root -> Bundle \cup {None}],
         starts' \in Nat, faults' \in Nat,
         WorkFits(to, j)
  PROVE  IInv'
<1>1. ReleasesTyped /\ ReleasesSound
  BY IInvSplit
<1>2. ReleasesTyped'
  BY <1>1 DEF ReleasesTyped
<1>3. ReleasesSound'
  BY <1>1 DEF ReleasesSound, StoreOrdered, ChannelServed, Listed, Released, PinsSound, Sound
<1>4. WorkFits(to, j)'
  BY DEF WorkFits, Successor, Listed, Sound
<1>5. StoreKept
  BY DEF StoreKept
<1> QED
  BY <1>2, <1>3, <1>4, <1>5, CommandStep

\* The end of a command; a publish that dies leaves its lock behind.
LEMMA QuitKeeps ==
  ASSUME IInv, NEW c \in Command, Quit(c),
         lock' = lock \/ (lock' = None /\ pc[c] \in Publishing),
         UNCHANGED <<channel, wheels, receipts, pin>>,
         tool' \in Build \cup {None},
         skill' \in [Root -> Bundle \cup {None}], agent' \in [Root -> Bundle \cup {None}],
         starts' \in Nat, faults' \in Nat
  PROVE  IInv'
<1>1. "idle" \in Steps \ Publishing
  BY DEF Steps, Publishing
<1>2. Go(c, "idle", NoJob)
  BY DEF Quit
<1> HIDE DEF Steps
<1> QED
  BY <1>1, <1>2, IdleJob, QuietCommand

-----------------------------------------------------------------------------
(* Begin.                                                                  *)

LEMMA StartKeeps ==
  ASSUME IInv, NEW c \in Command, NEW to \in Steps \ Publishing, NEW j \in Job,
         Start(c, to, j), starts' \in Nat, WorkFits(to, j)
  PROVE  IInv'
<1>1. UNCHANGED <<channel, wheels, receipts, pin, tool, skill, agent, lock, faults>> /\ Go(c, to, j)
  BY DEF Start, store, files
<1>2. ReleasesTyped
  BY Types
<1> HIDE DEF Steps, Publishing, Job
<1> QED
  BY <1>1, <1>2, QuietCommand DEF ReleasesTyped

\* The bounds on commands.
LEMMA StartsTyped ==
  IInv => /\ starts \in Nat /\ (Counted => starts' \in Nat)
          /\ tool # None => tool \in Build
  BY Types DEF ReleasesTyped, Counted

LEMMA BeginKeeps ==
  ASSUME IInv, NEW c \in Command, Begin(c)
  PROVE  IInv'
<1> USE StartsTyped
<1>1. ASSUME NEW r \in Receipt, StartPublish(c, r) PROVE IInv'
  <2> DEFINE j == [NoJob EXCEPT !.op = "publish", !.receipt = r]
  <2>1. j \in Job /\ WorkFits("lock", j) /\ "lock" \in Steps \ Publishing
    BY DEF NoJob, Job, Op, WorkFits, Selecting, Steps, Publishing
  <2>2. Start(c, "lock", j) /\ starts' \in Nat
    BY <1>1 DEF StartPublish
  <2> HIDE DEF j
  <2> QED
    BY <2>1, <2>2, StartKeeps
<1>2. ASSUME NEW r \in Receipt, StartInstall(c, r) PROVE IInv'
  <2> DEFINE j == [NoJob EXCEPT !.op = "install", !.receipt = r]
  <2>1. j \in Job /\ WorkFits("uninstall", j) /\ "uninstall" \in Steps \ Publishing
    BY DEF NoJob, Job, Op, WorkFits, Selecting, Steps, Publishing
  <2>2. Start(c, "uninstall", j) /\ starts' \in Nat
    BY <1>2 DEF StartInstall
  <2> HIDE DEF j
  <2> QED
    BY <2>1, <2>2, StartKeeps
<1>3. ASSUME NEW x \in Root, StartUpdate(c, x) PROVE IInv'
  <2>1. PICK b \in Build : b = tool
    BY <1>3 DEF StartUpdate
  <2> DEFINE j == [NoJob EXCEPT !.op = "update", !.root = x, !.running = b]
  <2>2. j \in Job /\ WorkFits("select", j) /\ "select" \in Steps \ Publishing
    BY DEF NoJob, Job, Op, WorkFits, Selecting, Steps, Publishing
  <2>3. Start(c, "select", j) /\ starts' \in Nat
    BY <1>3, <2>1 DEF StartUpdate
  <2> HIDE DEF j
  <2> QED
    BY <2>2, <2>3, StartKeeps
<1>4. ASSUME NEW x \in Root, StartInit(c, x) PROVE IInv'
  <2>1. PICK b \in Build : b = tool
    BY <1>4 DEF StartInit
  <2> DEFINE j == [NoJob EXCEPT !.op = "init", !.root = x, !.running = b]
  <2>2. j \in Job /\ WorkFits("select", j) /\ "select" \in Steps \ Publishing
    BY DEF NoJob, Job, Op, WorkFits, Selecting, Steps, Publishing
  <2>3. Start(c, "select", j) /\ starts' \in Nat
    BY <1>4, <2>1 DEF StartInit
  <2> HIDE DEF j
  <2> QED
    BY <2>2, <2>3, StartKeeps
<1>5. ASSUME NEW x \in Root, NEW r \in Receipt, StartWorkflow(c, x, r) PROVE IInv'
  <2> DEFINE j == [NoJob EXCEPT !.op = "workflow", !.root = x, !.receipt = r]
  <2>1. j \in Job /\ WorkFits("render", j) /\ "render" \in Steps \ Publishing
    BY DEF NoJob, Job, Op, WorkFits, Selecting, Steps, Publishing
  <2>2. Start(c, "render", j) /\ starts' \in Nat
    BY <1>5 DEF StartWorkflow
  <2> HIDE DEF j
  <2> QED
    BY <2>1, <2>2, StartKeeps
<1>6. ASSUME NEW x \in Root, NEW r \in Receipt, StartPin(c, x, r) PROVE IInv'
  <2>1. PICK b \in Build : b = tool
    BY <1>6 DEF StartPin
  <2> DEFINE j == [NoJob EXCEPT !.op = "pin", !.root = x, !.receipt = r, !.running = b]
  <2>2. j \in Job /\ WorkFits("verify", j) /\ "verify" \in Steps \ Publishing
    BY DEF NoJob, Job, Op, WorkFits, Selecting, Steps, Publishing
  <2>3. Start(c, "verify", j) /\ starts' \in Nat
    BY <1>6, <2>1 DEF StartPin
  <2> HIDE DEF j
  <2> QED
    BY <2>2, <2>3, StartKeeps
<1> QED
  BY <1>1, <1>2, <1>3, <1>4, <1>5, <1>6 DEF Begin

-----------------------------------------------------------------------------
(* publish.                                                                *)

LEMMA LockKeeps ==
  ASSUME IInv, NEW c \in Command, Lock(c)
  PROVE  IInv'
<1>1. ReleasesTyped /\ WorkFits("lock", job[c]) /\ pc[c] = "lock"
      /\ UNCHANGED <<channel, wheels, receipts, pin, tool, skill, agent, starts, faults>>
  BY Types DEF Lock, store, files, budget
<1>2. CASE lock = None /\ lock' = c /\ Step(c, "lock", "plan")
  <2>1. PICK j \in Job : j = job[c]
    BY Types
  <2>2. WorkFits("plan", j) /\ "plan" \in Steps
    BY <1>1, <2>1 DEF WorkFits, Selecting, Steps, Publishing
  <2>3. Go(c, "plan", j)
    BY <1>2, <2>1 DEF Step
  <2> HIDE DEF Steps, Job
  <2> QED
    BY <1>1, <1>2, <2>2, <2>3, QuietCommand DEF ReleasesTyped
<1>3. CASE Quit(c) /\ UNCHANGED lock
  BY <1>1, <1>3, QuitKeeps DEF ReleasesTyped
<1> QED
  BY <1>2, <1>3 DEF Lock

LEMMA PlanKeeps ==
  ASSUME IInv, NEW c \in Command, Plan(c)
  PROVE  IInv'
<1>1. ReleasesTyped /\ WorkFits("plan", job[c]) /\ pc[c] = "plan" /\ job[c] \in Job
      /\ UNCHANGED <<lock, channel, wheels, receipts, pin, tool, skill, agent, starts, faults>>
  BY Types DEF Plan, store, files, budget
<1>2. job[c].receipt \in Receipt
  BY <1>1 DEF WorkFits
<1>3. Successor(job[c].receipt) \in Channel
  BY <1>1, <1>2 DEF Successor, Listed, Channel, ReleasesTyped
<1>4. PICK j \in Job : j = [job[c] EXCEPT !.plan = Successor(job[c].receipt)]
  BY <1>1, <1>3 DEF Job
<1>5. /\ j.op = job[c].op /\ j.receipt = job[c].receipt /\ j.root = job[c].root
      /\ j.plan = Successor(j.receipt)
  BY <1>1, <1>4 DEF Job
<1>6. WorkFits("wheel", j) /\ "wheel" \in Steps \cap Publishing /\ "plan" \in Publishing
  BY <1>1, <1>5 DEF WorkFits, Selecting, Steps, Publishing
<1>7. Go(c, "wheel", j)
  BY <1>4 DEF Plan, Successor
<1> HIDE DEF Steps, Job
<1> QED
  BY <1>1, <1>6, <1>7, QuietCommand DEF ReleasesTyped

\* The copies add to the store, and what is in it stays.
LEMMA CopyWheelKeeps ==
  ASSUME IInv, NEW c \in Command, CopyWheel(c)
  PROVE  IInv'
<1>1. /\ ReleasesTyped /\ ReleasesSound /\ WorkFits("wheel", job[c]) /\ pc[c] = "wheel"
      /\ wheels' = wheels \cup {BuildOf[job[c].receipt]}
      /\ UNCHANGED <<lock, channel, receipts, pin, tool, skill, agent, starts, faults>>
  BY Types DEF CopyWheel, Step, files, budget
<1>2. PICK j \in Job : j = job[c]
  BY Types
<1>3. Go(c, "receipt", j)
  BY <1>2 DEF CopyWheel, Step
<1>4. j.receipt \in Receipt /\ BuildOf[j.receipt] \in Build
  BY <1>1, <1>2, ReleaseAssumption DEF WorkFits
<1>5. ReleasesTyped' /\ StoreKept
  BY <1>1, <1>2, <1>4 DEF ReleasesTyped, StoreKept
<1>6. ReleasesSound'
  BY <1>1 DEF ReleasesSound, StoreOrdered, ChannelServed, Listed, Released, PinsSound, Sound
<1>7. WorkFits("receipt", j)' /\ "receipt" \in Steps \cap Publishing /\ "wheel" \in Publishing
  <2>1. Successor(j.receipt)' = Successor(j.receipt)
    BY <1>1 DEF Successor, Listed
  <2> QED
    BY <1>1, <1>2, <2>1 DEF WorkFits, Selecting, Steps, Publishing
<1> HIDE DEF Steps, Job
<1> QED
  BY <1>1, <1>3, <1>5, <1>6, <1>7, CommandStep

LEMMA CopyReceiptKeeps ==
  ASSUME IInv, NEW c \in Command, CopyReceipt(c)
  PROVE  IInv'
<1>1. PICK j \in Job : j = job[c]
  BY Types
<1> DEFINE r == j.receipt
           b == BuildOf[r]
<1>0. PICK to \in {"advance", "unlock"} :
        to = IF receipts[b] \in {None, r} THEN "advance" ELSE "unlock"
  OBVIOUS
<1>2. /\ ReleasesTyped /\ ReleasesSound /\ WorkFits("receipt", j) /\ pc[c] = "receipt"
      /\ receipts' = [receipts EXCEPT ![b] = IF @ = None THEN r ELSE @]
      /\ UNCHANGED <<lock, channel, wheels, pin, tool, skill, agent, starts, faults>>
      /\ Go(c, to, j)
  BY <1>0, <1>1, Types DEF CopyReceipt, Step, files, budget
<1>3. r \in Receipt /\ b \in Build /\ b \in wheels
  BY <1>2, ReleaseAssumption DEF WorkFits
<1>4. receipts \in [Build -> Receipt \cup {None}]
  BY <1>2 DEF ReleasesTyped
<1>5. /\ \A d \in Build \ {b} : receipts'[d] = receipts[d]
      /\ receipts[b] # None => receipts'[b] = receipts[b]
      /\ receipts[b] = None => receipts'[b] = r
      /\ receipts' \in [Build -> Receipt \cup {None}]
  BY <1>2, <1>3, <1>4
<1> HIDE DEF r, b
<1>6. ReleasesTyped' /\ StoreKept
  BY <1>2, <1>5 DEF ReleasesTyped, StoreKept
<1>7. ReleasesSound'
  <2>1. StoreOrdered'
    BY <1>2, <1>3, <1>5 DEF ReleasesSound, StoreOrdered, b
  <2>2. \A q \in Receipt : receipts[BuildOf[q]] = q => receipts'[BuildOf[q]] = q
    BY <1>5, ReleaseAssumption, NoneIsNothing
  <2>3. ChannelServed'
    <3>1. Listed \subseteq Receipt
      BY <1>2 DEF Listed, ReleasesTyped, Channel
    <3> QED
      BY <1>2, <2>2, <3>1 DEF ReleasesSound, ChannelServed, Listed, Released
  <2>4. PinsSound'
    <3>1. \A x \in Root : pin[x] # None => pin[x].receipt \in Receipt
      BY <1>2 DEF ReleasesTyped, Pin
    <3> QED
      BY <1>2, <2>2, <3>1 DEF ReleasesSound, PinsSound, Sound
  <2> QED
    BY <2>1, <2>3, <2>4 DEF ReleasesSound
<1>8. WorkFits(to, j)'
  <2>1. Successor(r)' = Successor(r)
    BY <1>2 DEF Successor, Listed
  <2>2. to = "advance" => receipts'[b] = r
    BY <1>0, <1>5
  <2> QED
    BY <1>2, <2>1, <2>2 DEF WorkFits, Selecting, r, b
<1>9. to \in Steps \cap Publishing /\ "receipt" \in Publishing
  BY DEF Steps, Publishing
<1> HIDE DEF Steps, Job
<1> QED
  BY <1>2, <1>6, <1>7, <1>8, <1>9, CommandStep

\* The channel is replaced by the manifest that was planned for it.
LEMMA AdvanceKeeps ==
  ASSUME IInv, NEW c \in Command, Advance(c)
  PROVE  IInv'
<1>1. PICK j \in Job : j = job[c]
  BY Types
<1>2. /\ ReleasesTyped /\ ReleasesSound /\ WorkFits("advance", j) /\ pc[c] = "advance"
      /\ channel' = Successor(j.receipt)
      /\ UNCHANGED <<lock, wheels, receipts, pin, tool, skill, agent, starts, faults>>
      /\ Go(c, "unlock", j)
  BY <1>1, Types DEF Advance, Step, WorkFits, store, files, budget
<1>3. j.receipt \in Receipt /\ Released(j.receipt)
  BY <1>2 DEF WorkFits, Released
<1>4. channel' \in Channel /\ Listed' \subseteq Listed \cup {j.receipt}
      /\ channel'.latest = j.receipt
      /\ \A q \in channel'.previous : BuildOf[q] # BuildOf[j.receipt]
  BY <1>2, <1>3 DEF Successor, Listed, Channel, ReleasesTyped
<1>5. ReleasesTyped' /\ StoreKept
  BY <1>2, <1>4 DEF ReleasesTyped, StoreKept
<1>6. ChannelServed'
  BY <1>2, <1>3, <1>4 DEF ReleasesSound, ChannelServed, Released
<1>7. ReleasesSound'
  BY <1>2, <1>6 DEF ReleasesSound, StoreOrdered, PinsSound, Sound
<1>8. WorkFits("unlock", j)' /\ "unlock" \in Steps \cap Publishing /\ "advance" \in Publishing
  BY <1>2 DEF WorkFits, Selecting, Steps, Publishing
<1> HIDE DEF Steps, Job
<1> QED
  BY <1>2, <1>5, <1>7, <1>8, CommandStep

LEMMA PublishKeeps ==
  ASSUME IInv, NEW c \in Command, Publish(c)
  PROVE  IInv'
<1>1. CASE Unlock(c)
  <2>1. UNCHANGED <<channel, wheels, receipts, pin, tool, skill, agent, starts, faults>>
        /\ lock' = None /\ pc[c] \in Publishing /\ Quit(c) /\ ReleasesTyped
    BY <1>1, Types DEF Unlock, store, files, budget, Publishing
  <2> QED
    BY <2>1, QuitKeeps DEF ReleasesTyped
<1> QED
  BY <1>1, LockKeeps, PlanKeeps, CopyWheelKeeps, CopyReceiptKeeps, AdvanceKeeps DEF Publish

-----------------------------------------------------------------------------
(* The tool.                                                               *)

\* What the steps of an installation and of a selection leave alone.
Frame == UNCHANGED <<lock, channel, wheels, receipts, starts, faults>>

LEMMA ReinstallKeeps ==
  ASSUME IInv, NEW c \in Command, Reinstall(c)
  PROVE  IInv'
<1>1. PICK j \in Job : j = job[c]
  BY Types
<1>2. ReleasesTyped /\ WorkFits(pc[c], j)
  BY <1>1, Types
<1>3. CASE Uninstall(c)
  <2>1. pc[c] = "uninstall" /\ Frame /\ UNCHANGED <<pin, skill, agent>> /\ tool' = None
        /\ Go(c, "install", j)
    BY <1>1, <1>3 DEF Uninstall, Step, Frame, store, files, budget
  <2>2. WorkFits("install", j) /\ "install" \in Steps \ Publishing
    BY <1>2, <2>1 DEF WorkFits, Selecting, Steps, Publishing
  <2> HIDE DEF Steps, Job
  <2> QED
    BY <1>2, <2>1, <2>2, QuietCommand DEF ReleasesTyped, Frame
<1>4. CASE Install(c)
  <2>1. pc[c] = "install" /\ Frame /\ UNCHANGED <<pin, skill, agent>>
        /\ tool' = BuildOf[j.receipt] /\ Go(c, "match", j)
    BY <1>1, <1>4 DEF Install, Step, Frame, store, files, budget
  <2>2. WorkFits("match", j) /\ "match" \in Steps \ Publishing
    BY <1>2, <2>1 DEF WorkFits, Selecting, Steps, Publishing
  <2>3. tool' \in Build
    BY <1>2, <2>1, ReleaseAssumption DEF WorkFits
  <2> HIDE DEF Steps, Job
  <2> QED
    BY <1>2, <2>1, <2>2, <2>3, QuietCommand DEF ReleasesTyped, Frame
<1>5. CASE Match(c)
  <2>1. pc[c] = "match" /\ Frame /\ UNCHANGED <<tool, pin, skill, agent>>
    BY <1>5 DEF Match, Frame, store, files, budget
  <2>2. CASE Quit(c)
    BY <1>2, <2>1, <2>2, QuitKeeps DEF ReleasesTyped, Frame
  <2>3. CASE j.op = "update" /\ Go(c, "hand over", j)
    <3>1. WorkFits("hand over", j) /\ "hand over" \in Steps \ Publishing
      BY <1>2, <2>1, <2>3 DEF WorkFits, Selecting, Steps, Publishing
    <3> HIDE DEF Steps, Job
    <3> QED
      BY <1>2, <2>1, <2>3, <3>1, QuietCommand DEF ReleasesTyped, Frame
  <2> QED
    BY <1>1, <1>5, <2>2, <2>3 DEF Match, Step
<1>6. CASE HandOver(c)
  <2>1. pc[c] = "hand over" /\ Frame /\ UNCHANGED <<tool, pin, skill, agent>>
    BY <1>6 DEF HandOver, Frame, store, files, budget
  <2>2. CASE tool = None
    <3>1. Quit(c)
      BY <1>6, <2>2 DEF HandOver
    <3> QED
      BY <1>2, <2>1, <3>1, QuitKeeps DEF ReleasesTyped, Frame
  <2>3. CASE tool # None
    <3>1. PICK b \in Build : b = tool
      BY <1>2, <2>3 DEF ReleasesTyped
    <3>2. PICK x \in Root : x = j.root
      BY <1>2, <2>1 DEF WorkFits, Selecting
    <3> DEFINE k == [NoJob EXCEPT !.op = "update", !.root = x, !.running = b, !.delegated = TRUE]
    <3>3. k \in Job /\ WorkFits("select", k) /\ "select" \in Steps \ Publishing
      BY DEF NoJob, Job, Op, WorkFits, Selecting, Steps, Publishing
    <3>4. Go(c, "select", k)
      BY <1>1, <1>6, <2>3, <3>1, <3>2 DEF HandOver
    <3> HIDE DEF Steps, Job, k
    <3> QED
      BY <1>2, <2>1, <3>3, <3>4, QuietCommand DEF ReleasesTyped, Frame
  <2> QED
    BY <2>2, <2>3
<1> QED
  BY <1>3, <1>4, <1>5, <1>6 DEF Reinstall

-----------------------------------------------------------------------------
(* The selection of a build for a root.                                    *)

LEMMA SelectForUpdateKeeps ==
  ASSUME IInv, NEW c \in Command, SelectForUpdate(c)
  PROVE  IInv'
<1>1. PICK j \in Job : j = job[c]
  BY Types
<1>2. /\ ReleasesTyped /\ WorkFits("select", j) /\ pc[c] = "select" /\ j.op = "update"
      /\ Frame /\ UNCHANGED <<tool, pin, skill, agent>>
  BY <1>1, Types DEF SelectForUpdate, Frame, store, files, budget
<1>3. CASE Quit(c)
  BY <1>2, <1>3, QuitKeeps DEF ReleasesTyped, Frame
<1>4. ASSUME NEW to \in {"render", "uninstall"}, channel.latest # None,
             Go(c, to, [j EXCEPT !.receipt = channel.latest])
      PROVE  IInv'
  <2>1. PICK r \in Receipt : r = channel.latest
    BY <1>2, <1>4 DEF ReleasesTyped, Channel
  <2>2. PICK k \in Job : k = [j EXCEPT !.receipt = r]
    BY DEF Job
  <2>3. k.op = "update" /\ k.receipt = r /\ k.root = j.root
    BY <1>2, <2>2 DEF Job
  <2>4. WorkFits(to, k) /\ to \in Steps \ Publishing
    BY <1>2, <2>3 DEF WorkFits, Selecting, Steps, Publishing, Op
  <2>5. Go(c, to, k)
    BY <1>4, <2>1, <2>2
  <2> HIDE DEF Steps, Job
  <2> QED
    BY <1>2, <2>4, <2>5, QuietCommand DEF ReleasesTyped, Frame
<1> QED
  BY <1>1, <1>3, <1>4 DEF SelectForUpdate, Available

LEMMA SelectForInitKeeps ==
  ASSUME IInv, NEW c \in Command, SelectForInit(c)
  PROVE  IInv'
<1>1. PICK j \in Job : j = job[c]
  BY Types
<1>2. /\ ReleasesTyped /\ WorkFits("select", j) /\ pc[c] = "select" /\ j.op = "init"
      /\ Frame /\ UNCHANGED <<tool, pin, skill, agent>>
  BY <1>1, Types DEF SelectForInit, Frame, store, files, budget
<1>3. CASE Quit(c)
  BY <1>2, <1>3, QuitKeeps DEF ReleasesTyped, Frame
<1>4. CASE Available /\ Go(c, "render", [j EXCEPT !.receipt = channel.latest])
  <2>1. PICK r \in Receipt : r = channel.latest
    BY <1>2, <1>4 DEF ReleasesTyped, Channel, Available
  <2>2. PICK k \in Job : k = [j EXCEPT !.receipt = r]
    BY DEF Job
  <2>3. k.op = "init" /\ k.receipt = r /\ k.root = j.root
    BY <1>2, <2>2 DEF Job
  <2>4. WorkFits("render", k) /\ "render" \in Steps \ Publishing
    BY <1>2, <2>3 DEF WorkFits, Selecting, Steps, Publishing, Op
  <2>5. Go(c, "render", k)
    BY <1>4, <2>1, <2>2
  <2> HIDE DEF Steps, Job
  <2> QED
    BY <1>2, <2>4, <2>5, QuietCommand DEF ReleasesTyped, Frame
<1> QED
  BY <1>1, <1>3, <1>4 DEF SelectForInit

LEMMA RenderKeeps ==
  ASSUME IInv, NEW c \in Command, Render(c)
  PROVE  IInv'
<1>1. PICK j \in Job : j = job[c]
  BY Types
<1>2. /\ ReleasesTyped /\ WorkFits("render", j) /\ pc[c] = "render"
      /\ Frame /\ UNCHANGED <<tool, pin, skill, agent>>
  BY <1>1, Types DEF Render, Frame, store, files, budget
<1>3. CASE Quit(c)
  BY <1>2, <1>3, QuitKeeps DEF ReleasesTyped, Frame
<1>4. CASE Go(c, "skill", [j EXCEPT !.old = [skill |-> skill[j.root], agent |-> agent[j.root]]])
  <2>1. PICK s \in Bundle \cup {None}, a \in Bundle \cup {None} :
          s = skill[j.root] /\ a = agent[j.root]
    BY <1>2 DEF ReleasesTyped, WorkFits, Selecting
  <2>2. PICK k \in Job : k = [j EXCEPT !.old = [skill |-> s, agent |-> a]]
    BY DEF Job
  <2>3. k.op = j.op /\ k.receipt = j.receipt /\ k.root = j.root
    BY <2>2 DEF Job
  <2>4. WorkFits("skill", k) /\ "skill" \in Steps \ Publishing
    BY <1>2, <2>3 DEF WorkFits, Selecting, Steps, Publishing, Op
  <2>5. Go(c, "skill", k)
    BY <1>4, <2>1, <2>2
  <2> HIDE DEF Steps, Job
  <2> QED
    BY <1>2, <2>4, <2>5, QuietCommand DEF ReleasesTyped, Frame
<1> QED
  BY <1>1, <1>3, <1>4 DEF Render

\* The workflow files are of some build, or not there.
LEMMA RenderedTyped ==
  ASSUME NEW r \in Receipt
  PROVE  BundleOf[BuildOf[r]] \in Bundle
BY ReleaseAssumption DEF Bundle

LEMMA WriteFilesKeep ==
  ASSUME IInv, NEW c \in Command,
         WriteSkill(c) \/ WriteSkillAlone(c) \/ WriteAgent(c)
  PROVE  IInv'
<1>1. PICK j \in Job : j = job[c]
  BY Types
<1>2. ReleasesTyped /\ WorkFits(pc[c], j)
  BY <1>1, Types
<1>3. CASE WriteSkill(c)
  <2>1. /\ pc[c] = "skill" /\ Frame /\ UNCHANGED <<tool, pin, agent>> /\ Go(c, "agent", j)
        /\ skill' = [skill EXCEPT ![j.root] = BundleOf[BuildOf[j.receipt]]]
    BY <1>1, <1>3 DEF WriteSkill, Step, Rendered, Frame, store, budget
  <2>2. WorkFits("agent", j) /\ "agent" \in Steps \ Publishing /\ j.receipt \in Receipt
    BY <1>2, <2>1 DEF WorkFits, Selecting, Steps, Publishing
  <2>3. skill' \in [Root -> Bundle \cup {None}]
    BY <1>2, <2>1, <2>2, RenderedTyped DEF ReleasesTyped
  <2> HIDE DEF Steps, Job
  <2> QED
    BY <1>2, <2>1, <2>2, <2>3, QuietCommand DEF ReleasesTyped, Frame
<1>4. CASE WriteSkillAlone(c)
  <2>1. /\ pc[c] = "skill" /\ Frame /\ UNCHANGED <<tool, pin, agent>> /\ Quit(c)
        /\ skill' = [skill EXCEPT ![j.root] = BundleOf[BuildOf[j.receipt]]]
    BY <1>1, <1>4 DEF WriteSkillAlone, Rendered, Frame, store, budget
  <2>2. j.receipt \in Receipt
    BY <1>2, <2>1 DEF WorkFits, Selecting
  <2>3. skill' \in [Root -> Bundle \cup {None}]
    BY <1>2, <2>1, <2>2, RenderedTyped DEF ReleasesTyped
  <2> QED
    BY <1>2, <2>1, <2>3, QuitKeeps DEF ReleasesTyped, Frame
<1>5. CASE WriteAgent(c)
  <2>1. /\ pc[c] = "agent" /\ Frame /\ UNCHANGED <<tool, pin, skill>>
        /\ Quit(c) \/ Go(c, "verify", j)
        /\ agent' = [agent EXCEPT ![j.root] = BundleOf[BuildOf[j.receipt]]]
    BY <1>1, <1>5 DEF WriteAgent, Step, Rendered, Frame, store, budget
  <2>2. WorkFits("verify", j) /\ "verify" \in Steps \ Publishing /\ j.receipt \in Receipt
    BY <1>2, <2>1 DEF WorkFits, Selecting, Steps, Publishing
  <2>3. agent' \in [Root -> Bundle \cup {None}]
    BY <1>2, <2>1, <2>2, RenderedTyped DEF ReleasesTyped
  <2>4. CASE Quit(c)
    BY <1>2, <2>1, <2>3, <2>4, QuitKeeps DEF ReleasesTyped, Frame
  <2>5. CASE Go(c, "verify", j)
    <3> HIDE DEF Steps, Job
    <3> QED
      BY <1>2, <2>1, <2>2, <2>3, <2>5, QuietCommand DEF ReleasesTyped, Frame
  <2> QED
    BY <2>1, <2>4, <2>5
<1> QED
  BY <1>3, <1>4, <1>5

LEMMA RollBackKeeps ==
  ASSUME IInv, NEW c \in Command, RollBackAgent(c) \/ RollBackSkill(c)
  PROVE  IInv'
<1>1. PICK j \in Job : j = job[c]
  BY Types
<1>2. /\ ReleasesTyped /\ WorkFits("rollback", j) /\ pc[c] = "rollback"
      /\ Frame /\ UNCHANGED <<tool, pin>>
  BY <1>1, Types DEF RollBackAgent, RollBackSkill, Frame, store, budget
<1>3. j.old.skill \in Bundle \cup {None} /\ j.old.agent \in Bundle \cup {None}
  BY DEF Job
<1>4. CASE RollBackSkill(c)
  <2>1. Quit(c) /\ UNCHANGED agent /\ skill' = [skill EXCEPT ![j.root] = j.old.skill]
    BY <1>1, <1>4 DEF RollBackSkill
  <2>2. skill' \in [Root -> Bundle \cup {None}]
    BY <1>2, <1>3, <2>1 DEF ReleasesTyped
  <2> QED
    BY <1>2, <2>1, <2>2, QuitKeeps DEF ReleasesTyped, Frame
<1>5. CASE RollBackAgent(c)
  <2>1. /\ Go(c, "rollback", [j EXCEPT !.undo = j.undo \ {"agent"}]) /\ UNCHANGED skill
        /\ agent' = [agent EXCEPT ![j.root] = j.old.agent]
    BY <1>1, <1>5 DEF RollBackAgent
  <2>2. agent' \in [Root -> Bundle \cup {None}]
    BY <1>2, <1>3, <2>1 DEF ReleasesTyped
  <2>3. j.undo \ {"agent"} \in SUBSET {"skill", "agent"}
    BY DEF Job
  <2>4. PICK k \in Job : k = [j EXCEPT !.undo = j.undo \ {"agent"}]
    BY <2>3 DEF Job
  <2>5. k.op = j.op /\ k.receipt = j.receipt /\ k.root = j.root
    BY <2>4 DEF Job
  <2>6. WorkFits("rollback", k) /\ "rollback" \in Steps \ Publishing
    BY <1>2, <2>5 DEF WorkFits, Selecting, Steps, Publishing, Op
  <2>7. Go(c, "rollback", k)
    BY <2>1, <2>4
  <2> HIDE DEF Steps, Job
  <2> QED
    BY <1>2, <2>1, <2>2, <2>6, <2>7, QuietCommand DEF ReleasesTyped, Frame
<1> QED
  BY <1>4, <1>5

\* What pin_runtime has verified makes a sound pin.
LEMMA VerifyKeeps ==
  ASSUME IInv, NEW c \in Command, Verify(c)
  PROVE  IInv'
<1>1. PICK j \in Job : j = job[c]
  BY Types
<1>2. /\ ReleasesTyped /\ WorkFits("verify", j) /\ pc[c] = "verify"
      /\ Frame /\ UNCHANGED <<tool, pin, skill, agent>>
  BY <1>1, Types DEF Verify, Frame, store, files, budget
<1>3. CASE Quit(c)
  BY <1>2, <1>3, QuitKeeps DEF ReleasesTyped, Frame
<1> DEFINE r == j.receipt
           w == BundleOf[BuildOf[r]]
           p == [receipt |-> r, skill |-> w, agent |-> w]
<1>4. CASE receipts[BuildOf[r]] = r /\ Go(c, "pin", [j EXCEPT !.pin = p])
  <2>1. r \in Receipt /\ w \in Bundle
    BY <1>2, RenderedTyped DEF WorkFits
  <2>2. p \in Pin /\ Sound(p)
    <3> HIDE DEF w
    <3>1. p \in Pin /\ p.receipt = r /\ p.skill = w /\ p.agent = w
      BY <2>1 DEF Pin
    <3> QED
      BY <1>4, <3>1 DEF Sound, w
  <2> HIDE DEF p
  <2>3. PICK k \in Job : k = [j EXCEPT !.pin = p]
    BY <2>2 DEF Job
  <2>4. k.op = j.op /\ k.receipt = r /\ k.root = j.root /\ k.pin = p
    BY <2>3 DEF Job
  <2>5. WorkFits("pin", k) /\ "pin" \in Steps \ Publishing
    BY <1>2, <2>2, <2>4 DEF WorkFits, Selecting, Steps, Publishing, Op
  <2>6. Go(c, "pin", k)
    BY <1>4, <2>3
  <2> HIDE DEF Steps, Job
  <2> QED
    BY <1>2, <2>5, <2>6, QuietCommand DEF ReleasesTyped, Frame
<1> QED
  BY <1>1, <1>3, <1>4 DEF Verify, Rendered

\* A pin that is written or removed leaves the others as they are.
LEMMA PinKeeps ==
  ASSUME IInv, NEW c \in Command, NEW to \in Steps \ Publishing, NEW j \in Job,
         NEW x \in Root, NEW p \in Pin \cup {None}, p # None => Sound(p),
         Go(c, to, j), pin' = [pin EXCEPT ![x] = p],
         Frame, UNCHANGED <<tool, skill, agent>>, WorkFits(to, j)
  PROVE  IInv'
<1>1. ReleasesTyped /\ ReleasesSound
  BY Types
<1>2. ReleasesTyped' /\ StoreKept
  BY <1>1 DEF ReleasesTyped, Frame, StoreKept
<1>3. ReleasesSound'
  <2>1. StoreOrdered' /\ ChannelServed'
    BY <1>1 DEF ReleasesSound, Frame, StoreOrdered, ChannelServed, Listed, Released
  <2>2. PinsSound'
    BY <1>1 DEF ReleasesTyped, ReleasesSound, Frame, PinsSound, Sound
  <2> QED
    BY <2>1, <2>2 DEF ReleasesSound
<1>4. WorkFits(to, j)'
  BY DEF WorkFits, Successor, Listed, Sound, Frame
<1> HIDE DEF Steps, Publishing, Job
<1> QED
  BY <1>2, <1>3, <1>4, CommandStep DEF Frame

LEMMA WritePinKeeps ==
  ASSUME IInv, NEW c \in Command, WritePin(c)
  PROVE  IInv'
<1>1. PICK j \in Job : j = job[c]
  BY Types
<1>2. /\ ReleasesTyped /\ WorkFits("pin", j) /\ pc[c] = "pin"
      /\ Frame /\ UNCHANGED <<tool, skill, agent>>
  BY <1>1, Types DEF WritePin, Frame, store, files, budget
<1>3. j.root \in Root /\ j.pin \in Pin /\ Sound(j.pin)
  BY <1>2 DEF WorkFits, Selecting
<1>4. "idle" \in Steps \ Publishing /\ "settle" \in Steps \ Publishing
  BY DEF Steps, Publishing
<1>5. CASE Quit(c) /\ UNCHANGED pin
  BY <1>2, <1>5, QuitKeeps DEF ReleasesTyped, Frame
<1>6. CASE Quit(c) /\ pin' = [pin EXCEPT ![j.root] = j.pin]
  <2>1. Go(c, "idle", NoJob)
    BY <1>6 DEF Quit
  <2> HIDE DEF Steps, Publishing, Job
  <2> QED
    BY <1>2, <1>3, <1>4, <1>6, <2>1, IdleJob, PinKeeps
<1>7. CASE Go(c, "settle", j) /\ pin' = [pin EXCEPT ![j.root] = j.pin]
  <2>1. WorkFits("settle", j)
    BY <1>2 DEF WorkFits, Selecting
  <2> HIDE DEF Steps, Publishing, Job
  <2> QED
    BY <1>2, <1>3, <1>4, <1>7, <2>1, PinKeeps
<1> QED
  BY <1>1, <1>5, <1>6, <1>7 DEF WritePin, Step

LEMMA UnwindKeeps ==
  ASSUME IInv, NEW c \in Command, Settle(c) \/ Unwind(c) \/ Unpin(c)
  PROVE  IInv'
<1>1. PICK j \in Job : j = job[c]
  BY Types
<1>2. /\ ReleasesTyped /\ WorkFits(pc[c], j)
      /\ Frame /\ UNCHANGED <<tool, skill, agent>>
  BY <1>1, Types DEF Settle, Unwind, Unpin, Frame, store, files, budget
<1>3. CASE Quit(c) /\ UNCHANGED pin
  BY <1>2, <1>3, QuitKeeps DEF ReleasesTyped, Frame
<1>4. ASSUME NEW from \in {"settle", "unwind"}, NEW to \in {"unwind", "unpin"},
             pc[c] = from, Go(c, to, j), UNCHANGED pin
      PROVE  IInv'
  <2>1. WorkFits(to, j) /\ to \in Steps \ Publishing
    BY <1>2, <1>4 DEF WorkFits, Selecting, Steps, Publishing
  <2> HIDE DEF Steps, Job
  <2> QED
    BY <1>2, <1>4, <2>1, QuietCommand DEF ReleasesTyped, Frame
<1>5. CASE Unpin(c)
  <2>1. Go(c, "idle", NoJob) /\ pin' = [pin EXCEPT ![j.root] = None] /\ pc[c] = "unpin"
    BY <1>1, <1>5 DEF Unpin, Quit
  <2>2. j.root \in Root /\ "idle" \in Steps \ Publishing
    BY <1>2, <2>1 DEF WorkFits, Selecting, Steps, Publishing
  <2> HIDE DEF Steps, Publishing, Job
  <2> QED
    BY <1>2, <2>1, <2>2, IdleJob, PinKeeps
<1> QED
  BY <1>1, <1>3, <1>4, <1>5 DEF Settle, Unwind, Step

LEMMA SelectKeeps ==
  ASSUME IInv, NEW c \in Command, Select(c)
  PROVE  IInv'
BY SelectForUpdateKeeps, SelectForInitKeeps, RenderKeeps, WriteFilesKeep, RollBackKeeps,
   VerifyKeeps, WritePinKeeps, UnwindKeeps DEF Select

-----------------------------------------------------------------------------
(* Faults.                                                                 *)

LEMMA MishapKeeps ==
  ASSUME IInv, NEW c \in Command, Mishap(c)
  PROVE  IInv'
<1>1. PICK j \in Job : j = job[c]
  BY Types
<1>2. ReleasesTyped /\ WorkFits(pc[c], j)
  BY <1>1, Types
<1>3. UNCHANGED <<lock, channel, wheels, receipts, tool, pin, skill, starts>> /\ faults' \in Nat
  <2>1. faults \in Nat /\ Fault => faults' \in Nat
    BY DEF Fault
  <2>2. CASE Kill(c)
    BY <1>2, <2>1, <2>2 DEF Kill, store, files, ReleasesTyped
  <2>3. CASE Fail(c)
    BY <1>2, <2>1, <2>3 DEF Fail, store, files, ReleasesTyped
  <2>4. CASE FailLate(c)
    BY <1>2, <2>1, <2>4 DEF FailLate, store, ReleasesTyped
  <2> QED
    BY <2>2, <2>3, <2>4 DEF Mishap
<1>4. CASE Quit(c) /\ UNCHANGED agent
  BY <1>2, <1>3, <1>4, QuitKeeps DEF ReleasesTyped
<1>5. CASE pc[c] \in Publishing /\ Go(c, "unlock", j) /\ UNCHANGED agent
  <2>1. WorkFits("unlock", j) /\ "unlock" \in Steps
    BY <1>2, <1>5 DEF WorkFits, Selecting, Steps, Publishing
  <2> HIDE DEF Steps, Job
  <2> QED
    BY <1>2, <1>3, <1>5, <2>1, QuietCommand DEF ReleasesTyped
<1>6. ASSUME NEW u \in SUBSET {"skill", "agent"}, pc[c] = "agent",
             Go(c, "rollback", [j EXCEPT !.undo = u]),
             agent' \in [Root -> Bundle \cup {None}]
      PROVE  IInv'
  <2>1. PICK k \in Job : k = [j EXCEPT !.undo = u]
    BY DEF Job
  <2>2. k.op = j.op /\ k.receipt = j.receipt /\ k.root = j.root
    BY <2>1 DEF Job
  <2>3. WorkFits("rollback", k) /\ "rollback" \in Steps \ Publishing
    BY <1>2, <1>6, <2>2 DEF WorkFits, Selecting, Steps, Publishing, Op
  <2>4. Go(c, "rollback", k)
    BY <1>6, <2>1
  <2> HIDE DEF Steps, Job
  <2> QED
    BY <1>2, <1>3, <1>6, <2>3, <2>4, QuietCommand DEF ReleasesTyped
<1>7. CASE Kill(c)
  BY <1>4, <1>7 DEF Kill, files
<1>8. CASE Fail(c)
  <2>1. UNCHANGED agent /\ agent' \in [Root -> Bundle \cup {None}]
    BY <1>2, <1>8 DEF Fail, files, ReleasesTyped
  <2> QED
    BY <1>1, <1>4, <1>5, <1>6, <1>8, <2>1 DEF Fail, Step
<1>9. CASE FailLate(c)
  <2>1. j.receipt \in Receipt /\ pc[c] = "agent"
    BY <1>2, <1>9 DEF WorkFits, FailLate
  <2>2. agent' \in [Root -> Bundle \cup {None}]
    BY <1>1, <1>2, <1>9, <2>1, RenderedTyped DEF FailLate, Rendered, ReleasesTyped
  <2> QED
    BY <1>1, <1>6, <1>9, <2>1, <2>2 DEF FailLate
<1> QED
  BY <1>7, <1>8, <1>9 DEF Mishap

\* What is not about the lock.
LEMMA RestKept ==
  ASSUME IInv, UNCHANGED <<channel, wheels, receipts, tool, pin, skill, agent, pc, job, starts,
                           faults>>
  PROVE  ReleasesTyped' /\ ReleasesSound' /\ WorkSound'
<1>1. ReleasesTyped /\ ReleasesSound /\ WorkSound
  BY IInvSplit
<1>2. ReleasesTyped'
  BY <1>1 DEF ReleasesTyped
<1>3. \A p : Sound(p)' = Sound(p)
  BY DEF Sound
<1>4. ReleasesSound'
  BY <1>1, <1>3 DEF ReleasesSound, StoreOrdered, ChannelServed, Listed, Released, PinsSound
<1>5. \A r : Successor(r)' = Successor(r)
  BY DEF Successor, Listed
<1>6. ASSUME NEW step, NEW j, WorkFits(step, j) PROVE WorkFits(step, j)'
  BY <1>3, <1>5, <1>6 DEF WorkFits
<1>7. WorkSound'
  <2>1. ASSUME NEW c \in Command PROVE WorkFits(pc[c], job[c])'
    <3>1. PICK step, j : step = pc[c] /\ j = job[c]
      OBVIOUS
    <3>2. pc'[c] = step /\ job'[c] = j /\ WorkFits(step, j)
      BY <1>1, <3>1 DEF WorkSound
    <3>3. WorkFits(step, j)'
      BY <1>6, <3>2
    <3> QED
      BY <3>2, <3>3 DEF WorkFits
  <2> QED
    BY <2>1 DEF WorkSound
<1> QED
  BY <1>2, <1>4, <1>7

LEMMA RemoveLockKeeps == IInv /\ RemoveLock => IInv'
<1> SUFFICES ASSUME IInv, RemoveLock PROVE IInv'
  OBVIOUS
<1>1. UNCHANGED <<channel, wheels, receipts, tool, pin, skill, agent, pc, job, starts, faults>>
      /\ lock' = None /\ pc[lock] \notin Publishing
  BY DEF RemoveLock, store, files, budget
<1>2. OnePublisher'
  BY <1>1 DEF IInv, OnePublisher
<1>3. ReleasesTyped' /\ ReleasesSound' /\ WorkSound'
  BY <1>1, RestKept
<1> QED
  BY <1>1, <1>2, <1>3, IInvSplit DEF IInv, TypeOK, ReleasesTyped, ReleasesSound

-----------------------------------------------------------------------------
(* The invariant.                                                          *)

LEMMA Initially == Init => IInv
<1> SUFFICES ASSUME Init PROVE IInv
  OBVIOUS
<1>1. BuildOf \in [Receipt -> Build] /\ First \in Receipt \cup {None} /\ None \notin Receipt
  BY ReleaseAssumption, NoneIsNothing
<1>2. /\ receipts \in [Build -> Receipt \cup {None}]
      /\ \A b \in Build : receipts[b] # None =>
           First # None /\ BuildOf[First] = b /\ receipts[b] = First
      /\ First # None => receipts[BuildOf[First]] = First
      /\ wheels \subseteq Build
      /\ First # None => BuildOf[First] \in wheels
  BY <1>1 DEF Init
<1>3. channel \in Channel /\ channel.latest = First /\ channel.previous = {}
  BY <1>1 DEF Init, Channel
<1>4. TypeOK
  <2>1. tool \in Build \cup {None} /\ lock \in Command \cup {None}
    BY <1>1 DEF Init
  <2>2. /\ skill \in [Root -> Bundle \cup {None}] /\ agent \in [Root -> Bundle \cup {None}]
        /\ pin \in [Root -> Pin \cup {None}] /\ starts \in Nat /\ faults \in Nat
    BY DEF Init
  <2>3. pc \in [Command -> Steps] /\ job \in [Command -> Job]
    BY IdleJob DEF Init, Steps
  <2> QED
    BY <1>2, <1>3, <2>1, <2>2, <2>3 DEF TypeOK
<1>5. OnePublisher /\ PinsSound
  BY DEF Init, OnePublisher, PinsSound, Publishing
<1>6. StoreOrdered
  BY <1>1, <1>2 DEF StoreOrdered
<1>7. ChannelServed
  BY <1>2, <1>3 DEF ChannelServed, Listed, Released
<1>8. WorkSound
  BY IdleJob DEF Init, WorkSound
<1> QED
  BY <1>4, <1>5, <1>6, <1>7, <1>8 DEF IInv

LEMMA Inductive == IInv /\ [Next]_vars => IInv'
<1> SUFFICES ASSUME IInv, [Next]_vars PROVE IInv'
  OBVIOUS
<1>1. ASSUME NEW c \in Command, Begin(c) \/ Progress(c) \/ Mishap(c) PROVE IInv'
  BY <1>1, BeginKeeps, PublishKeeps, ReinstallKeeps, SelectKeeps, MishapKeeps DEF Progress
<1>2. CASE UNCHANGED vars
  <2>1. UNCHANGED <<lock, channel, wheels, receipts, tool, skill, agent, pin, pc, job, starts,
                    faults>>
    BY <1>2 DEF vars, store, files, budget
  <2>2. ReleasesTyped' /\ ReleasesSound' /\ WorkSound'
    BY <2>1, RestKept
  <2>3. OnePublisher'
    BY <2>1 DEF IInv, OnePublisher
  <2> QED
    BY <2>1, <2>2, <2>3 DEF IInv, TypeOK, ReleasesTyped, ReleasesSound
<1> QED
  BY <1>1, <1>2, RemoveLockKeeps DEF Next

\* The invariant holds in every state.
THEOREM InvariantHolds == Spec => []IInv
  BY Initially, Inductive, PTL DEF Spec

\* Store, channel, tool, roots and the variables of commands always have their
\* types.
THEOREM TypeCorrect == Spec => []TypeOK
<1>1. IInv => TypeOK
  BY DEF IInv
<1> QED
  BY <1>1, InvariantHolds, PTL

\* Every release that the channel lists is in the store, receipt and wheel.
THEOREM ChannelIsServed == Spec => []ChannelServed
<1>1. IInv => ChannelServed
  BY DEF IInv
<1> QED
  BY <1>1, InvariantHolds, PTL

\* A runtime that passes for approved has the workflow files of one build, and
\* the wheel of that build is in the store.
THEOREM ApprovedMeansWhole == Spec => []ApprovedIsWhole
<1>1. IInv => ApprovedIsWhole
  <2> SUFFICES ASSUME IInv, NEW x \in Root, NEW b \in Build, Approved(x, b)
               PROVE  skill[x] = BundleOf[b] /\ agent[x] = BundleOf[b] /\ b \in wheels
    BY DEF ApprovedIsWhole
  <2>1. pin[x] # None /\ pin[x].receipt = receipts[b] /\ BuildOf[pin[x].receipt] = b
        /\ skill[x] = pin[x].skill /\ agent[x] = pin[x].agent
    BY DEF Approved
  <2>2. Sound(pin[x]) /\ pin[x].receipt \in Receipt
    BY <2>1 DEF IInv, PinsSound, TypeOK, Pin
  <2>3. b \in wheels
    BY <2>1, <2>2, NoneIsNothing DEF IInv, StoreOrdered
  <2> QED
    BY <2>1, <2>2, <2>3 DEF Sound
<1> QED
  BY <1>1, InvariantHolds, PTL

-----------------------------------------------------------------------------
(* What no step of the release commands may do, and the promise.           *)

\* Who changes what the promise is about.
LEMMA Writers ==
  ASSUME Next
  PROVE  \/ UNCHANGED <<receipts, channel, pin>>
         \/ \E c \in Command : CopyReceipt(c) \/ Advance(c) \/ WritePin(c) \/ Unpin(c)
<1>1. ASSUME NEW c \in Command, Begin(c) PROVE UNCHANGED <<receipts, channel, pin>>
  BY <1>1 DEF Begin, StartPublish, StartInstall, StartUpdate, StartInit, StartWorkflow, StartPin,
     Start, store
<1>2. ASSUME NEW c \in Command, Publish(c), ~CopyReceipt(c), ~Advance(c)
      PROVE  UNCHANGED <<receipts, channel, pin>>
  BY <1>2 DEF Publish, Lock, Plan, CopyWheel, Unlock, store
<1>3. ASSUME NEW c \in Command, Reinstall(c) PROVE UNCHANGED <<receipts, channel, pin>>
  BY <1>3 DEF Reinstall, Uninstall, Install, Match, HandOver, store
<1>4. ASSUME NEW c \in Command, Select(c), ~WritePin(c), ~Unpin(c)
      PROVE  UNCHANGED <<receipts, channel, pin>>
  BY <1>4 DEF Select, SelectForUpdate, SelectForInit, Render, WriteSkill, WriteSkillAlone,
     WriteAgent, RollBackAgent, RollBackSkill, Verify, Settle, Unwind, store
<1>5. ASSUME NEW c \in Command, Mishap(c) PROVE UNCHANGED <<receipts, channel, pin>>
  BY <1>5 DEF Mishap, Kill, Fail, FailLate, store
<1>6. RemoveLock => UNCHANGED <<receipts, channel, pin>>
  BY DEF RemoveLock, store
<1> QED
  BY <1>1, <1>2, <1>3, <1>4, <1>5, <1>6 DEF Next, Progress

\* init writes a pin only where there is none.
THEOREM InitKeepsPins == Spec => InitNeverRepins
<1>1. ASSUME IInv, [Next]_vars, NEW c \in Command, NEW x \in Root,
             job[c].op = "init", pc'[c] # pc[c], pin[x] # None
      PROVE  pin'[x] \in {pin[x], None}
  <2>1. CASE UNCHANGED <<receipts, channel, pin>>
    BY <2>1
  <2>2. ASSUME NEW d \in Command, WritePin(d), d = c PROVE pin'[x] \in {pin[x], None}
    <3>1. pin' = pin \/ (pin[job[c].root] = None /\ pin' = [pin EXCEPT ![job[c].root] = job[c].pin])
      BY <1>1, <2>2 DEF WritePin
    <3>2. pin \in [Root -> Pin \cup {None}]
      BY <1>1 DEF IInv, TypeOK
    <3> QED
      BY <1>1, <3>1, <3>2
  <2>3. ASSUME NEW d \in Command, Unpin(d) PROVE pin'[x] \in {pin[x], None}
    <3>1. pin' = [pin EXCEPT ![job[d].root] = None] /\ pin \in [Root -> Pin \cup {None}]
      BY <1>1, <2>3 DEF Unpin, IInv, TypeOK
    <3> QED
      BY <3>1
  <2>4. ASSUME NEW d \in Command, WritePin(d), d # c PROVE FALSE
    BY <1>1, <2>4 DEF WritePin, Quit, Step, Go, IInv, TypeOK
  <2>5. ASSUME NEW d \in Command, CopyReceipt(d) \/ Advance(d) PROVE UNCHANGED pin
    BY <2>5 DEF CopyReceipt, Advance
  <2>6. CASE UNCHANGED vars
    BY <2>6 DEF vars
  <2> QED
    BY <1>1, <2>1, <2>2, <2>3, <2>4, <2>5, <2>6, Writers
<1>2. IInv /\ [Next]_vars =>
        [\A c \in Command, x \in Root :
           job[c].op = "init" /\ pc'[c] # pc[c] /\ pin[x] # None => pin'[x] \in {pin[x], None}]_vars
  BY <1>1
<1> QED
  BY <1>2, InvariantHolds, PTL DEF Spec, InitNeverRepins

-----------------------------------------------------------------------------
(* Refinement.                                                             *)

\* What the promise shows.
InStore == {receipts[b] : b \in Build} \ {None}
Choices == [x \in Root |-> Chosen(x)]

LEMMA CopyReceiptRefines ==
  ASSUME IInv, NEW c \in Command, CopyReceipt(c)
  PROVE  [Promise!Next]_(Promise!vars)
<1>1. PICK r \in Receipt : r = job[c].receipt
  BY Types DEF CopyReceipt, Step, WorkFits
<1>2. PICK b \in Build : b = BuildOf[r]
  BY ReleaseAssumption
<1>3. /\ UNCHANGED <<channel, pin>> /\ receipts \in [Build -> Receipt \cup {None}]
      /\ receipts' = [receipts EXCEPT ![b] = IF receipts[b] = None THEN r ELSE receipts[b]]
  BY <1>1, <1>2, Types DEF CopyReceipt, ReleasesTyped
<1>4. Listed' = Listed /\ Choices' = Choices
  BY <1>3 DEF Listed, Choices, Chosen
<1>5. CASE receipts[b] # None
  <2>1. receipts' = receipts
    BY <1>3, <1>5
  <2> QED
    BY <1>3, <1>4, <2>1 DEF Promise!vars, Choices
<1>6. CASE receipts[b] = None
  <2>1. InStore' = InStore \cup {r}
    <3>1. receipts'[b] = r /\ \A d \in Build \ {b} : receipts'[d] = receipts[d]
      BY <1>3, <1>6
    <3> QED
      BY <1>6, <3>1, NoneIsNothing DEF InStore
  <2>2. \A q \in InStore : BuildOf[q] # BuildOf[r]
    BY <1>2, <1>6, Types DEF InStore, ReleasesSound, StoreOrdered
  <2>3. Promise!Release(r)
    BY <1>3, <1>4, <2>1, <2>2 DEF Promise!Release, InStore, Choices
  <2> QED
    BY <2>3 DEF Promise!Next
<1> QED
  BY <1>5, <1>6

LEMMA AdvanceRefines ==
  ASSUME IInv, NEW c \in Command, Advance(c)
  PROVE  Promise!Next
<1>1. PICK r \in Receipt : r = job[c].receipt
  BY Types DEF Advance, Step, WorkFits
<1>2. /\ UNCHANGED <<receipts, pin>> /\ channel' = Successor(r)
      /\ receipts[BuildOf[r]] = r
  BY <1>1, Types DEF Advance, Step, WorkFits, store
<1>3. r \in InStore
  BY <1>2, ReleaseAssumption, NoneIsNothing DEF InStore
<1>4. channel'.latest = r /\ Listed' = Listed \cup {r}
  <2>1. \A q \in Listed : BuildOf[q] = BuildOf[r] => q = r
    BY <1>2, Types DEF ReleasesSound, ChannelServed, Released
  <2>2. channel'.latest = r /\ channel'.previous = {q \in Listed : BuildOf[q] # BuildOf[r]}
    BY <1>2 DEF Successor
  <2>3. None \notin Listed /\ r # None
    BY NoneIsNothing DEF Listed
  <2>4. Listed' = (channel'.previous \cup {channel'.latest}) \ {None}
    BY DEF Listed
  <2> QED
    BY <2>1, <2>2, <2>3, <2>4
<1>5. InStore' = InStore /\ Choices' = Choices
  BY <1>2 DEF InStore, Choices, Chosen
<1>6. Promise!Publish(r)
  BY <1>3, <1>4, <1>5 DEF Promise!Publish, InStore, Choices
<1> QED
  BY <1>6 DEF Promise!Next

LEMMA PinRefines ==
  ASSUME IInv, NEW c \in Command, WritePin(c) \/ Unpin(c)
  PROVE  [Promise!Next]_(Promise!vars)
<1>1. PICK j \in Job : j = job[c]
  BY Types
<1>2. j.root \in Root
  BY <1>1, Types DEF WritePin, Unpin, WorkFits, Selecting
<1>3. UNCHANGED <<receipts, channel>> /\ pin \in [Root -> Pin \cup {None}]
  BY Types DEF WritePin, Unpin, store, ReleasesTyped
<1>4. InStore' = InStore /\ Listed' = Listed
  BY <1>3 DEF InStore, Listed
<1>5. ASSUME NEW p \in Pin \cup {None}, pin' = [pin EXCEPT ![j.root] = p]
      PROVE  Choices' = [Choices EXCEPT ![j.root] = IF p = None THEN None ELSE p.receipt]
  BY <1>2, <1>3, <1>5 DEF Choices, Chosen
<1>6. CASE UNCHANGED pin
  BY <1>3, <1>4, <1>6 DEF Promise!vars, Choices, Chosen, InStore
<1>7. CASE pin' = [pin EXCEPT ![j.root] = None]
  <2>1. Promise!Withdraw(j.root)
    BY <1>3, <1>4, <1>5, <1>7 DEF Promise!Withdraw, InStore, Choices
  <2> QED
    BY <1>2, <2>1 DEF Promise!Next
<1>8. CASE pc[c] = "pin" /\ pin' = [pin EXCEPT ![j.root] = j.pin]
  <2>1. j.pin \in Pin /\ Sound(j.pin)
    BY <1>1, <1>8, Types DEF WorkFits
  <2>2. PICK r \in Receipt : r = j.pin.receipt
    BY <2>1 DEF Pin
  <2>3. r \in InStore
    BY <2>1, <2>2, ReleaseAssumption, NoneIsNothing DEF Sound, InStore
  <2>4. j.pin # None
    BY <2>1, NoneIsNothing
  <2>5. Choices' = [Choices EXCEPT ![j.root] = r]
    BY <1>5, <1>8, <2>1, <2>2, <2>4
  <2>6. Promise!Choose(j.root, r)
    BY <1>3, <1>4, <2>3, <2>5 DEF Promise!Choose, InStore, Choices
  <2> QED
    BY <1>2, <2>6 DEF Promise!Next
<1> QED
  BY <1>1, <1>6, <1>7, <1>8 DEF WritePin, Unpin

\* The release commands refine the promise to the consumer roots.
THEOREM ReleaseRefines == Spec => PromiseKept
<1>1. Init => Promise!Init
  <2> SUFFICES ASSUME Init PROVE Promise!Init
    OBVIOUS
  <2>1. Listed = {First} \ {None} /\ channel.latest = First
    BY DEF Init, Listed
  <2>2. InStore = {First} \ {None}
    <3>1. \A b \in Build : receipts[b] = IF First # None /\ BuildOf[First] = b THEN First ELSE None
      BY DEF Init
    <3>2. First # None => BuildOf[First] \in Build
      BY ReleaseAssumption
    <3> QED
      BY <3>1, <3>2 DEF InStore
  <2>3. Choices = [x \in Root |-> None]
    BY DEF Init, Choices, Chosen
  <2> QED
    BY <2>1, <2>2, <2>3 DEF Promise!Init, InStore, Choices
<1>2. IInv /\ [Next]_vars => [Promise!Next]_(Promise!vars)
  <2> SUFFICES ASSUME IInv, [Next]_vars PROVE [Promise!Next]_(Promise!vars)
    OBVIOUS
  <2>1. ASSUME UNCHANGED <<receipts, channel, pin>> PROVE UNCHANGED Promise!vars
    BY <2>1 DEF Promise!vars, Listed, Chosen
  <2>2. UNCHANGED vars => UNCHANGED <<receipts, channel, pin>>
    BY DEF vars, store
  <2> QED
    BY <2>1, <2>2, Writers, CopyReceiptRefines, AdvanceRefines, PinRefines
<1> QED
  BY <1>1, <1>2, InvariantHolds, PTL DEF Spec, PromiseKept, Promise!Spec
=============================================================================
