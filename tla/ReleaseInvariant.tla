-------------------------- MODULE ReleaseInvariant --------------------------
(***************************************************************************)
(* The inductive invariant behind the safety of RuntimeRelease: what store *)
(* and channel are worth at each step of a publish, and a pin at each step *)
(* of a selection.                                                         *)
(***************************************************************************)
EXTENDS ReleaseRefinement

\* One publish at a time works under the channel lock.
OnePublisher == \A c \in Command : pc[c] \in Publishing => lock = c

\* A receipt is in the directory of its build, and its wheel was there first.
StoreOrdered ==
  \A b \in Build : receipts[b] # None => BuildOf[receipts[b]] = b /\ b \in wheels

\* The pin of a release, with the hashes of its workflow.
Sound(p) ==
  LET b == BuildOf[p.receipt] IN
  receipts[b] = p.receipt /\ p.skill = BundleOf[b] /\ p.agent = BundleOf[b]

PinsSound == \A x \in Root : pin[x] # None => Sound(pin[x])

\* The manifest that publishes r.
Successor(r) == [latest |-> r, previous |-> {q \in Listed : BuildOf[q] # BuildOf[r]}]

Selecting == {"select", "hand over", "render", "skill", "agent", "rollback", "verify", "pin",
              "settle", "unwind", "unpin"}

\* What the local variables j of a command are worth at a step.
WorkFits(step, j) ==
  /\ step \notin {"idle", "select"} => j.op \in Op
  /\ step \notin {"idle", "select", "hand over"} => j.receipt \in Receipt
  /\ step \in {"wheel", "receipt", "advance"} => j.plan = Successor(j.receipt)
  /\ step \in {"receipt", "advance"} => BuildOf[j.receipt] \in wheels
  /\ step = "advance" => receipts[BuildOf[j.receipt]] = j.receipt
  /\ step \in Selecting \/ (step \in {"uninstall", "install", "match"} /\ j.op = "update") =>
       j.root \in Root
  /\ step = "select" => j.running \in Build
  /\ step \in {"pin", "settle", "unwind", "unpin"} => j.pin \in Pin
  /\ step = "pin" => Sound(j.pin)

WorkSound == \A c \in Command : WorkFits(pc[c], job[c])

IInv ==
  /\ TypeOK /\ OnePublisher /\ StoreOrdered /\ ChannelServed /\ PinsSound /\ WorkSound
=============================================================================
