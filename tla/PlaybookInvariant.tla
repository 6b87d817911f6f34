-------------------------- MODULE PlaybookInvariant --------------------------
(***************************************************************************)
(* The inductive invariant behind the safety of Playbook: what the ledger, *)
(* the index and the generations are worth at each step of a command.      *)
(***************************************************************************)
EXTENDS PlaybookRefinement

\* Steps of a command that holds the lock.
LockedSteps == Steps \ {"idle", "acquire"}

\* Steps of a derivation, in the order of the code.
Drafting == {"discover", "derive", "write", "commit"}

\* One command at a time works under the lock.
OneHolder == \A c \in Command : pc[c] \in LockedSteps => lock = c

\* Runs are numbered in the order in which they took the lock, and the ledger
\* lists them in this order.
RunsOrdered ==
  /\ \A i \in Whole(ledger) : ledger[i].record.run <= minted
  /\ \A i, j \in Whole(ledger) : i < j => ledger[i].record.run < ledger[j].record.run
  /\ \A r \in gens : r <= minted
  /\ \A r \in Run \ gens : files[r] = {}
  /\ index # None => index.run <= minted

\* A run that the ledger commits has all its files, and the record names the
\* people they are about.
CommitsSound ==
  \A i \in Successes :
    LET d == ledger[i].record IN Complete(d.run) /\ d.people = People(content[d.run])

\* What the index names was committed, whatever became of its line since.
IndexSound ==
  index # None =>
    /\ index.run \in Committed \/ Malformed(ledger)
    /\ Complete(index.run) /\ index.people = People(content[index.run])

\* So was what a reader has taken from the index.
ViewsSound ==
  \A d \in Reader : view[d] # None =>
    /\ view[d].run \in Committed \/ Malformed(ledger)
    /\ Complete(view[d].run) /\ view[d].person \in People(content[view[d].run])
    /\ view[d].run <= minted /\ ~view[d].missing

Unrecorded(r) == \A i \in Whole(ledger) : ledger[i].record.run # r

\* A draft is nobody's playbook yet.
Unpublished(r) ==
  /\ Unrecorded(r)
  /\ index # None => index.run # r
  /\ \A d \in Reader : view[d] # None => view[d].run # r

\* What the local variables j of a command are worth at a step.
WorkFits(step, j) ==
  /\ step = "acquire" => j.op \in Op
  /\ (step = "acquire" /\ j.op = "playbook-review") \/ step = "review" =>
       j.review \in Review
  /\ step \in Drafting \cup {"index", "failing"} => j.run \in Run /\ j.run = minted
  /\ step \in {"derive", "write", "commit", "index"} => j.inputs \in Inputs
  /\ step \in Drafting => Unpublished(j.run)
  /\ step \in {"discover", "derive"} => j.run \notin gens
  /\ step \in {"write", "commit", "index"} => j.run \in gens
  /\ step = "write" => files[j.run] \subseteq Members(content[j.run]) \ {"manifest"}
  /\ step \in {"commit", "index"} => Complete(j.run)
  /\ step = "index" => j.run \in Committed \/ Malformed(ledger)
  /\ step \in {"index", "failing"} => j.run \in Committed \/ Unrecorded(j.run)
  /\ step = "remove" => /\ ~Malformed(ledger)
                        /\ j.todo \subseteq gens \ Committed
                        /\ index # None => index.run \notin j.todo

WorkSound == \A c \in Command : WorkFits(pc[c], job[c])

IInv ==
  /\ TypeOK /\ OneHolder /\ RunsOrdered /\ CommitsSound /\ IndexSound /\ ViewsSound
  /\ WorkSound

\* Run r says what these inputs say, of the people in the registry or in one that
\* stood there between its fingerprint and its reading.
Derived(r, in) ==
  \E read \in ({in.registry} \cup between[r]) \ {None} :
    content[r] = Profiles(read, in.signals, in.overrides)

\* What a derivation with these local variables is about to read is what it has
\* fingerprinted; a registry that is not was written in between.
AboutToRead(j) ==
  /\ j.inputs.signals = signals /\ j.inputs.overrides = overrides
  /\ registry \in {j.inputs.registry} \cup between[j.run]

\* What is recorded and published with its inputs was derived from them, and
\* the lock keeps signals and reviews still until the derivation has read them.
DerivedSound ==
  /\ \A i \in Successes : Derived(ledger[i].record.run, ledger[i].record.inputs)
  /\ index # None => Derived(index.run, index.inputs)
  /\ \A c \in Command :
       /\ pc[c] \in {"write", "commit", "index"} => Derived(job[c].run, job[c].inputs)
       /\ pc[c] = "derive" => AboutToRead(job[c])
=============================================================================
