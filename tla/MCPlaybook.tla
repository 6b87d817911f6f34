----------------------------- MODULE MCPlaybook -----------------------------
(* Small instances of Playbook for TLC. *)
EXTENDS PlaybookInvariant, TLC

\* Command processes are only compared for equality.
Symmetry == Permutations(Command)

CONSTANTS Ann, Bob, ask, promise, reply

\* One signal of Ann, one of Bob, and a signal that cannot be told from Ann's by
\* its source, type, actor and locator.
OwnerOf == [s \in Signal |-> IF s = promise THEN Bob ELSE Ann]
SourceOf == [s \in Signal |-> IF s = promise THEN "second" ELSE "first"]
MatchOf == [s \in Signal |-> IF s = promise THEN "b" ELSE "a"]

Of(action, target) == [action |-> action, target |-> target, state |-> None]

Suppressions == {Of("suppress_signal", ask), Of("unsuppress_signal", ask)}

\* What can be said of an entry.
EntryReviews ==
  {Of("reject_entry", ask), Of("restore_entry", ask),
   [Of("resolve_tracked_item", ask) EXCEPT !.state = "resolved"]}

\* The bound of the run playbook: the source is ingested before the first
\* derivation is recorded, or there is no edit, fault or review beside its ingest.
Scope ==
  \/ edits = 0 /\ faults = 0 /\ overrides = <<>>
  \/ signals = Signal /\ \A i \in Whole(ledger) : ledger[i].record.inputs.signals = Signal
=============================================================================
