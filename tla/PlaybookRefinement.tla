------------------------- MODULE PlaybookRefinement -------------------------
(* The playbook commands keep the promise of PlaybookPromise.              *)
EXTENDS Playbook

\* What a generation shows.  With a file missing that is no playbook.
Shown(r) == IF Complete(r) THEN content[r] ELSE [x \in {"broken"} |-> {}]

\* The playbook that the index, or a reader, names.
Book(x) == IF x = None THEN <<>> ELSE <<Shown(x.run)>>

Promise ==
  INSTANCE PlaybookPromise WITH
    published <- Book(index), seen <- [d \in Reader |-> Book(view[d])]

\* Generations, ledger and index are written one after the other, and any of
\* it may be cut short: all the same a reader sees one playbook, whole, and
\* the published one changes in one step.
PromiseKept == Promise!Spec
=============================================================================
