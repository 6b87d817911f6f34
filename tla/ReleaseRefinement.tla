-------------------------- MODULE ReleaseRefinement --------------------------
(* The release commands keep the promise of ReleasePromise.                *)
EXTENDS RuntimeRelease

\* What a root has selected.
Chosen(x) == IF pin[x] = None THEN None ELSE pin[x].receipt

Promise ==
  INSTANCE ReleasePromise WITH
    released <- {receipts[b] : b \in Build} \ {None},
    published <- Listed,
    latest <- channel.latest,
    selected <- [x \in Root |-> Chosen(x)]

\* Wheel, receipt, channel, tool, workflow files and pin are written one after
\* the other by commands that share no lock, and any of them may be cut short:
\* all the same no release is replaced or lost from the channel's history, and
\* a root moves in one step, to a release.
PromiseKept == Promise!Spec
=============================================================================
