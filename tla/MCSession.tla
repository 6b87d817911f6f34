----------------------------- MODULE MCSession -----------------------------
(* Small instances of SessionHandoff for TLC. *)
EXTENDS SessionInvariant, TLC

\* Processes, names, sources, dates and runtimes are only compared for equality;
\* sources are either in Outside or not.
Symmetry == Permutations(Proc) \cup Permutations(Name) \cup Permutations(Outside) \cup Permutations(Source \ Outside)
            \cup Permutations(Date) \cup Permutations(Runtime)
=============================================================================
