------------------------------ MODULE MCIngest ------------------------------
(* Small instances of IngestPipeline for TLC. *)
EXTENDS IngestInvariant, TLC

\* Processes and sources are interchangeable; dates are too, since nothing
\* compares them but for equality.
Symmetry == Permutations(Proc) \cup Permutations(Source) \cup Permutations(Date)

\* The sources the ledger names, a signal file is of or a process works on.
Touched == {ledger[i].src : i \in DOMAIN ledger}
             \cup {m[1] : m \in {n \in Meeting : signals[n] # None}}
             \cup {job[p].src : p \in {q \in Proc : job[q].src # None}}

\* The bound of the run ingest: two processes meet on one source, the others
\* lying elsewhere, or one process files two sources of the inbox and redates
\* them, in turn.
Scope ==
  \/ /\ Cardinality(Touched) <= 1 /\ runs <= 3
     /\ \E s \in Source : /\ Touched \subseteq {s}
                         /\ \A t \in Source \ {s} : places[t] = {"outside"}
  \/ /\ Cardinality({p \in Proc : pc[p] # "idle"}) <= 1
     /\ \A p \in Proc : job[p].op # "reconcile"
     /\ \A s \in Source : "outside" \notin places[s]
     /\ drops = 0 /\ (runs > 2 => Cardinality(Touched) > 1)
=============================================================================
