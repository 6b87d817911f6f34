------------------------------ MODULE MCRelease ------------------------------
(* Small instances of RuntimeRelease for TLC. *)
EXTENDS ReleaseInvariant

CONSTANTS b1, b2, r1, r2, again

\* One approval of the first build, two of the second.
BuildOfReceipt == [r \in Receipt |-> IF r = r1 THEN b1 ELSE b2]

\* All builds have one version; each has templates of its own.
OneVersion == [b \in Build |-> "0.4.0"]
OwnBundle == [b \in Build |-> <<b>>]

\* Command processes are only compared for equality.
Symmetry == Permutations(Command)
=============================================================================
