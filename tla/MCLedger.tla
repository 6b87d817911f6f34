------------------------------- MODULE MCLedger -------------------------------
(* Small instances of SourceLedger for TLC. *)
EXTENDS LedgerInvariant, TLC

\* Sources and commands are only compared for equality.
Symmetry == Permutations(Source) \cup Permutations(Command)
=============================================================================
