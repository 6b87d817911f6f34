------------------------------ MODULE MCSignals ------------------------------
(* Small instances of SignalIdentity for TLC. *)
EXTENDS SignalIdentity, TLC

CONSTANTS ask, again, reworded

\* ask and again were said by one speaker at one locator; reworded has no
\* locator, so its wording is part of its id, and the provider gave the label
\* another name there.
BaseOf == [o \in Observation |-> IF o = reworded THEN "evidence" ELSE "locator"]
PlaceOf == [o \in Observation |-> IF o = reworded THEN "nowhere" ELSE "minute 7"]
RawOf == [o \in Observation |-> "Ann"]
NameOf == [o \in Observation |-> IF o = reworded THEN "Bob" ELSE "Ann"]

\* Command processes, sources and dates are only compared for equality.
Symmetry == Permutations(Command) \cup Permutations(Date) \cup Permutations(Source)
=============================================================================
