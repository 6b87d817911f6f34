---------------------------- MODULE IngestPromise ----------------------------
(***************************************************************************)
(* What meeting-ingest promises about a source transcript, with no lock,   *)
(* no ledger and no failure in sight: it is filed under one meeting, once; *)
(* it leaves the inbox for _done only when it is filed and a file holds    *)
(* its place in the archive; it is put into quarantine only while it is    *)
(* not filed.                                                              *)
(***************************************************************************)
CONSTANTS Source, Date

VARIABLES
  filed,     \* the meetings that have outputs
  waiting,   \* sources with a copy in the inbox
  archived,  \* sources with a file in _processed
  rejected   \* sources with a copy in quarantine

vars == <<filed, waiting, archived, rejected>>

Filed(s) == \E m \in filed : m[1] = s

Init ==
  /\ filed = {} /\ archived = {} /\ rejected = {}
  /\ waiting \in SUBSET Source

\* A copy is dropped into the inbox.
Arrive(s) ==
  /\ waiting' = waiting \cup {s}
  /\ UNCHANGED <<filed, archived, rejected>>

\* The source gets its outputs, once and under the date that was found.
File(s, d) ==
  /\ ~Filed(s)
  /\ filed' = filed \cup {<<s, d>>}
  /\ UNCHANGED <<waiting, archived, rejected>>

Archive(s) ==
  /\ Filed(s)
  /\ archived' = archived \cup {s}
  /\ UNCHANGED <<filed, waiting, rejected>>

\* The inbox copy is put away.
Retire(s) ==
  /\ Filed(s) /\ s \in archived
  /\ waiting' = waiting \ {s}
  /\ UNCHANGED <<filed, archived, rejected>>

\* One copy is put into quarantine; there may be others.
Reject(s) ==
  /\ ~Filed(s) /\ s \in waiting
  /\ waiting' \in {waiting, waiting \ {s}}
  /\ rejected' = rejected \cup {s}
  /\ UNCHANGED <<filed, archived>>

Next ==
  \E s \in Source :
    \/ Arrive(s) \/ Archive(s) \/ Retire(s) \/ Reject(s)
    \/ \E d \in Date : File(s, d)

Spec == Init /\ [][Next]_vars
=============================================================================
