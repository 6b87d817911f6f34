------------------------- MODULE SessionRefinement -------------------------
(* Session ingests keep the promise of IngestPromise.                      *)
EXTENDS SessionHandoff

FiledMeetings == {<<s, filed[s].date>> : s \in {t \in Source : filed[t] # None}}

\* A file that its owner overwrote is not missed by anybody.
WaitingSources == {s \in Source : \E n \in Name : inbox[n] = s} \cup replaced

Promise ==
  INSTANCE IngestPromise WITH filed <- FiledMeetings, waiting <- WaitingSources

\* Two phases, a batch that works from old lists, requests that were minted
\* twice, answers that come late or to the wrong file: all the same a source
\* is filed once and for good, and its file leaves the inbox only when it is
\* filed and archived, or unreadable and not filed.
PromiseKept == Promise!Spec
=============================================================================
