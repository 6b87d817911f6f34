-------------------------- MODULE IngestRefinement --------------------------
(* The commands of IngestPipeline keep the promise of IngestPromise.       *)
EXTENDS IngestPipeline

\* A meeting has outputs when the current record of its source says so.
FiledMeetings ==
  {m \in Meeting : \E i \in 1..Len(ledger) :
     /\ IsLatest(i, m[1], Len(ledger))
     /\ HasPrimaryArtifacts(ledger[i])
     /\ ledger[i].mid = m}

WaitingSources == {s \in Source : "inbox" \in places[s]}

ArchivedSources == {s \in Source : HasProcessedCopy(s)}

RejectedSources == {s \in Source : "quarantine" \in places[s]}

Promise ==
  INSTANCE IngestPromise WITH
    filed <- FiledMeetings,
    waiting <- WaitingSources,
    archived <- ArchivedSources,
    rejected <- RejectedSources

\* Every behaviour of the pipeline, with its kills, I/O errors, stale locks
\* and re-dropped copies, is one of the promise: outputs appear in one step
\* (the append of primary_artifacts_ready) and once per source, and a source
\* leaves the inbox only for the place its ledger state allows.
PromiseKept == Promise!Spec
=============================================================================
