---------------------------- MODULE LedgerInvariant ----------------------------
(***************************************************************************)
(* The inductive invariant of SourceLedger: what a command that holds the  *)
(* lock still knows of the ledger that it read when it took the lock.      *)
(***************************************************************************)
EXTENDS SourceLedger

Primary(records, s) ==
  {i \in DOMAIN records : records[i].source = s /\ records[i].event \in PrimaryEvents}

\* A source that has outputs keeps them in every later record.
OutputsStay ==
  Issues(ledger) \/
    \A i, j \in DOMAIN appended :
      (i < j /\ appended[i].source = appended[j].source /\ appended[i].event \in PrimaryEvents)
        => appended[j].event \in PrimaryEvents

\* Nothing was recorded of a source whose history is a legacy line.
LegacyAlone ==
  Issues(ledger) \/
    \A s \in Source : HasLegacyLine(ledger, s) => PlacesOf(appended, s) = {}

OneSource(c) == \A s, t \in job[c].todo : s = t

\* What is to be appended, and that an ingest found no outputs.
AppendFits(c) ==
  pc[c] = "append" =>
    /\ job[c].event \in PrimaryEvents \cup {"ingest_failed"}
    /\ job[c].event # "reconcile_repaired" => OneSource(c)
    /\ Issues(ledger) \/
         \A s \in job[c].todo :
           /\ ~HasLegacyLine(ledger, s)
           /\ job[c].event \in {"primary_artifacts_ready", "ingest_failed"}
                => Primary(appended, s) = {}

\* The record that an ingest has written ends its line.
VerifyFits(c) ==
  pc[c] = "verify" =>
    /\ Ended(ledger) /\ OneSource(c)
    /\ Issues(ledger) \/ \A s \in job[c].todo : ~HasLegacyLine(ledger, s)

\* It was there when the ingest looked, and is there when it completes.
CompletionFits(c) ==
  (pc[c] = "append" /\ job[c].event = "ingest_completed") =>
    /\ Ended(ledger)
    /\ \A s \in job[c].todo : LinkHolds(ledger, s, job[c].link)

CommandFits(c) == AppendFits(c) /\ VerifyFits(c) /\ CompletionFits(c)

\* What holds of the file and its history.
LedgerSound ==
  /\ ledger \in Log(Record) /\ Len(ledger) <= MaxLines /\ appended \in Seq(Record)
  /\ KeptOrReported /\ FiledOnce /\ OutputsStay /\ LegacyAlone

LedgerInv == TypeOK /\ LedgerSound /\ \A c \in Command : CommandFits(c)

-----------------------------------------------------------------------------
(* What IngestPipeline takes from the ledger: identities that name one     *)
(* record, and a sequence that grows by a freshly minted record at a time. *)

\* No number was given twice to a source: append_snapshot has no conflict to
\* refuse, and signals name one record.
IdentitiesUnique ==
  Issues(ledger) \/
    \A i, j \in DOMAIN appended :
      (appended[i].source = appended[j].source /\ appended[i].seq = appended[j].seq) => i = j

\* A step that leaves no reported line found none, and what is read afterwards
\* is what was read before it, with one more record or none.
GrowsByOne ==
  ~Issues(ledger') =>
    /\ ~Issues(ledger)
    /\ \/ Records(ledger') = Records(ledger)
       \/ \E s \in Source, event \in PrimaryEvents \cup {"ingest_failed"} :
            Records(ledger') = Append(Records(ledger), Minted(s, event))

GrowsMinted == [][GrowsByOne]_vars
=============================================================================
