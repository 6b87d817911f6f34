-------------------------- MODULE SessionInvariant --------------------------
(***************************************************************************)
(* The inductive invariant behind the safety of SessionHandoff: what the   *)
(* local variables of a process are worth at each of its steps.            *)
(***************************************************************************)
EXTENDS SessionRefinement

LockedSteps == {"consume", "prepare", "write_request", "commit", "archive", "move",
                "complete", "clean_request", "clean_response", "scan", "repair_next",
                "release", "unwind"}

\* Steps at which a request has been accepted, or was.
AcceptedSteps == {"commit", "archive", "move", "complete", "clean_request",
                  "clean_response", "release", "unwind"}

\* Steps that file a source or put a filed one away.
FilingSteps == {"commit", "archive", "move", "complete", "clean_request"}

\* A process in the locked section is the one that made the lock file.
OneWriter == \A p \in Proc : Locked(p) => lock = p

\* A request file is torn or says what it was written to say.
RequestsSound ==
  \A r \in Run : requests[r] # None =>
    minted[r] \in Request /\ requests[r] \in {minted[r], TornRequest}

\* What local variables j hold at a step, whoever holds the lock.
JobFits(step, j) ==
  /\ step \in {"plan", "next", "list"} => j.op \in {"session-inbox", "ingest-inbox"}
  /\ step \in {"guard", "consume", "prepare", "write_request", "commit"} =>
       j.op # "reconcile"
  /\ step \in {"scan", "repair_next"} => j.op = "reconcile"
  /\ step \in {"guard", "acquire", "consume", "prepare", "write_request"}
       /\ j.op # "reconcile" =>
       j.name \in Name /\ (j.at = "outside" => j.src \in Source)
  /\ step \in {"acquire", "prepare", "write_request"} /\ j.op # "reconcile" =>
       j.runtime \in Runtime
  /\ j.op \in {"session-inbox", "ingest-inbox"} /\ j.names # {} => j.runtime \in Runtime
  /\ step = "consume" => j.resp # None
  /\ j.run # None => step \in AcceptedSteps
  /\ \A r \in j.todo : minted[r] \in Request

\* The inbox files that reconcile has still to repair are those of filed sources.
ListedAreFiled(j) == \A n \in j.names : inbox[n] # None /\ filed[inbox[n]] # None

\* What the holder of the lock knows of the project: the source it works on
\* and where its file is, the request it was accepted for, and whether it is
\* filed by now.
WorkFits(step, j) ==
  /\ step \in FilingSteps \cup {"write_request"} => j.src \in Source
  /\ step \in FilingSteps /\ j.run # None =>
       /\ minted[j.run] \in Request
       /\ minted[j.run].src = j.src /\ minted[j.run].bound
  /\ step = "commit" => j.run # None /\ filed[j.src] = None
  /\ step \in FilingSteps \ {"commit"} =>
       /\ filed[j.src] # None
       /\ j.run # None => filed[j.src].run = j.run
  /\ step = "clean_request" => j.run # None /\ filed[j.src].settled
  /\ step \in {"commit", "archive", "move"} /\ j.at = "inbox" =>
       j.name \in Name /\ inbox[j.name] = j.src
  /\ step = "move" => j.src \in archived
  /\ step = "repair_next" => ListedAreFiled(j)
  /\ step \in {"archive", "move", "complete"} /\ j.op = "reconcile" => ListedAreFiled(j)
  /\ step \in {"archive", "move"} /\ j.op = "reconcile" => j.name \notin j.names

JobReady(p) == JobFits(pc[p], job[p])

WorkSound(p) == WorkFits(pc[p], job[p])

\* What every process relies on at each of its steps: the lock is its own, the
\* request it has accepted was minted for the content it moves, and what it
\* read under the lock is still so.
HandoffInvariant ==
  /\ TypeOK
  /\ OneWriter
  /\ RequestsSound
  /\ FiledAsRequested
  /\ \A p \in Proc : JobReady(p)
  /\ \A p \in Proc : WorkSound(p)
=============================================================================
