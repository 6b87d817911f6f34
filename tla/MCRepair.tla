------------------------------ MODULE MCRepair ------------------------------
(* An instance of IngestPipeline that begins after an interrupted repair.  *)
EXTENDS MCIngest

CONSTANTS s1, d1, d2

\* The first transcript is filed; a date repair of it was stopped by an I/O
\* error when it had removed the old name of the artifact.  Init leads here with
\* one process (runs and faults are counted).
RepairStopped ==
  LET ready == [src |-> s1, seq |-> 1, event |-> "primary_artifacts_ready", run |-> 1]
      redated == [src |-> s1, seq |-> 3, event |-> "date_repaired", run |-> 0]
      filed == [src |-> s1, seq |-> 1, event |-> "primary_artifacts_ready", run |-> 1,
                mid |-> <<s1, d1>>, out |-> [path |-> <<d1, 1>>, prod |-> ready, date |-> d1],
                produced |-> TRUE, archived |-> FALSE, reconcile |-> "pending"]
      completed == [filed EXCEPT !.seq = 2, !.event = "ingest_completed",
                      !.produced = FALSE, !.archived = TRUE, !.reconcile = "completed"]
  IN
  /\ lock = None
  /\ ledger = <<filed, completed>>
  /\ places = [s \in Source |-> IF s = s1 THEN {"done", "processed"} ELSE {"inbox"}]
  /\ artifacts = [f \in {<<d2, 1>>} |-> ArtifactOf(<<s1, d1>>, redated, d2)]
  /\ signals = [m \in Meeting |-> IF m = <<s1, d1>> THEN SignalsOf(ready, d1) ELSE None]
  /\ pc = [p \in Proc |-> "idle"] /\ job = [p \in Proc |-> NoJob]
  /\ runs = 2 /\ faults = 1 /\ drops = 0

StoppedSpec == RepairStopped /\ [][Next]_vars
=============================================================================
