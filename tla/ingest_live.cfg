SPECIFICATION FairSpec
CONSTANTS
  Proc = {p1, p2}
  Source = {s1}
  Date = {d1}
  None = None
  Commands = {"ingest", "reconcile"}
  MaxRuns = 2
  MaxFaults = 2
  MaxDrops = 1
PROPERTIES LockFreed InterruptedIngestHeals
CHECK_DEADLOCK FALSE
