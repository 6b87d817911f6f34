SPECIFICATION StoppedSpec
CONSTANTS
  Proc = {p1, p2}
  Source = {s1, s2}
  Date = {d1, d2}
  s1 = s1
  d1 = d1
  d2 = d2
  None = None
  Commands = {"ingest", "reconcile", "repair-date"}
  MaxRuns = 4
  MaxFaults = 1
  MaxDrops = 0
INVARIANTS ArtifactKeepsMeeting
CHECK_DEADLOCK FALSE
