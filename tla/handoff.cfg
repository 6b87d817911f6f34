SPECIFICATION Spec
CONSTANTS
  Proc = {p1}
  Name = {n1, n2}
  Source = {s1, s2}
  Date = {d1}
  Runtime = {t1, t2}
  None = None
  Commands = {"session-inbox", "ingest", "reconcile"}
  Outside = {}
  Legacy = FALSE
  MaxRuns = 2
  MaxDrops = 1
  MaxMishaps = 1
  MaxFaults = 1
INVARIANTS TypeOK FiledAsRequested
PROPERTIES HandoffKept
SYMMETRY Symmetry
CHECK_DEADLOCK FALSE
