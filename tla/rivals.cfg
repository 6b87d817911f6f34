SPECIFICATION Spec
CONSTANTS
  Proc = {p1, p2}
  Name = {n1}
  Source = {s1}
  Date = {d1, d2}
  Runtime = {t1}
  None = None
  Commands = {"session-inbox", "ingest-inbox", "provider-request", "ingest"}
  Outside = {s1}
  Legacy = TRUE
  MaxRuns = 2
  MaxDrops = 0
  MaxMishaps = 0
  MaxFaults = 1
PROPERTIES PromiseKept
SYMMETRY Symmetry
CHECK_DEADLOCK FALSE
