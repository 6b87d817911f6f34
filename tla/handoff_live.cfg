SPECIFICATION FairSpec
CONSTANTS
  Proc = {p1}
  Name = {n1}
  Source = {s1}
  Date = {d1}
  Runtime = {t1, t2}
  None = None
  Commands = {"session-inbox", "ingest", "reconcile"}
  Outside = {}
  Legacy = FALSE
  MaxRuns = 3
  MaxDrops = 0
  MaxMishaps = 1
  MaxFaults = 1
PROPERTIES InboxDrains AnsweredCompletes
CHECK_DEADLOCK FALSE
