SPECIFICATION Spec
CONSTANTS
  Proc = {p1, p2}
  Source = {s1, s2}
  Date = {d1, d2}
  None = None
  Commands = {"ingest", "reconcile", "repair-date"}
  MaxRuns = 4
  MaxFaults = 2
  MaxDrops = 1
SYMMETRY Symmetry
CONSTRAINT Scope
INVARIANTS TypeOK PrimaryStable MintedIdentityHolds CurrentStateSound
PROPERTIES OutputsUntouched PromiseKept
CHECK_DEADLOCK FALSE
