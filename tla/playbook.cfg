SPECIFICATION Spec
CONSTANTS
  Ann = Ann
  Bob = Bob
  ask = ask
  promise = promise
  reply = reply
  None = None
  Garbled = Garbled
  Person = {Ann}
  Signal = {ask}
  Tracked = {ask}
  Owner <- OwnerOf
  Source <- SourceOf
  Match <- MatchOf
  Command = {c1, c2}
  Reader = {d1}
  Reviewed = {Ann}
  Known = {}
  Requests <- Suppressions
  MaxRuns = 2
  MaxFree = 1
  MaxEdits = 2
  MaxReviews = 2
  MaxFaults = 1
INVARIANTS TypeOK IndexCommitted OneOutcome ReadersServed CurrentMeansDerived NoEcho
PROPERTIES CommittedKept IndexForward PromiseKept
CONSTRAINT Scope
CHECK_DEADLOCK FALSE
SYMMETRY Symmetry
