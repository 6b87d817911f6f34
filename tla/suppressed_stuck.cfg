SPECIFICATION Spec
CONSTANTS
  Ann = Ann
  Bob = Bob
  ask = ask
  promise = promise
  reply = reply
  None = None
  Garbled = Garbled
  Person = {Ann}
  Signal = {ask, reply}
  Tracked = {ask}
  Owner <- OwnerOf
  Source <- SourceOf
  Match <- MatchOf
  Command = {c1}
  Reader = {}
  Reviewed = {Ann}
  Known = {ask, reply}
  Requests <- Suppressions
  MaxRuns = 2
  MaxFree = 1
  MaxEdits = 0
  MaxReviews = 2
  MaxFaults = 0
PROPERTIES ReportedWhenNew
CHECK_DEADLOCK FALSE
