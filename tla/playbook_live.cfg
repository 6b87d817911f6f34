SPECIFICATION FairSpec
CONSTANTS
  Ann = Ann
  Bob = Bob
  ask = ask
  promise = promise
  reply = reply
  None = None
  Garbled = Garbled
  Person = {Ann}
  Signal = {ask}
  Tracked = {ask}
  Owner <- OwnerOf
  Source <- SourceOf
  Match <- MatchOf
  Command = {c1}
  Reader = {}
  Reviewed = {Ann}
  Known = {ask}
  Requests <- EntryReviews
  MaxRuns = 5
  MaxFree = 0
  MaxEdits = 0
  MaxReviews = 2
  MaxFaults = 2
INVARIANTS CurrentMeansDerived
PROPERTIES BecomesCurrent
CHECK_DEADLOCK FALSE
