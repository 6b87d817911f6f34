SPECIFICATION Spec
CONSTANTS
  ask = ask
  again = again
  reworded = reworded
  None = None
  Source = {s1}
  Date = {d1, d2}
  Observation = {ask, again, reworded}
  Base <- BaseOf
  Place <- PlaceOf
  Raw <- RawOf
  Name <- NameOf
  Command = {c1, c2}
  Legacy = {"1.0", "1.1"}
  MaxRuns = 4
  MaxReviews = 3
  MaxKills = 2
INVARIANTS TypeOK IdsUnique NothingLost SuppressionHolds
PROPERTIES FiledIdsStable
CHECK_DEADLOCK FALSE
SYMMETRY Symmetry
