SPECIFICATION Spec
CONSTANTS
  Garbled = Garbled
  None = None
  Source = {s1, s2}
  Command = {c1, c2, c3}
  MaxLines = 6
  MaxFaults = 2
INVARIANTS TypeOK KeptOrReported FiledOnce
PROPERTIES SuccessLinked
CHECK_DEADLOCK FALSE
SYMMETRY Symmetry
