SPECIFICATION Spec
CONSTANTS
  Sessions = {s1, s2}
  Never = Never
  Garbled = Garbled
  Keys = {"command"}
  Values = {a, b}
  Paths = {"p"}
  MaxMessages = 2
  MaxVersion = 2
  MaxTime = 2
  MaxAhead = 1
  SilentEdits = TRUE
SYMMETRY Symmetry
CHECK_DEADLOCK FALSE
PROPERTIES IncrementalIsFull
