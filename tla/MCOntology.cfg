SPECIFICATION Spec
CONSTANTS
  Sessions = {s1, s2}
  Never = Never
  Garbled = Garbled
  Keys = {"command"}
  Values = {a, b}
  Paths = {"p"}
  MaxMessages = 2
  MaxVersion = 2
  MaxTime = 2
  MaxAhead = 1
  SilentEdits = FALSE
SYMMETRY Symmetry
CHECK_DEADLOCK FALSE
INVARIANTS TypeOK HealthyIsCurrent HealthyNeedsNothing
PROPERTIES IncrementalIsFull RebuildHeals
