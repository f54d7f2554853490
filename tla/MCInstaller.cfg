SPECIFICATION Spec
CONSTANTS
  Harnesses <- TwoHarnesses
  Aliased = {}
  Files = {"SKILL.md", "reference"}
  MaxVersion = 2
  MaxMoves = 1
INVARIANTS TypeOK InstallIsComplete
PROPERTIES UnownedPreserved Idempotent
