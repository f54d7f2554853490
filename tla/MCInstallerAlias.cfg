SPECIFICATION Spec
CONSTANTS
  Harnesses <- TwoHarnesses
  Aliased = {"claude"}
  Files = {"SKILL.md"}
  MaxVersion = 1
  MaxMoves = 0
PROPERTY HubStays
