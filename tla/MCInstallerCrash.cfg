SPECIFICATION Spec
CONSTANTS
  Harnesses <- OneHarness
  Aliased = {}
  Files = {"SKILL.md", "reference"}
  MaxVersion = 1
  MaxMoves = 0
INVARIANT OwnedDirectoriesAreMarked
