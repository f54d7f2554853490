SPECIFICATION Spec
CONSTANTS
  None = none
  Concepts = {1, 2, 3}
  Sessions = {1, 2}
  NoSession = nosession
  Source <- MCSource
  PageSize = 2
  MaxK = 2
  MaxChanges = 1
  Recallable <- MCRecallable
  Questions <- MCQuestions
  Procs = {"first", "second"}
  Uses <- MCUses
  Stores = {"here", "copy"}
  Origin = "here"
  Roots <- MCRoots
  Rank <- MCRank
  Terms = {"t"}
  Term <- MCTerm
  Matches <- MCMatches
  MaxLooked = 1
  MaxRow = 2
  MaxSeq <- MCMaxSeq
  MaxOutside = 1
  Versions = {46, 47}
  Entries = {1, 2, 3, 4}
  Folder = 2
  Inside = {3}
  Content <- MCContent
  Placed = {"record", "binary"}
  Lower <- MCLower
  WellFormed = {"a", "b", "c", "d", "e", "f"}
  MaxErrors = 3
  MaxEdits = 1
  Trees <- MCTrees
  EmptyTree <- MCEmptyTree
  NotText = nottext
  Huge = huge
  NoLocator = nolocator
  PartialLocator = partial
  MaxConcepts = 8
  Requests <- MCRequests
  NoDocument <- MCNoDocument
  Options <- MCOptions
  MaxMoves = 1
INVARIANTS
  TypeOK
  AllOfItOrNone CopiesNeverCollide IndexMirrorsRoots DoctorIsRight
  ScanIsAccounted RequestIsSound ExitTellsTruth
PROPERTIES
  AnswersOneInstant EveryCommandEnds
