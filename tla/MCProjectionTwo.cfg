SPECIFICATION Spec
CONSTANTS
  p1 = p1  p2 = p2  d1 = d1  d2 = d2  v1 = v1  v2 = v2
  Marker = Marker  Manifest = Manifest  MarkerText = MarkerText  UserText = UserText
  Nothing = Nothing
  DocNames <- OneDoc
  Rendering <- OneDocStory
  Projectors <- Pair
  UserMoves = {}
  MaxEdits = 1
  UserRaces = FALSE
INVARIANT PublicationStands
