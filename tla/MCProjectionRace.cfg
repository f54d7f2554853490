SPECIFICATION Spec
CONSTANTS
  p1 = p1  p2 = p2  d1 = d1  d2 = d2  v1 = v1  v2 = v2
  Marker = Marker  Manifest = Manifest  MarkerText = MarkerText  UserText = UserText
  Nothing = Nothing
  DocNames <- OneDoc
  Rendering <- OneDocStory
  Projectors = {p1}
  UserMoves = {"save"}
  MaxEdits = 1
  UserRaces = TRUE
PROPERTY UserWorkKept
