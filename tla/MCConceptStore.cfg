SPECIFICATION Spec
CONSTANTS
  s1 = s1
  s2 = s2
  e1 = e1
  e2 = e2
  e3 = e3
  q1 = q1
  q2 = q2
  f1 = f1
  f2 = f2
  a1 = a1
  a2 = a2
  Sessions = {s1}
  Evidence = {e1, e2}
  SessionOf <- MCSessionOf
  Oversized = {}
  Quotes = {q1, q2}
  Occurs <- MCOccurs
  Documents <- MCDocuments
  Files = {f1}
  ClaimedSession <- MCClaimedSession
  StatementOf <- MCStatementOf
  TooLong = {}
  Assertions = {a1, a2}
  Local = 1
  Peers = {2}
  MaxCounter = 4
  MaxBatch = 2
  MaxPeerSeq = 1
  MaxInstance = 2
  NoSession = NoSession
  NoId = NoId
  NoRoot = NoRoot
  NoParent = NoParent
  NoEvidence = NoEvidence
INVARIANTS
  TypeOK CausalLog IdentitiesUnique LegacyNeverAccepted CitationsClosed
  SupersessionSound RootsHaveHistories ChecksSuffice
PROPERTIES
  IdentitiesNeverReused RetiredIsFinal AllOrNothing ImplementsLifecycle
SYMMETRY Symmetry
