SPECIFICATION Spec
CONSTANTS
  Conns = {a, b}
  NoConn = NoConn
  MaxToken = 4
  MaxSaves = 1
  MaxOthers = 1
  AvailKeys = {k1, k2}
  Hooks = {h1, h2}
  MaxDetections = 3
INVARIANTS
  TypeOK
  AuthenticatedMeansAccepted
  FetchedForThisSession
  OwnWritesStay
  ShownForThisKey
PROPERTIES
  LoginSettles
CHECK_DEADLOCK FALSE
