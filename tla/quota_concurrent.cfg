SPECIFICATION UndisturbedSpec
CONSTANTS
  NoIndex = NoIndex
  Files = {f1}
  Indexes = {i1}
  Syncs = {s1}
  QueueSize = 2
  DueLimit = 2
  Env = {"fetch", "patch", "lost", "db", "cancel", "crash", "toggle", "replace"}
  MaxTime = 2
  MaxRows = 2
INVARIANTS
  TypeOK
  OneActivePerFile
  UndisturbedDisableIsOwned
PROPERTIES
  ClosedStaysClosed
