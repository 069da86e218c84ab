SPECIFICATION FairSpec
CONSTANTS
  NoIndex = NoIndex
  Files = {f1, f2}
  Indexes = {i1}
  Syncs = {}
  QueueSize = 1
  DueLimit = 1
  Env = {"fetch", "patch", "lost", "db", "crash"}
  MaxTime = 2
  MaxRows = 2
INVARIANTS
  HoldIsEffective
PROPERTIES
  ImplementsHold
  DueIsClosed
