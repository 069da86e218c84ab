SPECIFICATION Spec
CONSTANTS
  NoIndex = NoIndex
  Files = {f1}
  Indexes = {i1}
  Syncs = {s1}
  QueueSize = 1
  DueLimit = 1
  Env = {}
  MaxTime = 2
  MaxRows = 2
INVARIANTS
  DisableIsOwned
