SPECIFICATION Spec
CONSTANTS
  Events = {e1, e2}
  Malformed = {}
  Controls = {}
  Modes = {"auto", "resp"}
  BatchSize = 2
  Env = {"stop", "db", "import", "crash"}
  MaxStarts = 2
  MaxCopies = 2
  MaxQueue = 2
SYMMETRY EventSymmetry
INVARIANTS
  HandedOnce
  InsertedIsCounted
