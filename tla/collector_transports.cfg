SPECIFICATION FairSpec
CONSTANTS
  Events = {e1}
  Malformed = {bad}
  Controls = {}
  Modes = {"auto"}
  BatchSize = 1
  Env = {"connect", "unsupported", "broken", "odd", "stop"}
  MaxStarts = 2
  MaxCopies = 1
  MaxQueue = 1
PROPERTIES
  CancelledRunsEnd
