SPECIFICATION FairSpec
CONSTANTS
  Events = {e1}
  Malformed = {bad}
  Controls = {ctl}
  Modes = {"auto", "subscribe", "http", "resp"}
  BatchSize = 2
  Env = {"connect", "unsupported"}
  MaxStarts = 1
  MaxCopies = 1
  MaxQueue = 2
PROPERTIES
  ItemsArrive
