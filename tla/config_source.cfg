SPECIFICATION Spec
CONSTANTS
  Settings = {0, 1}
  Default = 0
  Absent = 2
  Foreign = 3
  WrittenTexts <- SampleTexts
  MaxEdits = 2
  MaxChanges = 1
  MaxLoads = 2
  MaxRequests = 3
PROPERTY
  SourceTextStays
CHECK_DEADLOCK FALSE
