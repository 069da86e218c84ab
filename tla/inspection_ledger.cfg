SPECIFICATION FromFullList
CONSTANTS
  Accounts = {1, 2}
  Files = {f1}
  FileOf <- Shared
  Keys = {minute}
  Manual = Manual
  Callers = {c1, c2}
  Modes = {"disable"}
  Verdicts <- QuotaOrDead
  Switches = {"disable"}
  SampleSize = 0
  DeleteWorkers = 1
  MaxRuns = 1
  MaxUploads = 1
INVARIANTS
  TypeOK
PROPERTIES
  CallsHitTheAccount
  ImplementsLedger
  RunEnds
CHECK_DEADLOCK FALSE
