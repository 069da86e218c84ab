SPECIFICATION Spec
CONSTANTS
  QuotaFiles = {q1, q2}
  MaxLists = 1
  MaxReads = 2
  MaxBatches = 1
  MaxSingles = 1
  Accounts = {a1, a2}
  Sites = {s1, s2}
  NoSite = NoSite
  Workers = 1
  Probed = {"keep", "delete"}
  MaxRuns = 2
  AuthNames = {n1, n2}
  RuntimeOnly = {}
  MaxUnderWay = 2
  Settings = {0, 1}
  Default = 0
  Absent = 2
  Foreign = 3
  WrittenTexts <- SampleTexts
  MaxEdits = 1
  MaxChanges = 1
  MaxLoads = 2
  MaxRequests = 3
  Buffered = 3
  MaxLines = 5
  MaxAttempts = 3
  MaxPolls = 2
  MaxCallbacks = 1
  Scopes = {"day", "week"}
  LastPage = 2
  MaxQueries = 6
  MaxNow = 3
INVARIANTS
  VisualSaveIsAPatch
  TypeOK
  LoadingIsServed
  SupplementaryIsNotOlder
  RefreshIsServed
  ResultsAreOfThisSite
  LiveResultsAreOfTheRun
  RunIsServed
  OneChangePerSwitch
  DroppedAreDeleted
  LogIsOneStretch
  WaitingIsPolled
  RowsAnswerTheFilter
CHECK_DEADLOCK FALSE
PROPERTIES
  EditorsAgree
