SPECIFICATION InspectionSpec
CONSTANTS
  Accounts = {a1, a2}
  Sites = {s1}
  NoSite = NoSite
  Workers = 1
  Probed = {"keep", "delete"}
  MaxRuns = 1
INVARIANT CompletedRunInspectedAll
CHECK_DEADLOCK FALSE
