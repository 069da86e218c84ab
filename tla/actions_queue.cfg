SPECIFICATION Spec
CONSTANTS
  Files = {f1}
  Accounts = {a1, a2}
  NoAccount = NoAccount
  Labels = {}
  Types = {"delete"}
  Admins = {p}
  QueueSize = 1
  Env = {"call", "lost", "db", "unconfigured", "crash", "toggle", "replace"}
  MaxRows = 2
  MaxUploads = 1
SYMMETRY Symmetry
INVARIANTS
  TypeOK
  DisableOnRecord
PROPERTIES
  ImplementsQueue
  DeletedMeansGone
  CallsHitTheAccount
