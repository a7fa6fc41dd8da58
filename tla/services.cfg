SPECIFICATION MCSpec
CONSTANTS
  Models = {m, n}
  MaxRetries = 2
  NoModel = NoModel
  Keys = {x, y, z}
  Outcomes = {1, 2}
  MaxEntries = 2
  TTL = 2
  Processes = {p, q}
  QueueEntries <- MCQueueEntries
  RegistryEntries <- MCRegistryEntries
  Torn = Torn
  Categories = {c}
  Calibration = 3
  MinRounds = 4
  Threshold = 20
  MaxRounds = 12
  Tasks = {s, t}
  MinNet = 1
  MaxRows = 4
  Nothing = Nothing
  Worlds = {1, 2}
  Programs = {3}
  Slug <- MCSlug
  MaxLearned = 1
  MaxCalls = 4
  MaxFaults = 2
  Idle = Idle
  None = None
  Foreign = Foreign
INVARIANTS HealsLast NothingLost FreezeEarned PromotedUnharmed
           StoreVerifies ImportedAsRecorded
PROPERTY CacheKeepsRecent
CHECK_DEADLOCK FALSE
