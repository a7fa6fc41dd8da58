SPECIFICATION PipelineSpec
CONSTANTS
  Types = {"recipe", "policy_parameters"}
  Slots = {"recipe:c", "params:c"}
  SlotTypes <- MCTypedSlots
  Payloads = {"p", "q", "bad"}
  Good = {"p", "q"}
  ExplicitIds = {}
  NoId = NoId
  Faults = {"crash"}
  StaleAfter = 0
  Grace = 0
  Retention = 0
  MaxCreated = 3
  MaxClock = 1
  MaxFaults = 1
INVARIANT ReplacementTookOver
INVARIANT DiskIsRebuildOrMissing
PROPERTY PromotionPairCompletes
CHECK_DEADLOCK FALSE
