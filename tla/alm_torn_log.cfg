SPECIFICATION FairPipelineSpec
CONSTANTS
  Types = {"policy_parameters"}
  Slots = {"s"}
  SlotTypes <- MCAnyType
  Payloads = {"p", "bad"}
  Good = {"p"}
  ExplicitIds = {}
  NoId = NoId
  Faults = {"torn"}
  StaleAfter = 0
  Grace = 0
  Retention = 0
  MaxCreated = 1
  MaxClock = 0
  MaxFaults = 1
PROPERTY Recovers
CHECK_DEADLOCK FALSE
