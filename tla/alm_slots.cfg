SPECIFICATION UnmarkedSpec
CONSTANTS
  Types = {"policy_parameters"}
  Slots = {"s"}
  SlotTypes <- MCAnyType
  Payloads = {"p", "bad"}
  Good = {"p"}
  ExplicitIds = {}
  NoId = NoId
  Faults = {"append", "crash"}
  StaleAfter = 0
  Grace = 0
  Retention = 0
  MaxCreated = 3
  MaxClock = 0
  MaxFaults = 1
INVARIANT SingleActive
INVARIANT ViewAgreesOnBorn
INVARIANT VersionsOrderSlot
CHECK_DEADLOCK FALSE
