SPECIFICATION Spec
CONSTANTS
  Types = {"recipe"}
  Slots = {"s"}
  SlotTypes <- MCAnyType
  Payloads = {"p", "bad"}
  Good = {"p"}
  ExplicitIds = {x}
  NoId = NoId
  Faults = {"crash", "save"}
  StaleAfter = 0
  Grace = 0
  Retention = 1
  MaxCreated = 1
  MaxClock = 3
  MaxFaults = 1
INVARIANT TypeOK
PROPERTY DeletionRested
CHECK_DEADLOCK FALSE
