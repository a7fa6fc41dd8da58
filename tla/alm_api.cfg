SPECIFICATION UnmarkedSpec
CONSTANTS
  Types = {"recipe", "policy_parameters"}
  Slots = {"s"}
  SlotTypes <- MCAnyType
  Payloads = {"p", "bad"}
  Good = {"p"}
  ExplicitIds = {x}
  NoId = NoId
  Faults = {"crash", "torn", "save", "edit"}
  StaleAfter = 0
  Grace = 0
  Retention = 0
  MaxCreated = 2
  MaxClock = 0
  MaxFaults = 1
INVARIANT ViewEqualsRebuild
INVARIANT LineageClosed
PROPERTY IdentityImmutable
PROPERTY ImplementsHistory
CHECK_DEADLOCK FALSE
