\* Two gateways, two operators, timeouts and one kill or slow resolution.
CONSTANTS
  Clients = {c1, c2}
  NoClient = NoClient
  Units = {u1, u2}
  NoUnit = NoUnit
  Operators = {o1, o2}
  Policies = {p1, p2}
  NoPolicy = NoPolicy
  AnyPolicy = p1
  ReservePath = "Path"
  MaxCalls = 2
  MaxFaults = 1
  MaxEdits = 2
SPECIFICATION FairSpec
INVARIANTS SpawnedHoldsSlot
PROPERTIES ImplementsLedger HooksReturn CanaryReserves
CHECK_DEADLOCK FALSE
