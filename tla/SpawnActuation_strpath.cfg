CONSTANTS
  Clients = {c1, c2}
  NoClient = NoClient
  Units = {u1, u2}
  NoUnit = NoUnit
  Operators = {o1}
  Policies = {p1, p2}
  NoPolicy = NoPolicy
  AnyPolicy = p1
  ReservePath = "str"
  MaxCalls = 2
  MaxFaults = 0
  MaxEdits = 2
SPECIFICATION FairSpec
PROPERTY CanaryReserves
CHECK_DEADLOCK FALSE
