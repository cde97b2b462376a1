CONSTANTS
  Clients = {c1, c2}
  NoClient = NoClient
  Units = {u1, u2}
  NoUnit = NoUnit
  Operators = {o1, o2}
  Policies = {p1, p2}
  NoPolicy = NoPolicy
  AnyPolicy = p1
  ReservePath = "Path"
  MaxCalls = 1
  MaxFaults = 0
  MaxEdits = 3
SPECIFICATION Spec
INVARIANT PersistedIsReadable
CHECK_DEADLOCK FALSE
