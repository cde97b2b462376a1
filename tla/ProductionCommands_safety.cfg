SPECIFICATION Spec
CONSTANTS
  r1 = r1
  o1 = o1
  o2 = o2
  t1 = t1
  old = old
  new = new
  None = None
  Torn = Torn
  Unbound = Unbound
  Runners = {r1}
  MaxVersions = 1
  Planned <- MCPlanned
  OrderBit <- MCOrderBit
  Lead = 1
  HandWritten <- MCHandWritten
  Outcomes = {"PASS", "FAIL"}
  MaxStarts = 1
  Operators = {o1, o2}
  HermesOps = {o1}
  RuntimePeers = {o2}
  Tasks = {t1}
  Kinds <- MCKinds
  Grants <- MCGrants
  Identities = {old, new}
  InitialWorlds <- MCWorlds
  MaxCommands <- MCCommands
  MaxChanges = 1
INVARIANTS LimitsHold OnlyEarned VerdictsTrue
PROPERTIES ImplementsLedger
CHECK_DEADLOCK FALSE
