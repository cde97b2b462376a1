SPECIFICATION Spec
CONSTANTS
  r1 = r1
  o1 = o1
  o2 = o2
  t1 = t1
  old = old
  new = new
  None = None
  Torn = Torn
  Unbound = Unbound
  Runners = {r1}
  MaxVersions = 1
  Planned <- MCPlanned
  OrderBit <- MCOrderBit
  Lead = 1
  HandWritten <- MCHandWritten
  Outcomes = {"PASS", "FAIL"}
  MaxStarts = 1
  Operators = {}
  HermesOps = {}
  RuntimePeers = {}
  Tasks = {t1}
  Kinds <- MCKinds
  Grants <- MCGrants
  Identities = {old, new}
  InitialWorlds <- MCOpenWorld
  MaxCommands <- MCCommands
  MaxChanges = 0
INVARIANTS ConfirmatoryAtHorizon
CHECK_DEADLOCK FALSE
