SPECIFICATION Spec
CONSTANTS
  o1 = o1
  o2 = o2
  shadow = shadow
  actuating = actuating
  unsound = unsound
  open = open
  other = other
  none = none
  e1 = e1
  e2 = e2
  Operators = {o1}
  Experiments = {e1, e2}
  Unnamed = none
  Policies <- MCPolicies
  Scope <- MCScope
  Treatment <- MCTreatment
  Outcomes <- MCOutcomes
  MaxProtocols <- MCMaxProtocols
  MaxRecs = 2
  MaxBundles = 2
  MaxApprovals = 1
  MaxVersions = 2
INVARIANTS EvidenceChain ShadowApprovalIsGranted TestStaysTest
PROPERTIES OnlyForward ImplementsPointer
CHECK_DEADLOCK FALSE
