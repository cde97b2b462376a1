CONSTANTS
  Policies = {good, bad}
  BadPolicies = {bad}
  NoPolicy = NoPolicy
  Operators = {o1, o2}
  Timer = Timer
  NoProcess = NoProcess
  MaxUnits = 1
  SampledUnits = {1}
  MaxCandidates = 1
  MaxCommands = 2
  MaxCrashes = 1
  MaxBusy = 1
  MaxFaults = 2
SPECIFICATION Spec
PROPERTY NoExposureAfterDisable
