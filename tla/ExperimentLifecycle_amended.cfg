\* One operator and the timer are enough to revive an invalidated protocol.
SPECIFICATION Spec
CONSTANTS
  Operators = {o1}
  Timer = timer
  NoSession = nobody
  Pairs <- OnePair
  PlannedN = 1
  MaxProtocols = 1
  MaxCommands = 5
  MaxCrashes = 0
  MaxBusy = 0
INVARIANTS AmendedStaysInvalid
