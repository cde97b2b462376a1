\* Two operators and the timer; two pairs of which one is the plan, so that a
\* protocol can complete with units still to run.
SPECIFICATION FairSpec
CONSTANTS
  Operators = {o1, o2}
  Timer = timer
  NoSession = nobody
  Pairs <- TwoPairs
  PlannedN = 1
  MaxProtocols = 1
  MaxCommands = 4
  MaxCrashes = 1
  MaxBusy = 1
INVARIANTS RunsOnce StateTellsResult
PROPERTIES OutcomesStand Concludes
