\* An operator evaluates a production task by its name.
SPECIFICATION Spec

CONSTANTS
    t1 = t1
    t2 = t2
    None = None
    Tasks = {t1, t2}
    Units = {u1, u2}
    Cohort <- MCCohort
    CommitAt <- MCCommitAt
    Facts <- MCFacts
    Sweep = evaluation_timer
    Operator = operator
    Runners = {runner1, runner2}
    Analytics = analytics_timer
    PerformanceTimer = performance_timer
    PerformanceUser = performance_user
    TierFloor <- MCTierFloor
    Profile <- MCProfile
    Cases <- MCCases
    Worlds <- MCOperatorWorld

INVARIANT EveryProductionTaskCounts
