\* Every property of the materializer, over lives, outages and two sessions.
SPECIFICATION Spec

CONSTANTS
    t1 = t1
    t2 = t2
    t3 = t3
    timer = timer
    cli = cli
    None = None
    Tasks = {t1, t2, t3}
    Unlisted = {t3}
    IncludedTasks = {t1}
    ExcludedTasks = {t2}
    Sessions = {timer, cli}
    Timer = timer
    Fallback = 1
    RunLimit = 3
    Worlds <- MCWorlds

INVARIANT Consistent

PROPERTY FirstPassSettles
PROPERTY OutageKeepsEvidence
PROPERTY ImplementsTable
PROPERTY OutcomesCatchUp
