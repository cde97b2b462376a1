\* After an outage of Phoenix the usage of models is not written again.
SPECIFICATION Spec

CONSTANTS
    t1 = t1
    t2 = t2
    t3 = t3
    timer = timer
    cli = cli
    None = None
    Tasks = {t1}
    Unlisted = {}
    IncludedTasks = {t1}
    ExcludedTasks = {}
    Sessions = {timer}
    Timer = timer
    Fallback = 1
    RunLimit = 3
    Worlds <- MCOutageWorld

PROPERTY UsageCatchesUp
