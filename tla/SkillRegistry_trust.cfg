\* What is installed without asking, against the documents.
SPECIFICATION Spec

CONSTANTS
    Absent = Absent
    Nobody = Nobody
    Threads = {t1, t2}
    Commands = {cli}
    Local <- MCLocal
    Movable <- MCMovable
    Sources <- MCSources
    Seeds <- MCSeeds
    VirtualId <- MCVirtualId
    VirtualName <- MCVirtualName
    Hits <- MCHits
    Texts <- MCTexts
    HubAnswers <- MCHubAnswers
    Worlds <- MCWorlds

INVARIANT InstallsAsDocumented
CHECK_DEADLOCK FALSE
