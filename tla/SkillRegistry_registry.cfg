\* Two threads of the gateway and one command; skills come and go.
SPECIFICATION Spec

CONSTANTS
    Absent = Absent
    Nobody = Nobody
    Threads = {t1, t2}
    Commands = {cli}
    Local <- MCLocal
    Movable <- MCMovable
    Sources <- MCSources
    Seeds <- MCSeeds
    VirtualId <- MCVirtualId
    VirtualName <- MCVirtualName
    Hits <- MCHits
    Texts <- MCTexts
    HubAnswers <- MCHubAnswers
    Worlds <- MCWorlds

INVARIANTS Consistent StaleIsMarked AnswersHaveReasons
PROPERTIES HooksReturn
CHECK_DEADLOCK FALSE
