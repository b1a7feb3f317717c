CONSTANTS
    MaxThread = 3
    MaxTry = 2
    InitConf <- MCInitConf
    Settings <- MCSettings
    Garbage <- MCGarbage
    Missing = Missing
    MaxRequests = 2
    MaxUpdates = 2
SPECIFICATION Spec
INVARIANTS
    KeepsItsThreads
PROPERTIES
    RequestsServed
    StopEnds
CHECK_DEADLOCK FALSE
