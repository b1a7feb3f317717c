CONSTANTS
    IoThreads = {t1, t2}
    MaxClients = 3
    Ip <- MCIp
    InitConf <- MCInitConf
    Confs <- MCConfs
    MaxUpdates = 2
SPECIFICATION Spec
INVARIANT SpeedLimit
PROPERTIES
    TestStillHolds
    ClientsAnswered
    TokensRefilled
    StopEnds
CHECK_DEADLOCK FALSE
