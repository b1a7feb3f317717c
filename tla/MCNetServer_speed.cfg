CONSTANTS
    IoThreads = {t1, t2}
    MaxClients = 3
    Ip <- MCIp
    InitConf <- MCInitConf
    Confs <- MCSwitched
    MaxUpdates = 2
SPECIFICATION Spec
INVARIANT ChangedSpeedLimit
CHECK_DEADLOCK FALSE
