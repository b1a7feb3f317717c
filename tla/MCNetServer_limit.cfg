CONSTANTS
    IoThreads = {t1, t2}
    MaxClients = 3
    Ip <- MCIp
    InitConf <- MCInitConf
    Confs <- MCConfs
    MaxUpdates = 1
SPECIFICATION Spec
INVARIANT ConcurrencyIsMaximum
CHECK_DEADLOCK FALSE
