\* Two threads make and use the handlers while the file is loaded again.
SPECIFICATION FairSpec
CONSTANTS
    Workers = {"a", "b"}
    ServiceOf <- MCServiceOf
    BeginsWith <- MCBeginsWith
    Requests <- MCRequests
    MaxRequests = 2
    InitConf <- MCInitConf
    Confs <- MCConfs
    MaxReloads = 1
    MayFail = {"mysql"}
    Garbage <- MCGarbage
INVARIANT OneHandler WalkUndisturbed ConfCurrent
PROPERTY OnlyTheClinch
CHECK_DEADLOCK FALSE
