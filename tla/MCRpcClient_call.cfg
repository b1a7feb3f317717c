CONSTANTS
    Callers = {t1, t2}
    MaxCalls = 3
SPECIFICATION Spec
INVARIANTS
    NoCrossTalk
PROPERTIES
    PromiseKept
    TimedCallReturns
CHECK_DEADLOCK FALSE
