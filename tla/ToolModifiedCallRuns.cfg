SPECIFICATION Spec
CONSTANTS
    Calls = {t1, t2}
    t1 = t1
    t2 = t2
    MaxConcurrent = 2
    TurnMayTimeOut = FALSE
INVARIANT ModifiedCallRuns
CHECK_DEADLOCK FALSE
