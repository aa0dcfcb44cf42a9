SPECIFICATION LiveSpec
CONSTANTS
    Calls = {t1, t2}
    t1 = t1
    t2 = t2
    MaxConcurrent = 1
    TurnMayTimeOut = TRUE
INVARIANTS ConsentBeforeEffect EveryCallSettled
PROPERTIES AbortStopsBatch EveryBatchEnds
CHECK_DEADLOCK FALSE
