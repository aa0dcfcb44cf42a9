SPECIFICATION LiveSpec
CONSTANTS
    Tasks = {t1, t2}
    Reminders = {r1}
    t1 = t1
    t2 = t2
    r1 = r1
    Period = 2
    Backoff <- MCBackoff
    MaxAttempts = 2
    MaxConcurrent = 1
    NoRun = NoRun
    NoSubject = NoSubject
    Horizon = 1
    MaxRequests = 3
    MaxStops = 1
    MaxFaults = 1
INVARIANTS BurstsAreBounded TaskRowsAreOwned ReminderExecutedOnce
PROPERTIES ShutdownEnds TaskRunsEnd DueRemindersFire
CHECK_DEADLOCK FALSE
