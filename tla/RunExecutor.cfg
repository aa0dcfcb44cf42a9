SPECIFICATION LiveSpec
CONSTANTS
    Tools = {t1}
    t1 = t1
    RemindAfter = 2
    RestrictAfter = 3
    StopAfter = 3
    MaxRevivals = 1
INVARIANTS StuckIsShown StopsAreAnnounced
PROPERTY ExecutionEnds
CHECK_DEADLOCK FALSE
