SPECIFICATION LiveSpec
CONSTANTS
    Files <- MCFiles
    NumRuns = 2
    Texts <- MCTexts
    Commanding <- MCFirst
    Revivable <- MCSecond
    MaxChanges = 2
    MaxCrashes = 2
    Faults <- AllFaults
    MaxFaults = 1
    None = None
    Absent = Absent
    Torn = Torn
INVARIANTS
    SnapshotPrecedesRun
PROPERTIES
    OthersContentSurvives
    RestoredOnce
    FailedRunsAreUnwound
    CrashWindowCloses
CHECK_DEADLOCK FALSE
