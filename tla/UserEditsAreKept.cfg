SPECIFICATION LiveSpec
CONSTANTS
    Files <- MCFiles
    NumRuns = 2
    Texts <- MCTexts
    Commanding <- MCFirst
    Revivable <- MCFirst
    MaxChanges = 2
    MaxCrashes = 1
    Faults <- AllFaults
    MaxFaults = 1
    None = None
    Absent = Absent
    Torn = Torn
PROPERTIES
    UserEditsSurvive
CHECK_DEADLOCK FALSE
