SPECIFICATION Spec
CONSTANTS
    Ids = {"1"}
    Logs = {"9"}
    MaxFlight = 2
    MaxWrites = 1
    MaxSwaps = 2
    MaxLogins = 1
INVARIANTS
    ControlsWork
    
    PollersStay
    BackupReportsTruth
CHECK_DEADLOCK FALSE
