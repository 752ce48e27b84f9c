CONSTANTS
    Procs = {p1}
    MaxRuns = 1
    MaxKills = 1
    MaxFaults = 1
SPECIFICATION Spec
PROPERTY BackupKeptUntilReceipt
CHECK_DEADLOCK FALSE
