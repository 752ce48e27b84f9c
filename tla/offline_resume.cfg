CONSTANTS
    Secrets = {postgres, clickhouse}
    Existing = {postgres}
    Depth = 2
    MaxPrepares = 1
    MaxKills = 2
    MaxFaults = 0
    MaxEdits = 0
SPECIFICATION Spec
INVARIANT InterruptedRollbackResumes
CHECK_DEADLOCK FALSE
