CONSTANTS
    Secrets = {postgres, clickhouse}
    Existing = {postgres}
    Depth = 2
    MaxPrepares = 2
    MaxKills = 3
    MaxFaults = 2
    MaxEdits = 1
    Operators = {o1, o2}
    MaxCuts = 2
    MaxTouches = 2
    MaxCommands = 2
    MaxDeaths = 1
    MaxErrors = 1
    Migrators = {m1, m2}
    Apps = {a1, a2}
    MaxStarts = 2
    MaxFailures = 1
    MaxEvaluations = 2
SPECIFICATION DeploymentSpec
INVARIANTS JournalTrue OldSecretsKept OneKillRecovers FilesWhole StartedIsMarked SchemaWhole
PROPERTIES NothingTaken EverythingEnds
CHECK_DEADLOCK FALSE
