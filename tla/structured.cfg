SPECIFICATION FairSpec
CONSTANTS
    Workers = {w1, w2}
    MaxJobs = 2
    MaxVersions = 2
    MaxTroubles = 2
    NullsFirst = FALSE
    NoJob = NoJob
INVARIANTS JobsSound ServedHasTable
PROPERTIES OnlyHolderDecides RefinesServedPublication EventuallyPublished
CHECK_DEADLOCK FALSE
