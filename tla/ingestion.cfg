SPECIFICATION FairSpec
CONSTANTS
    Sources = {1, 2}
    StableSources = {}
    SheetSources = {2}
    Tasks = {t1}
    Worker = worker
    Clients = {client}
    None = none
    MaxRequests = 1
    MaxTroubles = 1
CHECK_DEADLOCK FALSE
INVARIANTS RowsSound DeletedLeavesNothing IndexAgrees
PROPERTY EventuallyProcessed
