SPECIFICATION Spec
CONSTANTS
    Sources = {1}
    StableSources = {1}
    SheetSources = {}
    Tasks = {t1}
    Worker = worker
    Clients = {client}
    None = none
    MaxRequests = 0
    MaxTroubles = 0
CHECK_DEADLOCK FALSE
INVARIANT OnlyIndexedSearchable
