SPECIFICATION Spec
CONSTANTS
    Sources = {1}
    StableSources = {}
    SheetSources = {}
    Tasks = {t1}
    Worker = worker
    Clients = {client}
    None = none
    MaxRequests = 0
    MaxTroubles = 1
CHECK_DEADLOCK FALSE
INVARIANT UnfinishedIsDiscoverable
