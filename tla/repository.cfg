SPECIFICATION RepositorySpec
CONSTANTS
    Cases = {c1, c2}
    NoAnswer = {c1}
    Batches = {b1}
    MaxManual = 1
    MaxTroubles = 2
    None = None
    Known = {k1, k2}
    Fresh = {f1, f2}
    Sends = {s1, s2}
    Creates = {n1}
    Deletes = {d1}
    Tokens = {"t1", "t2"}
    Confirms = {i1, i2}
    Singles = {"single"}
    MaxPreviews = 1
    MaxFaults = 1
    Calls = {q1, q2}
    Shown = {x, y}
    Frames = 2
    MaxOperations = 4
    MaxAsked = 3
    MaxActs = 2
    Sources = {x, y, z}
    Structured = {x, y}
    Filters = {x}
    Writes = {"create", "run"}
CHECK_DEADLOCK FALSE
INVARIANTS BatchesSound WritesSound PagesSound
PROPERTIES RecordsStand WorkEnds
