SPECIFICATION ServicesSpec
CONSTANTS
    Requests = {r1, r2, r3}
    FailureThreshold = 2
    MaxOutages = 2
    Tasks = {t1, t2, t3}
    Closers = {c1, c2}
    MaxSize = 2
    MaxCloses = 2
    EndMark = EndMark
    Nobody = Nobody
    Callers = {b1, b2}
    NBatchers = 2
    MaxItems = 2
    MaxQueue = 3
    None = None
    Queriers = {q1, q2, q3}
    Database = database
    Gateway = gateway
    Repository = repository
    Checks = {embedding, redis}
    Probes = {embedding}
    MaxRounds = 2
    Silent = 1
CHECK_DEADLOCK FALSE
INVARIANTS HalfOpenHasProbe QueuesSound BatchersSound ResourcesSound
PROPERTIES OnlyProbesClose ServesAnswerQueue ServicesSettle
