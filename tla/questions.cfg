SPECIFICATION QuestionsSpec
CONSTANTS
    Requests = {r1, r2}
    Closers = {c1}
    MaxGenerations = 2
    Workers = 1
    StageCount = 2
    Parallel = 1
    MaxIds = 3
    None = None
INVARIANTS PoolsSound NeverShutOut AnswersSound
PROPERTIES PoolsRecover
