SPECIFICATION Spec
CONSTANTS
    p1 = p1
    p2 = p2
    w1 = w1
    w2 = w2
    None = None
    Plugins = {p1, p2}
    Workers = {w1, w2}
    Jobs = {1, 2, 3}
    MaxConcurrency = 2
    QueueDepth = 2
    MaxFailures = 2
    MaxRetained = 2
    Reports = {"done", "cancelled", "failed"}
SYMMETRY Interchangeable
INVARIANTS
    TypeOK
    OneCallPerPlugin
    AnswerIsTrue
    BookkeepingAgrees
PROPERTIES
    EndedIsFinal
    ImplementsPluginQueue
