\* A crash inside an operation, then another process recovers.
SPECIFICATION StoreSpec
CONSTANTS
    p1 = p1
    p2 = p2
    a1 = a1
    a2 = a2
    b1 = b1
    NoCall = NoCall
    Null = Null
    Procs = {p1, p2}
    Calls = {a1, b1}
    CallProc <- OneEach
    Actors = {a1, b1}
    RetryLimit = 2
    MayOutlast = FALSE
    MayFail = TRUE
    CrashLimit = 1
    Asks <- Anything
    Unlocked = {"create"}
    Contents = {m1, m2}
    Uuids = {u1, u2, u3}
    MaxRev = 3
    MaxBatch = 1
    InitialRevisions = {0}
    InterruptLimit = 2
SYMMETRY Interchangeable
INVARIANTS
    NoPartialWrite
    AckedDurable
PROPERTIES
    LockServesJournal
    HistoryNeverRewritten
CHECK_DEADLOCK FALSE
