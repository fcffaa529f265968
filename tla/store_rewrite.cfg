\* The same: two holders commit the same revision.
SPECIFICATION StoreSpec
CONSTANTS
    p1 = p1
    p2 = p2
    a1 = a1
    a2 = a2
    b1 = b1
    NoCall = NoCall
    Null = Null
    Procs = {p1, p2}
    Calls = {a1, a2, b1}
    CallProc <- TwoAndOne
    Actors = {a1, a2, b1}
    RetryLimit = 2
    MayOutlast = FALSE
    MayFail = FALSE
    CrashLimit = 1
    Asks <- AppliesOnly
    Unlocked = {"create"}
    Contents = {m1, m2}
    Uuids = {u1, u2, u3}
    MaxRev = 1
    MaxBatch = 1
    InitialRevisions = {0}
    InterruptLimit = 1
SYMMETRY Interchangeable
PROPERTIES
    HistoryNeverRewritten
CHECK_DEADLOCK FALSE
