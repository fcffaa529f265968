\* Two processes, three calls in the first and one in the second: a crash and
\* a restart, unexpected errors, locks that go stale even under a live holder.
SPECIFICATION FairLockSpec
CONSTANTS
    p1 = p1
    p2 = p2
    a1 = a1
    a2 = a2
    a3 = a3
    b1 = b1
    NoCall = NoCall
    Procs = {p1, p2}
    Calls = {a1, a2, a3, b1}
    CallProc <- ThreeAndOne
    RetryLimit = 1
    MayOutlast = TRUE
    MayFail = TRUE
    CrashLimit = 1
INVARIANTS
    LockTypeOK
    InArrivalOrder
    OneAtATimePerProcess
    ExclusiveUntilStale
PROPERTIES
    EveryCallSettles
CHECK_DEADLOCK FALSE
