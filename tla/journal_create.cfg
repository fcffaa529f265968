\* A create, which takes no lock, beside opens and applies; one call is cut short.
SPECIFICATION JournalSpec
CONSTANTS
    Null = Null
    a = a
    k = k
    Actors = {a, k}
    Asks <- CreateBesideOthers
    Unlocked = {"create"}
    Contents = {m1, m2}
    MaxRev = 2
    MaxBatch = 1
    InitialRevisions = {0}
    Uuids = {u1, u2, u3}
    InterruptLimit = 1
SYMMETRY Interchangeable
INVARIANTS
    AckedDurable
PROPERTIES
    OpenReadsCommitted
    CommitsOnReviewedBase
CHECK_DEADLOCK FALSE
