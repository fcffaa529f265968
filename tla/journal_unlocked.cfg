\* The same: the create removes the journal of an apply.
SPECIFICATION JournalSpec
CONSTANTS
    Null = Null
    a = a
    k = k
    Actors = {a, k}
    Asks <- CreateBesideOthers
    Unlocked = {"create"}
    Contents = {m1, m2}
    MaxRev = 1
    MaxBatch = 1
    InitialRevisions = {0}
    Uuids = {u1, u2, u3}
    InterruptLimit = 0
SYMMETRY Interchangeable
INVARIANTS
    NoPartialWrite
CHECK_DEADLOCK FALSE
