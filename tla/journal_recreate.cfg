\* Two creates with different initial revisions, the first cut short.
SPECIFICATION JournalSpec
CONSTANTS
    Null = Null
    a = a
    k = k
    Actors = {a}
    Asks <- Anything
    Unlocked = {}
    Contents = {m1, m2}
    MaxRev = 1
    MaxBatch = 1
    InitialRevisions = {0, 1}
    Uuids = {u1, u2, u3}
    InterruptLimit = 1
SYMMETRY Interchangeable
INVARIANTS
    NoPartialWrite
CHECK_DEADLOCK FALSE
