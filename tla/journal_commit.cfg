\* Up to four revisions, two commands per plan, one create revision, two
\* calls cut short anywhere.
SPECIFICATION JournalSpec
CONSTANTS
    Null = Null
    a = a
    k = k
    Actors = {a}
    Asks <- Anything
    Unlocked = {}
    Contents = {m1, m2}
    MaxRev = 3
    MaxBatch = 2
    InitialRevisions = {0}
    Uuids = {u1, u2, u3}
    InterruptLimit = 2
SYMMETRY Interchangeable
INVARIANTS
    JournalTypeOK
    NoPartialWrite
    AckedDurable
PROPERTIES
    OpenReadsCommitted
    CommitsOnReviewedBase
    ImplementsLog
CHECK_DEADLOCK FALSE
