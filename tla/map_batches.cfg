CONSTANTS
    Absent = Absent
    Specs <- MCSpecs
    CommandSet <- MCCommandSet
    Blocked = {"blocked"}
    MaxRevision = 4
    BatchSizes <- MCBatchSizes
SPECIFICATION AdapterSpec
INVARIANTS
    BatchTypeOK
    UndoRestores
    RestoresWithinReach
    AnswersTruly
    MapShowsSpec
CHECK_DEADLOCK FALSE
