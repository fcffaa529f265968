\* Three applies, a read and two destroys, the adapter failing at will.
SPECIFICATION FairRuntimeSpec
CONSTANTS
    NoCall = NoCall
    Torn = Torn
    Applies = {a1, a2, a3}
    Reads = {r1}
    Destroys = {d1, d2}
INVARIANTS
    RuntimeTypeOK
    OneChangeAtATime
    RendererAgrees
    CommitsInOrder
    DrainedBeforeRelease
    ReadsOwnWrites
PROPERTIES
    EveryCallAnswers
CHECK_DEADLOCK FALSE
