\* Two applies and a read.
SPECIFICATION RuntimeSpec
CONSTANTS
    NoCall = NoCall
    Torn = Torn
    Applies = {a1, a2}
    Reads = {r1}
    Destroys = {}
SYMMETRY Interchangeable
PROPERTIES
    ReadsCommitted
CHECK_DEADLOCK FALSE
