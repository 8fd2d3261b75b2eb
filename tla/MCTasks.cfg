\* Three calls of any kind, a day of two seconds and the next.
CONSTANTS
    c1 = c1
    c2 = c2
    c3 = c3
    k1 = k1
    ref = ref
    Calls <- MCCalls
    Ids <- MCIds
    Keys <- MCKeys
    NoKey = NoKey
    None = None
    Refs = {ref}
    Requests <- MCRequests
    DayLength = 2
    LastSecond = 2
SPECIFICATION TasksSpec
INVARIANTS TasksTypeOK
PROPERTIES DecisionsStand EditsAreAtomic
SYMMETRY MCSymmetry
CHECK_DEADLOCK FALSE
