CONSTANTS
    Call = {c1, c2, c3}
    None = None
    SendCapacity = 2
    SpuriousWakeups = TRUE
SPECIFICATION Spec
INVARIANTS
    TypeOK
    AnswerIsOwn
    ListIsWhole
PROPERTIES
    DroppedOnlyEarlyOrLate
CHECK_DEADLOCK FALSE
SYMMETRY Symmetry
