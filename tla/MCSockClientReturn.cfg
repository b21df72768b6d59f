CONSTANTS
    Call = {c1, c2}
    None = None
    SendCapacity = 2
    SpuriousWakeups = TRUE
SPECIFICATION Spec
PROPERTIES
    CallsReturn
CHECK_DEADLOCK FALSE
