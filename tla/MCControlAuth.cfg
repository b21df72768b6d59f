CONSTANTS
    Client = {a1, a2}
    NoClient = NoClient
    INVALID_INDEX = INVALID_INDEX
    MAX_CLIENT_NUM = 2
    MaxConn = 3
    MaxCalls = 2
    MayTimeOut = TRUE
SPECIFICATION Spec
INVARIANTS
    TypeOK
    ControlIsHeld
    OneSlotPerClient
CHECK_DEADLOCK FALSE
SYMMETRY Symmetry
