CONSTANTS
    App = {a1, a2}
    MaxFd = 2
    MaxSock = 2
    None = None
SPECIFICATION Spec
INVARIANTS
    TypeOK
    QuietAfterUnRegister
    RequestFreedOnce
PROPERTIES
    UnRegisterReturns
CHECK_DEADLOCK FALSE
