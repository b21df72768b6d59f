CONSTANTS
    Client = {p1}
    NoClient = NoClient
    DataType = {"perf", "usage"}
    Collectable = {"perf"}
    Interval = {2}
    MAX_DC_INTERVAL = 3
    MAX_TASK_NUM = 2
    MAX_CLIENT_NUM = 1
    MaxRequests = 1
SPECIFICATION DaemonSpec
INVARIANTS
    NothingLeftRunning
PROPERTIES
    DeletionsEnd
    StopEnds
CHECK_DEADLOCK FALSE
