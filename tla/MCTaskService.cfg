CONSTANTS
    Client = {p1, p2}
    NoClient = NoClient
    DataType = {perf, usage}
    Collectable = {perf, usage}
    Interval = {1, 2}
    MAX_DC_INTERVAL = 3
    MAX_TASK_NUM = 2
    MAX_CLIENT_NUM = 2
    MaxRequests = 1
SYMMETRY Symmetry
SPECIFICATION Spec
INVARIANTS
    TaskListIsConsistent
    ServedOftenEnough
    CollectorHasTask
PROPERTIES
    ImplementsSubscriptions
