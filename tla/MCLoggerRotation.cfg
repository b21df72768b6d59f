CONSTANTS
    Thread = {t1}
    MaxFileSize = 1
    MaxCmpCnt = 1
    MaxLines = 6
    MaxTime = 2
    None = None
SPECIFICATION Spec
PROPERTIES
    RotationCreatesLog
