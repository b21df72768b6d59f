CONSTANTS
    Thread = {t1, t2}
    MaxFileSize = 1
    MaxCmpCnt = 1
    MaxLines = 6
    MaxTime = 2
    None = None
SPECIFICATION Spec
INVARIANTS
    TypeOK
    LinesAreKept
    SilentOnlyAfterFailure
PROPERTIES
    NewestAreKept
SYMMETRY Symmetry
