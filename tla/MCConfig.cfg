CONSTANTS
    Contents <- MCContents
    Value <- MCValue
    Default <- MCDefault
    Existing = {Word}
    Word = Word
    NoFile = NoFile
    None = None
SPECIFICATION ConfigSpec
INVARIANTS
    UnchangedIsInForce
    FixedSinceStart
PROPERTIES
    FollowsFile
