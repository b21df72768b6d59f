CONSTANTS
    CoreNum = 3
    OtherLines = 1
    Available <- MCAvailable
    Foreign = "Architecture"
    Rooms = {0, 2, 3}
    MaxWords = 3
    None = None
SPECIFICATION Spec
INVARIANTS
    ReadingsAreTrue
    CountIsOfTheBuffer
