CONSTANTS
    Msg = {m1, m2, m3, m4}
    NoMsg = NoMsg
    PWR_BUFFER_SIZE = 4
SPECIFICATION Spec
INVARIANTS
    TypeOK
    SlotsHoldOwnMessages
PROPERTIES
    SeenMessageIsPopped
    OnlyNewestIsLeaked
    MessagesLeave
    ImplementsLossyQueue
