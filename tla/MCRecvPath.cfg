SPECIFICATION Spec
CONSTANTS
    Streams <- MCStreams
    BIPBUFFER_LEN = 12
    MINFRAME = 4
    TAG = 2
    FIRSTBYTES = 6
    MOREBYTES = 4
    SOCKETBUF = 6
    MAXSPURIOUS = 1
    SpuriousModes = {"bb", "lbb"}
INVARIANTS
    DeliveredInOrder
    NoFrameLost
    HeldInOrder
    LargeBufferExact
    NoSpaceOnlyForLongFrame
    ClosedDelivers
PROPERTIES
    LateOnlyAfterJoin
    FinRemoves
CHECK_DEADLOCK FALSE
