SPECIFICATION Spec
CONSTANTS
    Streams <- MCLongFrameStreams
    BIPBUFFER_LEN = 12
    MINFRAME = 4
    TAG = 2
    FIRSTBYTES = 6
    MOREBYTES = 4
    SOCKETBUF = 6
    MAXSPURIOUS = 1
    SpuriousModes = {"bb"}
PROPERTY
    FramesThatFitAreDelivered
CHECK_DEADLOCK FALSE
