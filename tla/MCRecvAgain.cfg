SPECIFICATION Spec
CONSTANTS
    Streams <- MCLargeFrameStreams
    BIPBUFFER_LEN = 12
    MINFRAME = 4
    TAG = 2
    FIRSTBYTES = 6
    MOREBYTES = 4
    SOCKETBUF = 6
    MAXSPURIOUS = 1
    SpuriousModes = {"lbb"}
INVARIANT
    FullLargeBufferIsReleased
CHECK_DEADLOCK FALSE
