SPECIFICATION Spec
CONSTANTS
    BUFLEN = 6
    Byte <- MCByte
INVARIANTS
    TypeOK
    BlocksDisjoint
    ReservationSafe
    DecommitMultiExact
    FreeSpaceRecoverable
PROPERTY
    FifoSpec
