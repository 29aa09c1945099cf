SPECIFICATION Spec
CONSTANTS
    Fds <- MCFds
    Addrs <- MCAddrs
    MAX_FRAME = 1
    MAX_SLOT = 2
    MANAGE_COUNT = 2
    Slots = {0}
    ShellCloses = TRUE
INVARIANT
    ManagerEntriesValid
