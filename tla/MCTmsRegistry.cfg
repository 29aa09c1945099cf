SPECIFICATION Spec
CONSTANTS
    Fds <- MCFds
    Addrs <- MCAddrs
    MAX_FRAME = 1
    MAX_SLOT = 2
    MANAGE_COUNT = 3
    Slots = {0, 2}
    ShellCloses = TRUE
INVARIANTS
    ManagerEntriesValidUnlessRaced
    ManagersDistinct
    AnnouncedManagersServed
    SingleLocationDevicesValid
PROPERTY
    ManagerKeepsSlot
