CONSTANTS
    Hubs <- MCHubs
    CTRL_AGAIN_MAX = 1
    Keys = {"two", "up", "enter"}
    Decoded <- MCDecoded
    KBD_RING_SIZE = 4
    BOOT_MENU_SECONDS = 2
    SerialBytes = {"2"}
    MaxEvents = 2
    MaxReports = 2
SPECIFICATION BootSpec
INVARIANTS TypedOnceInOrder FoundIfThere MenuObeys ReadyForKernel NamesTheBadFile
PROPERTY BootEnds
CHECK_DEADLOCK FALSE
