SPECIFICATION FairSpec
CONSTANTS
    Kernel = ntoskrnl
    Hal = hal
    A = a
    B = b
    MaxNames = 6
    Images <- MCImages
    Disks <- MCDisks
    Word = 16
INVARIANTS
    TypeOK
    EachOnce
    BoundAsNamed
    CountsReferences
    HandedOverComplete
PROPERTIES
    RefusedOnlyWhenMissing
    ComesToAnEnd
