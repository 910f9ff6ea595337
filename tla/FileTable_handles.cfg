SPECIFICATION Spec
CONSTANTS
    TableSize = 5
    Handles = {h1, h2}
    Sectors = {0, 63}
    FatSectors = {0, 63}
    FileSectors = {0, 63}
    Files = {"hal.dll"}
    FileSize = 1
INVARIANTS
    TypeOK
    HandlesKept
    FullOnlyWhenFull
PROPERTIES
    ImplementsFileHandles
SYMMETRY Symmetry
