SPECIFICATION PackedSpec
CONSTANTS
    FatSize = 6
    FatBits = 12
    WindowBytes = 6
    Stored = {0, 291, 65535}
    Formats <- BlankTable
INVARIANTS
    WindowHoldsWholeEntries
PROPERTIES
    PackingImplementsFatTable
