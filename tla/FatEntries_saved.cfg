SPECIFICATION Spec
CONSTANTS
    FatSize = 5
    WindowSize = 2
    Fats = 2
    Values = {0, 1}
    Zero = 0
    ReadsMayFail = FALSE
    MountsWhenDirty = FALSE
INVARIANTS
    TypeOK
    OnlyWindowUnsaved
PROPERTIES
    ImplementsFatTable
