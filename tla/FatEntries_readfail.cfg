SPECIFICATION Spec
CONSTANTS
    FatSize = 5
    WindowSize = 2
    Fats = 2
    Values = {0, 1}
    Zero = 0
    ReadsMayFail = TRUE
    MountsWhenDirty = FALSE
INVARIANTS
    LookupTells
