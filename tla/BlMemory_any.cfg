SPECIFICATION Spec
CONSTANTS
    LowPages = 1
    RamTop = 20
    NominalEnd = 4
    EndPages = {3, 18}
    PageBytes = 64
    HeapPages = 3
    StackPages = 1
    Granularity = 8
    DescBytes = 20
    LoaderBlockBytes = 12
    FillSize = 32
    Word = 4096
    HeapSizes = {30, 170}
    ImageTypes = {"SystemCode"}
    DataTypes = {"NlsData"}
    Bases = {0, 8}
    Counts = {1, 3}
    MaxDescs = 11
INVARIANTS
    DescriptorsDisjoint
CHECK_DEADLOCK FALSE
