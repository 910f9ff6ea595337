CONSTANTS
    SoundBase <- InstanceBase
    SoundWords <- InstanceWords
    SoundBins <- InstanceBins
    SoundCells <- InstanceCells
    SoundKeys <- InstanceKeys
    Files <- InstanceFiles
    HBLOCK_SIZE = 24
    KeySize = 2
    ValueSize = 2
    LargestKey = 4
    Names = {10, 15, 20, 30, 40}
SPECIFICATION FairSpec
INVARIANTS AllKeysChecked LookupFinds RightHiveBooted
PROPERTIES CheckEnds
CHECK_DEADLOCK FALSE
