SPECIFICATION Spec
CONSTANTS
    TotalClustersInVolume = 7
    Units = 2
    RootSlots = 3
    MaximumMcb = 3
    MoveAmount = 3
    WriteBound = 12
    CommandBound = 4
    Names <- MCNames
    FileIds <- MCFileIds
    Files <- MCFiles
    Directories <- MCDirectories
    Volumes <- MCVolumes
INVARIANTS SoundVolume SavedAtPrompt Exact
PROPERTY OthersStay
