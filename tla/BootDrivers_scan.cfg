SPECIFICATION FairSpec
CONSTANTS
    Hives <- InstanceHives
    OrderList <- InstanceOrder
    Vectors <- InstanceVectors
    TagLimit = 4
CHECK_DEADLOCK FALSE
INVARIANTS
    NoDriverLost
    ListOrdered
PROPERTIES
    ScanEnds
