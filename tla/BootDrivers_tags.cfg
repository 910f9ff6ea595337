SPECIFICATION Spec
CONSTANTS
    Hives <- InstanceHives
    OrderList <- InstanceOrder
    Vectors <- InstanceVectors
    TagLimit = 4
CHECK_DEADLOCK FALSE
INVARIANTS
    ListedTagsFirst
