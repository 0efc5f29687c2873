CONSTANTS
    Shapes <- AllShapes
    MaxExtent = 5
    MaxSize = 30
    MaxFrames = 2
SPECIFICATION FairSpec
INVARIANT KeepsUp
PROPERTIES
    ImplementsRef
    AllDelivered
CHECK_DEADLOCK FALSE
