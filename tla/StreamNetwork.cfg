SPECIFICATION FairSpec
CONSTANT
    Designs <- MCDesigns
INVARIANTS
    ReadsRightPixels
PROPERTY
    Completes
CHECK_DEADLOCK FALSE
