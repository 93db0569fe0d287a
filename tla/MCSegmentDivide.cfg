SPECIFICATION SFairSpec
CONSTANTS
    SoupSize = 8
    MaxSlots = 2
    CellLimits = {2}
    ReapFloors = {0, 1}
    MinCellSize = 2
    MaxMalMult = 2
    MalSamSiz = TRUE
    MalLimits = {1}
    GenomeSizes = {2, 3}
    NumInoculum = 1
    MaxClones = 1
    ImmigrantTries = 2
    ResizeTries = 2
INVARIANTS ResizeKeepsMemory
PROPERTIES ResizeReturns
