SPECIFICATION SSpec
CONSTANTS
    SoupSize = 6
    MaxSlots = 3
    CellLimits = {3}
    ReapFloors = {0}
    MinCellSize = 2
    MaxMalMult = 2
    MalSamSiz = TRUE
    MalLimits = {1}
    GenomeSizes = {2}
    NumInoculum = 1
    MaxClones = 1
    ImmigrantTries = 2
    ResizeTries = 2
INVARIANT OccupiedIsNotFree
