SPECIFICATION FairSpec
CONSTANTS
    SoupSize = 5
    MaxSlots = 3
    CellLimits = {1, 3}
    ReapFloors = {0, 1, 3}
    MinCellSize = 2
    MaxMalMult = 2
    MalSamSiz = FALSE
    MalLimits = {1, 5}
    GenomeSizes = {2, 3, 6}
    NumInoculum = 2
    MaxClones = 2
    ImmigrantTries = 2
INVARIANTS NoByteShared EveryByteAccounted QueuesHoldTheLiving RunningCellHasTheTurn
PROPERTIES BirthsAndReapsWithinLimits HandlersReturn
