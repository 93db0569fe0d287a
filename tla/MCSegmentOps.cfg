SPECIFICATION GSpec
CONSTANTS
    MotherSize = 4
    MinCellSize = 3
    MinGenMemSiz = 2
    MaxMalMult = 2
    ThrNum = 1
    ThrDen = 2
    MateSizeEp = 1
    Mates <- MCMates
    Margins = {0, 2}
INVARIANTS GatesStillHold SegmentsAreRuns
PROPERTIES SegmentsMoveWhole
