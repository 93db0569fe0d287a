SPECIFICATION FairSpec
CONSTANTS
    Slots = {1, 2}
    Sizes = {1, 3}
    Inoculum <- MCInoculum
    NumCellsMin = 1
    SoupSize = 16
    GenPer <- MCGenPer
    MaxSlice = 2
    MaxFlaws = 1
    MaxHost = 1
PROPERTIES BackgroundMutates
