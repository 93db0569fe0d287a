SPECIFICATION Spec
CONSTANTS
    Slots = {0, 1}
    Genomes = {1, 2, 3}
    Hash <- MCHash
    MaxLabel = 3
    Inoculum <- MCInoculum
    DiskBank = TRUE
    SavMinNum = 2
INVARIANTS PopIsTheLiving NamesAreSpecies PermanentIsSaved
