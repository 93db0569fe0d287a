SPECIFICATION QFairSpec
CONSTANT MaxSlots = 4
INVARIANTS TwoRingsOfTheLiving
PROPERTIES RefinesOrder EveryoneGetsATurn
