SPECIFICATION FairSpec
CONSTANTS
    Budgets = {3, 4}
    Every = 2
    MaxCells = 3
    MaxSlice = 3
    StepSizes = {0, 2}
    BirthGoals = {1, 2}
    Caps = {1}
    MaxBirths = 3
INVARIANTS ExactBirths
PROPERTIES BudgetOvershoot BirthsReached CallsReturn
