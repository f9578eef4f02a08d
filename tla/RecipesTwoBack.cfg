SPECIFICATION RecipesSpec
CONSTANTS
    Runs = {u1}
    Steps = 3
    MaxTurns = 1
INVARIANTS
    NotFromTwoBack
CHECK_DEADLOCK FALSE
