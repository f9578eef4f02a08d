SPECIFICATION RecipesFairSpec
CONSTANTS
    Runs = {u1}
    Steps = 1
    MaxTurns = 1
PROPERTIES
    StoppingMakesWay
CHECK_DEADLOCK FALSE
