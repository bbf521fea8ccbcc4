SPECIFICATION TreeSpec
CONSTANTS
    a = a
    b = b
    Names = {a, b}
    Slots = {1}
    Depth = 2
    MaxId = 4
    Flows = 1
    Works = 1
    Foreign = 1
    Restarts = 1
    Perils = {}
SYMMETRY Swaps
INVARIANTS
    EveryRowIsReached
    PathsAreSpelled
PROPERTIES
    OnlyOthersCollide
    OwedStaysOwed
CHECK_DEADLOCK FALSE
