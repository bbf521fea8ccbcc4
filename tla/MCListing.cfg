SPECIFICATION Spec
CONSTANTS
    a = a
    b = b
    Names = {a, b}
    Dir = Dir
    Nobody = Nobody
    Listers = {"walk", "refresh", "relist", "ls"}
    History = 1
    Changes = 3
    Flows = 1
    AtOnce = 2
    Perils = {}
SYMMETRY TwoNames
INVARIANTS
    CommitsStand
    QuietMeansQuiet
PROPERTIES
    ListingsSettle
CHECK_DEADLOCK FALSE
