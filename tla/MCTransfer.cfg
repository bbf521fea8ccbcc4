SPECIFICATION Spec
CONSTANTS
    a = a
    b = b
    Clients = {a, b}
    Sizes = {1, 2}
    Parts = 2
    Uploads = 3
    Faults = 2
    Sweepable = TRUE
SYMMETRY TwoClients
INVARIANTS
    FilesAreWhole
    ConflictsAreOthers
    AnswersAreTrue
CHECK_DEADLOCK FALSE
