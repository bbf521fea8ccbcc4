SPECIFICATION Spec
CONSTANTS
    root = root
    dir = dir
    file = file
    range1 = range1
    range2 = range2
    v1 = v1
    NoObject = NoObject
    Nobody = Nobody
    NoRange = NoRange
    NoVersion = NoVersion
    Objects = {dir, file}
    Tickets = {1, 2, 3}
    Ranges = {range1, range2}
    Versions = {v1}
    Rows <- FileRows
    Asks <- FileAsks
    AsyncUpload = TRUE
    AbandonKinds <- Kinds
INVARIANTS
    NothingStranded
    OrderOfArrival
    EditsKept
    GivenUpServesNobody
PROPERTIES
    OnlyTheAbandonedAreInterrupted
