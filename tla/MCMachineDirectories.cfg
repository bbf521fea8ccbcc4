SPECIFICATION FairSpec
CONSTANTS
    root = root
    dir = dir
    file = file
    range1 = range1
    range2 = range2
    v1 = v1
    NoObject = NoObject
    Nobody = Nobody
    NoRange = NoRange
    NoVersion = NoVersion
    Objects = {root, dir, file}
    Tickets = {1, 2, 3}
    Ranges = {range1, range2}
    Versions = {v1}
    Rows <- ChainRows
    Asks <- ChainAsks
    AsyncUpload = TRUE
    AbandonKinds = {"Move", "Remove"}
INVARIANTS
    HeldOnce
    ParkedHasOneHandover
PROPERTIES
    EveryRequestIsAnswered
