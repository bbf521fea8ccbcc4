SPECIFICATION Spec
CONSTANTS
    f1 = f1
    f2 = f2
    w1 = w1
    w2 = w2
    hydrator = hydrator
    NoOne = NoOne
    Files = {f1, f2}
    Workers = {w1, w2}
    Length <- Shrinking
    ReadaheadAfter = 1
    FetchChunk = 2
    HydrateFloor = 1
    MaxWindows = 1
    MaxReadahead = 1
    Budget = 1
    Events = 3
    Perils = {"late request", "stale auto"}
SYMMETRY Alike
INVARIANTS
    FreshIsTrue
    FillsAreNoOlder
    PinnedIsHere
CHECK_DEADLOCK FALSE
