SPECIFICATION FairWSpec
CONSTANTS
    file = file
    dir = dir
    NoObject = NoObject
    Nobody = Nobody
    NoRange = NoRange
    NoVersion = 0
    Objects = {file, dir}
    Tickets = {1, 2, 3}
    Ranges = {}
    Versions = {1, 2, 3, 4, 5, 6}
    Rows = {}
    Asks <- CreateWriteAndFlush
    AsyncUpload = TRUE
    AbandonKinds = {}
    Foreign = {11, 12}
    Frontends = 2
    Faults = 1
    Refusals = 1
    Crashes = 1
    Troubles = 2
    TextMerge = TRUE
    Perils = {}
INVARIANTS
    SavedIsSomewhere
    TheirsAreKept
    BaseIsInTheBuffer
PROPERTIES
    OwedIsSettled
