SPECIFICATION FairSpec
CONSTANTS
    d1 = d1
    d2 = d2
    cli = cli
    daemon = daemon
    shell = shell
    Nobody = Nobody
    Corpse = Corpse
    OldCorpse = OldCorpse
    NoFile = NoFile
    Threads = {d1, d2, cli}
    Process <- TwoProcesses
    Operations <- SomeChanges
    Paths <- SomePaths
    Imports <- OldPins
    Changes = 2
    Deaths = 1
    Perils = {}
INVARIANTS
    NoChangeIsLost
    AnswersAreCurrent
PROPERTIES
    ChangesAreAtomic
CHECK_DEADLOCK FALSE
