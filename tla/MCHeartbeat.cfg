SPECIFICATION FairSpec
CONSTANTS
    Changes = 2
    Outages = 2
    Drops = 1
    Perils = {}
PROPERTIES
    EveryChangeIsFound
    RecoveryIsShown
CHECK_DEADLOCK FALSE
