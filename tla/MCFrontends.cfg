SPECIFICATION FairSpec
CONSTANTS
    f1 = f1
    f2 = f2
    d1 = d1
    d2 = d2
    c1 = c1
    c2 = c2
    p1 = p1
    x = x
    y = y
    Fds = {f1, f2}
    Dirs = {d1, d2}
    Conns = {c1, c2}
    Pullers = {p1}
    Listings <- TheListings
    MaxStreams = 1
    MaxConns = 1
    MaxLog = 2
    Requests = 3
    Changes = 3
    Restarts = 1
    Scenes <- TheScenes
    Perils = {}
INVARIANTS
    StreamsAreOfOnePiece
    NothingIsSkipped
PROPERTIES
    OnlyTheDeadAreInterrupted
    EverybodyIsAnswered
CHECK_DEADLOCK FALSE
