SPECIFICATION Spec
CONSTANTS
    m1 = m1
    m2 = m2
    m3 = m3
    home = home
    elsewhere = elsewhere
    Nobody = Nobody
    NoPlace = NoPlace
    Processes = {m1, m2, m3}
    Places = {home, elsewhere}
    Home = home
    Roles = {"mount", "serve", "tool", "clear", "remove", "login"}
    Edits = 2
    Logins = 3
    Crashes = 2
SYMMETRY Alike
INVARIANTS
    EditsSurviveNeighbours
    LiveMountsAreSeen
    LoginsAreWhole
CHECK_DEADLOCK FALSE
