SPECIFICATION PagesSpec
CONSTANTS
    Visited = {"practice"}
    Tabs = {t1, t2}
    Accounts = {"u", "a"}
    Admins = {"a"}
    Nobody = "nobody"
    MaxSession = 4
    Sockets = {1, 2, 3, 4}
    Tokens = {"x", "y"}
    NoToken = "no token"
    MaxChanges = 4
    CTFUsers = {U, W}
    NoUser = "nobody"
    CTFTeams = {A, B}
    NoTeam = "no team"
    CTFEvents = {"short", "open"}
    NoEvent = "no event"
    StartOf <- MCStart
    EndOf <- MCEnd
    MaxClicks = 3
    MaxNow = 2
    MaxLab = 5
    Rows = {"r1", "r2"}
    MaxEdits = 2
    MaxActs = 3
    Workers = {w1, w2}
    MaxRows = 2
    MaxLooks = 3
INVARIANT CatalogIsShown
CHECK_DEADLOCK FALSE
