SPECIFICATION ServicesSpec
CONSTANTS
    Running = {"gate"}
    t1 = t1
    t2 = t2
    c1 = c1
    a1 = a1
    a2 = a2
    Teams = {t1, t2}
    Challenges = {c1}
    Addresses = {a1, a2}
    Attempts <- MCAttempts
    Slots = {s1, s2}
    NoTeam = NoTeam
    NoAttempt = NoAttempt
    NoRefusal = NoRefusal
    RateWindow = 2
    RateMax = 1
    PerSecond = 2
    MaxCalls = 3
    Clock = {0, 1, 4}
    Callers = {r1, r2}
    TTL = 2
    Timeout = 1
    MaxTime = 4
    Guests = {g1, g2}
    Limit = 2
    LimitWindow = 4
    MaxClock = 5
    Events = {e1}
    Clients = {b1}
    Streams = {b2}
    Writers = {w1, w2}
    NoEvent = NoEvent
    MaxBoards = 2
    Roles = {"", "payment", "unknown"}
    Numbers = {0, 2, 5}
    NaN = NaN
    NoDepth = NoDepth
    Flagged = {1, 2}
    Secrets = {k1, k2}
    NoSecret = NoSecret
    MaxStarts = 3
    Solvers = {z1, z2}
    Statuses = {"locked"}
    MaxRequests = 2
    MaxUnlocks = 1
PROPERTY DisabledIsRefused
CHECK_DEADLOCK FALSE
