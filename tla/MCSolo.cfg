SPECIFICATION FairSpec
CONSTANTS
    u1 = u1
    u2 = u2
    t1 = t1
    c1 = c1
    c2 = c2
    c3 = c3
    Users = {u1, u2}
    Teams = {t1}
    NoTeam = NoTeam
    Events = {}
    NoEvent = NoEvent
    Challenges = {c1, c2, c3}
    Requires <- MCRequires
    MaxAttempts <- MCMaxAttempts
    Slots = {s1, s2}
    Inputs <- MCInputs
    NoRequest = NoRequest
    MaxRequests = 3
INVARIANTS AttemptBound SolveBound ChainDiscipline FirstBloodAwarded FirstBloodBound
PROPERTY EveryRequestAnswered
