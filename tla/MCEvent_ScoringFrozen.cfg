SPECIFICATION Spec
CONSTANTS
    u1 = u1
    t1 = t1
    t2 = t2
    c1 = c1
    Users = {u1}
    Teams = {t1, t2}
    NoTeam = NoTeam
    Events = {e1}
    NoEvent = NoEvent
    Challenges = {c1}
    Requires <- MCRequires
    MaxAttempts <- MCMaxAttempts
    Slots = {s1, s2}
    Inputs <- MCInputs
    NoRequest = NoRequest
    MaxRequests = 3
PROPERTY ScoringFrozen
