SPECIFICATION FairSpec
CONSTANTS
    e1 = e1
    t1 = t1
    t2 = t2
    c1 = c1
    c2 = c2
    Events = {e1}
    Teams = {t1, t2}
    Challenges = {c1, c2}
    Requires <- MCRequires
    Solves <- MCSolves
    Slots = {s1, s2}
    NoTeam = NoTeam
    NoChallenge = NoChallenge
    NoCall = NoCall
    MaxCalls = 3
INVARIANTS TypeOK ChainBacked BoardCountsStored OwnSolveOnBoard
PROPERTIES LedgerSpec EveryCallReturns
