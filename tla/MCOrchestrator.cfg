SPECIFICATION Spec
CONSTANTS
    e1 = e1
    t1 = t1
    c1 = c1
    c2 = c2
    Ids = {i1, i2}
    Keys <- MCKeys
    Nonces = {n1}
    Slots = {s1, s2}
    NoId = NoId
    NoKey = NoKey
    NoNonce = NoNonce
    NoRequest = NoRequest
    MaxRequests = 3
SYMMETRY MCSymmetry
INVARIANTS TypeOK MapNamesOwn TeardownAllStopsLost
PROPERTIES LifecycleSpec
CHECK_DEADLOCK FALSE
