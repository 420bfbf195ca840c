SPECIFICATION Spec
CONSTANTS
    Users = {u1, u2, u3, u4}
    Teams = {t1, t2}
    NoUser = NoUser
    NoJoin = NoJoin
    MaxTeamSize = 2
    Slots = {s1, s2}
SYMMETRY Symmetry
INVARIANTS TypeOK SizeBound Roster
