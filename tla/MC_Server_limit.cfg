CONSTANTS
    u1 = u1
    u2 = u2
    s1 = s1
    s2 = s2
    p1 = p1
    p2 = p2
    p3 = p3
    k1 = k1
    Users = {u1, u2}
    Admins = {u1}
    Servers = {s1}
    Places = {p1, p2, p3}
    Keys = {k1, k2}
    NoKey = NoKey
    Slots = {c1, c2}
    MaxGames = 2
    MaxId = 4
    InitAllowed <- MCAllowed
    InitRows <- MCInitRows

SPECIFICATION Spec

INVARIANT GamesWithinLimit
