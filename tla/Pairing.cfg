SPECIFICATION FairSpec
CONSTANTS
    Agent = {a1}
    Guild = {g1, g2}
    Sharer = {s1, s2}
    Pairer = {p1, p2}
    Code = {c1}
    None = None
    Lifetime = 1
    Patience = 1
    MaxTime = 2
INVARIANTS TypeOK UsedOnceInTime CodeStands
PROPERTIES LinkedByConsent PairingEnds
CHECK_DEADLOCK FALSE
