SPECIFICATION Spec
CONSTANTS
    Agent = {a1, a2}
    Guild = {g1, g2}
    Saver = {s1}
    None = None
    MaxErrors = 1
    MaxSessions = 2
SYMMETRY Symmetry
INVARIANTS
    TypeOK
    OneOwner
    NeverOrphaned
    ListedAreConnected
    GuildsServed
    ListedOwns
    SubscribersToldAll
CHECK_DEADLOCK FALSE
