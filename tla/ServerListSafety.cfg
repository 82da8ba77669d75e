SPECIFICATION Spec
CONSTANTS
    Server = {s1, s2}
    Button = {b1, b2}
    Message = {}
    Handler = {h1, h2}
    Config = {r1}
    Boot = boot
    None = None
    MaxServers = 1
    MaxButtons = 1
    ButtonsPerRow = 1
    MaxRows = 3
    MaxWidth = 2
    MaxOptions = 1
    MaxEdits = 1
    Faults = {"restart"}
SYMMETRY Symmetry
INVARIANTS
    PinResolved
    PinListed
    ListedStored
    MessagesFit
CHECK_DEADLOCK FALSE
