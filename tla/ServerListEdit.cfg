SPECIFICATION Spec
CONSTANTS
    Server = {s1}
    Button = {b1}
    Message = {}
    Handler = {h1}
    Config = {r1}
    Boot = boot
    None = None
    MaxServers = 1
    MaxButtons = 1
    ButtonsPerRow = 1
    MaxRows = 3
    MaxWidth = 2
    MaxOptions = 1
    MaxEdits = 1
    Faults = {}
SYMMETRY Symmetry
INVARIANTS EditKnowsMessage
CHECK_DEADLOCK FALSE
