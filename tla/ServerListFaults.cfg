SPECIFICATION Spec
CONSTANTS
    Server = {s1}
    Button = {b1}
    Message = {m1}
    Handler = {h1}
    Config = {r1}
    Boot = boot
    None = None
    MaxServers = 1
    MaxButtons = 1
    ButtonsPerRow = 1
    MaxRows = 3
    MaxWidth = 2
    MaxOptions = 1
    MaxEdits = 2
    Faults = {"restart", "dbError"}
SYMMETRY Symmetry
INVARIANTS
    TypeOK
    SavedMatchesMemory
    WidgetCurrent
    ShownButtonsWork
CHECK_DEADLOCK FALSE
