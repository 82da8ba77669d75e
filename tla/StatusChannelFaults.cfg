SPECIFICATION Spec
CONSTANTS
    Command = {c1, c2}
    Channel = {ch1, ch2}
    Boot = Boot
    None = None
    Faults = {"restart", "dbError", "lostAnswer", "refusedDelete"}
    MaxDeletions = 1
SYMMETRY Symmetry
INVARIANTS
    WidgetInChannel
    NoLeakedWidget
CHECK_DEADLOCK FALSE
