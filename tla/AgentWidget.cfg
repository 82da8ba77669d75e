SPECIFICATION WidgetSpec
CONSTANTS
    Agent = {a1}
    Guild = {g1}
    Saver = {s1}
    None = None
    MaxErrors = 0
    MaxSessions = 2
    MaxMessages = 2
    MaxFailures = 1
INVARIANTS
    WidgetTypeOK
PROPERTIES
    WidgetSettles
CHECK_DEADLOCK FALSE
