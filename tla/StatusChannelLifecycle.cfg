SPECIFICATION Spec
CONSTANTS
    Command = {c1, c2}
    Channel = {ch1, ch2}
    Boot = Boot
    None = None
    Faults = {"dbError", "refusedDelete"}
    MaxDeletions = 1
SYMMETRY Symmetry
INVARIANTS
    TypeOK
PROPERTIES
    OnlyUsersErase
    ImplementsLifecycle
CHECK_DEADLOCK FALSE
