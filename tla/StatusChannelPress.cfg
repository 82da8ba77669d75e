SPECIFICATION Spec
CONSTANTS
    Command = {c1}
    Channel = {ch1}
    Boot = Boot
    None = None
    Faults = {}
    MaxDeletions = 1
INVARIANTS
    PressFindsConfig
CHECK_DEADLOCK FALSE
