SPECIFICATION FairSpec
CONSTANTS
    Command = {c1, c2}
    Channel = {ch1}
    Boot = Boot
    None = None
    Faults = {"lostAnswer", "restart", "dbError"}
    MaxDeletions = 1
INVARIANTS
    SavedMatchesCache
PROPERTIES
    BuildingEnds
    DeletionNoticed
CHECK_DEADLOCK FALSE
