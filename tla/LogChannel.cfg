SPECIFICATION FairSpec
CONSTANTS
    Command = {c1, c2}
    Channel = {ch1, ch2}
    Other = {n1}
    Boot = boot
    None = None
    Threads = 3
    Faults = {"restart", "dbError"}
INVARIANTS TypeOK SentWhereRecorded SavedMatchesCache ChannelExists
PROPERTIES LogsEnd CommandsEnd
CHECK_DEADLOCK FALSE
