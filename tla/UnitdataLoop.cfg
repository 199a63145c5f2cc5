SPECIFICATION Spec
CONSTANTS
    None = None
    Unread = Unread
    Config <- MCConfig
    Host <- MCHost
    Ends <- MCEnds
    Traffic <- Circling
    Capacity = 1
    Changes <- MCChanges
    Fails = {}
    MaxFaults = 0
    MaxMessages = 1
PROPERTY LoopsAreCaught
CHECK_DEADLOCK FALSE
