SPECIFICATION Spec
CONSTANTS
    None = None
    Unread = Unread
    Config <- MCConfig
    Host <- MCHost
    Ends <- MCEnds
    Traffic <- MCTraffic
    Capacity = 1
    Changes <- MCChanges
    Fails = {"AB1", "Bg"}
    MaxFaults = 2
    MaxMessages = 2
INVARIANTS InOnePlace NotOvertaken 
PROPERTY HopsEnd
CHECK_DEADLOCK FALSE
