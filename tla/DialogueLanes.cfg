SPECIFICATION Spec
CONSTANTS
    Ring = 2
    Negatives = 1
    NoPeer = "none"
    Lanes = {0, 1}
    LaneDepth = 1
    LaneOfPeer <- MCLaneOfPeer
    LaneOfTid <- MCLaneOfTid
    Peers <- MCPeers
    MaxDialogues = 1
    Scripts <- MCScripts
    Openings <- MCOpenings
    Answering = {"Result", "Error"}
    Faults = {"Panic", "Loss", "Damage"}
    MaxOriginated = 1
    MaxPeerMessages = 2
    MaxLegs = 2
    MaxFaults = 1
    MaxLocal = 2
CHECK_DEADLOCK FALSE
INVARIANTS
    ToldOnce
    ClaimIsQueued
    EndsAgree
PROPERTIES EveryDialogueEnds
