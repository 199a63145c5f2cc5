SPECIFICATION Spec
CONSTANTS
    Asps <- MCAsps
    Servers <- MCServers
    Member <- MCMember
    Mode <- MCMode
    Required <- MCRequired
    Recovers <- MCRecovers
    Gateway <- MCGateway
    LongestWait <- MCLongestWait
    Jitter <- MCJitter
    Faults = {"Break", "Fail", "Lose", "Hurry", "Evict", "Change"}
    MaxFaults = 2
INVARIANTS EndsAgree NoneIsBlind
PROPERTIES Settles FollowsFairFigure4
CHECK_DEADLOCK FALSE
