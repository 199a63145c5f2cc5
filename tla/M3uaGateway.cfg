SPECIFICATION Spec
CONSTANTS
    Asps <- MCAsps
    Servers <- MCServers
    Member <- MCMember
    Mode <- MCMode
    Required <- MCRequired
    Recovers <- MCRecovers
    Gateway <- MCGateway
    Assoc = {"p", "q", "r", "z"}
    NoAssoc = "-"
    Rules <- MCRules
    Presented <- MCPresented
    ServerOf <- MCServerOf
    Actives <- MCActives
    Inactives <- MCInactives
    Sls <- MCSls
    Msu = {"m"}
    PendingLimit <- MCPendingLimit
INVARIANTS NoLostWakeUp OnlyWhoAsked TransferPathFollows NothingIsStranded EveryUpAspKnows
PROPERTY FollowsFigure4
CHECK_DEADLOCK FALSE
