SPECIFICATION Spec
CONSTANTS
    LinksetOf <- TwoLinksetOf
    Adjacent <- TwoAdjacent
    Routes <- TwoRoutes
    Server <- TwoServer
    Gateway = Gateway
    Pc <- TwoPc
    NoPc = NoPc
    OwnPc <- MCOwnPc
    TfpUnknown <- MCTfpUnknown
    Fsn = {0}
    NoFsn = NoFsn
    FirstBsnt = 0
    Episodes <- RestartEpisodes
INVARIANTS ToldBeforeTraffic BeliefIsRight
