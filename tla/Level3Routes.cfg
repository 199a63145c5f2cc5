SPECIFICATION Spec
CONSTANTS
    LinksetOf <- TwoLinksetOf
    Adjacent <- HalfAdjacent
    Routes <- HalfRoutes
    Server <- TwoServer
    Gateway = Gateway
    Pc <- HalfPc
    NoPc = NoPc
    OwnPc <- MCOwnPc
    TfpUnknown <- MCTfpUnknown
    Fsn = {0}
    NoFsn = NoFsn
    FirstBsnt = 0
    Episodes <- RouteEpisodes
INVARIANTS TableIsRight EveryPointIsWarned RouteSetTestRepairs
