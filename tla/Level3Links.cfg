SPECIFICATION FairSpec
CONSTANTS
    LinksetOf <- OneLinksetOf
    Adjacent <- OneAdjacent
    Routes <- OneRoutes
    Server <- OneServer
    Gateway = Gateway
    Pc <- OnePc
    NoPc = NoPc
    OwnPc <- MCOwnPc
    TfpUnknown <- MCTfpUnknown
    Fsn = {0}
    NoFsn = NoFsn
    FirstBsnt = 0
    Episodes <- LinkEpisodes
INVARIANTS EveryWaitIsTimed NoLinkIsForgotten
PROPERTIES InhibitionIsolatesNobody EveryLinkServes
