SPECIFICATION FairSpec
CONSTANTS
    n1 = n1
    n2 = n2
    Junk = Junk
    Node = {n1, n2}
    Peer = {}
    Load <- MCOneLoad
    SpdZeroTime = 1
    PendReqTime = 4
    ClsIPSUpdInt = 1
    IntrvlOutBndCap = 1
    AutoAddIPMap = TRUE
    AutoRemIPMap = TRUE
    Capacity = 10
    SrvrShare = 1
    MinShare = 2
    Beyond = {1}
    MaxLag = 0
    Doubled = {n1}
    MaxFile = 2
    MaxNet = 1
INVARIANTS NumCellsIsSum SpeedIsSum OnceListed SharesFit
PROPERTIES GhostLeaves
