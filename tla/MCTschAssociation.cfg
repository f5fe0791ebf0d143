CONSTANTS
    N1 = N1
    N2 = N2
    NoAddr = NoAddr
    Nbrs <- MCNbrs
    None = NoAddr
    MaxJoinPriority = 8
    EbJoinPriorities <- MCEbJoinPriorities
    KaTimeouts = {0, 1}
    KaQueueLen = 2
    DaoQueueLen = 2
    HCK_MOD_NO_PATH_DAO_FOR_ORCHESTRA_PARENT = TRUE
SPECIFICATION Spec
INVARIANTS
    TypeOK
    KeepaliveNeverLost
    ParentKnowsUsOnlyAfterDaoAck
