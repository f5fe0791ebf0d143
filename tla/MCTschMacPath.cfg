CONSTANTS
    Me = 1
    Neighbors = {2, 3}
    SeqnoStart = {255}
    TSCH_QUEUE_NUM_PER_NEIGHBOR = 2
    MaxTx = 2
    INPUT_RING = 2
    MAX_SEQNOS = 2
    SEQNO_MAX_AGE = 1
    MaxSends = 3
    MaxTime = 2
SPECIFICATION Spec
CHECK_DEADLOCK FALSE
INVARIANTS
    TypeOK
    WindowsMatchHistory
    AckedIsDelivered
PROPERTIES
    NoEarlyDuplicateDelivery
    EveryPacketReported
