CONSTANTS
    A = A
    B = B
    Bc = Bc
    Handles = {0, 1}
    Sizes = {1, 2}
    ChannelOffsets = {0}
    Addrs <- MCAddrs
    Broadcast = Bc
    LinkOptionSets <- MCLinkOptionSets
    DoRemoveValues = {TRUE}
    QueueLens = {0, 1}
    MaxLinks = 2
    MaxSlotframes = 2
    NbrTableSize = 2
    DefaultLength = 2
SPECIFICATION Spec
INVARIANTS
    TypeOK
    TxLinkCountConsistent
    SelectorMatchesReference
