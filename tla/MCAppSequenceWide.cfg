CONSTANTS
    NODE_NUM = 1
    AppSeqnos = {1, 257}
    APP_SEQNO_HISTORY = 2
    APP_SEQNO_MAX_AGE = 1
    MaxTime = 2
SPECIFICATION Spec
INVARIANTS
    AppDuplicateIffRecentlyAccepted
