CONSTANTS
    NumNodes = 3
    Lengths = {10, 15}
    DefaultLen = 10
    MaxAhead = 2
    MaxAsn = 4
    MaxDeterminations = 2
    INPUT_RING = 1
SPECIFICATION Spec
CHECK_DEADLOCK FALSE
INVARIANTS
    TypeOK
PROPERTIES
    CoordinatorRapidEbEnds
