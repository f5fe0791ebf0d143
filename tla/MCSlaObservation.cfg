CONSTANTS
    Kinds = {"bc"}
    FrameLens = {5, 20, 60}
    RADIO_PHY_OVERHEAD = 3
    SLA_SHIFT_BITS = 4
    SLA_FRAME_LEN_QUANTIZED_LEVELS = 5
    SLA_OBSERVATION_WINDOWS = 2
    SLA_K_TH_PERCENTILE = 50
    SLA_MAX_FRAME_LEN = 80
    MaxFrames = 3
    Hops = {1, 3}
    DaoHops = {0, 2}
    MaxHopRecords = 2
    SLA_INITIAL_HOP_DISTANCE = 2
    SLA_ZERO_HOP_DISTANCE_OFFSET = 1
    SLA_TRIGGERING_ASN_INCREMENT = 1
    ORCHESTRA_CONF_EBSF_PERIOD = 3
    SLA_TRIGGERING_ASN_MULTIPLIER = 1
    CS_SIZE = 2
SPECIFICATION Spec
PROPERTIES
    ImplementsSlaDetermination
