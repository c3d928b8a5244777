SPECIFICATION EnableSpec
CONSTANTS
    VFIFO_SIZE = 4
    IO_DQS_EN_PHASE_MAX = 3
    IO_DQS_EN_DELAY_MAX = 6
    Ptap = 5
    Dtap = 2
    Widths <- MCWidths
INVARIANTS
    TypeOK
    GateCentred
    WideWindowFound
PROPERTIES
    EnableReturns
