SPECIFICATION Spec
CONSTANTS
    TCP_MSS = 2
    TCP_WND = 4
    TCP_SND_BUF = 4
    TCP_MAXRTX = 2
    TCP_SYNMAXRTX = 1
    SEQ = 32
    ISS <- MCISS
    SCENES <- SplitOnly
INVARIANT
    FinMigrates
CHECK_DEADLOCK FALSE
