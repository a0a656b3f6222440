\* both lanes of a hyperway: transforms and one faithful listener on the inbound,
\* greeted listeners that may be dropped on the outbound
SPECIFICATION FairSpec
CONSTANTS
    w1 = w1
    w2 = w2
    w3 = w3
    x1 = x1
    x2 = x2
    None = None
    InitWave = InitWave
    Waves <- MCWaves
    Exts <- MCExts
    Greeted <- MCExts
    Filters <- MCInboundFilters
    Transforms = {"From", "Agent"}
    CallCap = 3
    QueueCap = 1
    ExtCap = 2
INVARIANTS NoIdleBacklog Conserved HandsOver
PROPERTY EventuallyDelivered
CHECK_DEADLOCK FALSE
