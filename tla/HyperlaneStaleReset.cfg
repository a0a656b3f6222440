\* the outbound lane when a client reconnects; the channel never fills
SPECIFICATION FairSpec
CONSTANTS
    w1 = w1
    w2 = w2
    w3 = w3
    x1 = x1
    x2 = x2
    None = None
    InitWave = InitWave
    Waves <- MCTwoWaves
    Exts <- MCExts
    Greeted <- MCExts
    Filters <- MCInboundFilters
    Transforms = {"From", "Agent"}
    CallCap = 9
    QueueCap = 2
    ExtCap = 2
PROPERTY DrainsToListener
CHECK_DEADLOCK FALSE
