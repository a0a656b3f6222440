\* a star whose neighbour connects twice; a control driver with two entrants
SPECIFICATION FairSpec
CONSTANTS
    Hub = Hub
    None = None
    f1 = f1
    f2 = f2
    m1 = m1
    m2 = m2
    e1 = e1
    e2 = e2
    Fixed <- MCFixed
    Mounters <- MCMounters
    At <- MCAt
    Entrants <- MCEntrants
    HubWaves = 2
    OwnWaves = 1
    CallCap = 2
    LaneCap = 2
INVARIANTS MountFinds OnlyThroughHub InOrderPerSender Accounted
PROPERTIES LeaversRemoved ReachesHub
CHECK_DEADLOCK FALSE
