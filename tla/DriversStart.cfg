\* three drivers, the second of which may fail to start
SPECIFICATION DriversFairSpec
CONSTANTS
    dd = dd
    sd = sd
    bd = bd
    None = None
    StarDriver = sd
    Factories <- MCFactories
    FailingDrivers <- MCMayFail
INVARIANTS ReadyMeansAll UnwrapsFind
PROPERTY StarBoots
CHECK_DEADLOCK FALSE
