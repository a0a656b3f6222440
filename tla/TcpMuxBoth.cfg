\* two programs of the same or of different versions, a connection that may fail
SPECIFICATION FairSpec
CONSTANTS
    Versions = {1, 2}
    MaxWaves <- MCMaxWaves
    WireCap = 2
    ChanCap = 1
INVARIANTS HeardFromTheFirst
PROPERTIES Flows EndsTogether
CHECK_DEADLOCK FALSE
