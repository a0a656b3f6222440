\* waves over connections that fail, and clients that are refused, closed and left
SPECIFICATION ClientFairSpec
CONSTANTS
    Outgoing = 2
    Incoming = 1
    MaxLinks = 3
    StatusRoom = 1
    ClientRoom = 2
    Situations <- MCSituations
INVARIANTS InOrderOnce
PROPERTIES ComesBack
CHECK_DEADLOCK FALSE
