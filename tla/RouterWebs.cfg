\* webs of three stars and the machine's, with and without a way
SPECIFICATION FairSpec
CONSTANTS
    left = left
    middle = middle
    right = right
    machine = machine
    gone = gone
    ping = ping
    pong = pong
    other = other
    extra = extra
    Nothing = Nothing
    Everyone = Everyone
    Global = Global
    Stars <- MCStars
    Waves <- MCWaves
    Scenes <- MCScenes
    CallCap = 2
    OutCap = 1
    MaxHops = 2
    MaxFaults = 1
INVARIANTS Accounted HubDelivers
PROPERTY AllArrive
CHECK_DEADLOCK FALSE
