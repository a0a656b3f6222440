SPECIFICATION FairSpec
CONSTANTS
    central = central
    super = super
    a = a
    b = b
    root = root
    space = space
    base = base
    mechtron = mechtron
    None = None
    t = t
    u = u
    Stars <- MCStars
    Points <- MCPoints
    Kinds <- MCKinds
    Tasks <- MCTasks
    Root <- root
    Parent <- MCParent
    Depth <- MCDepth
    KindOf <- MCKindOf
    Drives <- MCDrives
    Homes <- MCHomes
    Lists <- MCLists
    Finds <- MCFinds
    Situations <- MCSituations
    MaxLost = 1
INVARIANTS HomesServe UnwrapsParent FairTurns
PROPERTY AllEnds
CHECK_DEADLOCK FALSE
