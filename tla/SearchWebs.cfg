\* a star of a machine, the same with fewer ways, and three stars in a line
SPECIFICATION FairSpec
CONSTANTS
    m = m
    n = n
    f = f
    c = c
    Stars <- MCStars
    Webs <- MCWebs
    MaxRounds = 2
    MaxFaults = 1
INVARIANTS WrangledMeansAll NoCircles
CHECK_DEADLOCK FALSE
PROPERTY WranglesAtLast
