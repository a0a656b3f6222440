\* two stars that start, and one star whose machine may be stopped at any moment
SPECIFICATION MCFairSpec
CONSTANTS
    s1 = s1
    s2 = s2
    c1 = c1
    Stars <- MCStars
    Connectors <- MCFirst
    Failing <- MCSecond
    Callers <- MCOne
    MayStop = TRUE
    CallCap = 4
    StatusCap = 1
INVARIANT ReadyIsHonest
PROPERTIES StatusSettles AllServe AwaitTerminationEnds
CHECK_DEADLOCK FALSE
