SPECIFICATION LayersSpec
CONSTANTS
    star = star
    app = app
    mech = mech
    file = file
    ask1 = ask1
    ask2 = ask2
    ask3 = ask3
    ask4 = ask4
    ask5 = ask5
    Asks = {ask1, ask2, ask3, ask4, ask5}
    Together = {{ask1, ask3}, {ask2, ask4}, {ask5}}
    Points <- MCPoints
    Star = star
    Asker <- MCAsker
    Asked <- MCAsked
    Plan <- MCPlan
    Bind <- MCBind
    Configured = {mech}
INVARIANTS AnsweredAsAsked ThroughField
PROPERTIES AllAnswered
CHECK_DEADLOCK FALSE
