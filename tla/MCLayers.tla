----------------------------- MODULE MCLayers -----------------------------
(* An instance of Layers for TLC: three particles beside the star's own.   *)
EXTENDS Layers, TLC

CONSTANTS star, app, mech, file, ask1, ask2, ask3, ask4, ask5

MCPoints == {star, app, mech, file}

MCAsker == (ask1 :> app) @@ (ask2 :> file) @@ (ask3 :> app) @@ (ask4 :> mech)
               @@ (ask5 :> mech)

\* To a particle whose pipeline asks another one, to the one that is asked, to the asker's own
\* shell, to the shell of somebody else, and to a Field.
MCAsked ==
    (ask1 :> Surface(mech, Core)) @@ (ask2 :> Surface(app, Core))
        @@ (ask3 :> Surface(app, Shell)) @@ (ask4 :> Surface(app, Shell))
        @@ (ask5 :> Surface(file, Field))

Standard == {Field, Shell, Core}
MCPlan == [p \in MCPoints |-> IF p = mech THEN Field..Core ELSE Standard]

MCBind == [p \in MCPoints |->
    CASE p = mech -> <<"core", file, "reflect">>
      [] p = file -> <<"core", "reflect">>
      [] p = app -> <<"core", "reflect">>
      [] OTHER -> << >>]
=============================================================================
