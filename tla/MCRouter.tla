----------------------------- MODULE MCRouter -----------------------------
(* Instances of Router for TLC: webs of a left, a middle and a right star  *)
(* and the machine's own, and a star that a registry's record still names. *)
EXTENDS Router

CONSTANTS left, middle, right, machine, gone, ping, pong, other, extra

MCStars == {left, middle, right, machine, gone}
MCWaves == {ping, pong, other, extra}

Three == DefaultWeb({left, middle, right, machine}, middle, machine)
Two == DefaultWeb({left, middle, machine}, middle, machine)

\* Ways, from the one star to the other, of a ping to `goal`, its pong, and two more waves.
Scene(web, forwarders, goal, way3, way4) ==
    LET way == [w \in MCWaves |-> CASE w = ping -> <<left, goal>> [] w = pong -> <<right, left>>
                                    [] w = other -> way3 [] w = extra -> way4]
    IN  [adjacents |-> web, forwarders |-> forwarders,
         from |-> [w \in MCWaves |-> way[w][1]], to |-> [w \in MCWaves |-> way[w][2]],
         cause |-> [w \in MCWaves |-> IF w = pong THEN ping ELSE Nothing]]

\* The default template, central, nexus and super of it, in which a ping is answered beside a
\* ripple, a command and more waves; a web whose middle star does not forward; stale locations,
\* from stars that have only each other to forward, and from one that has two ways to go on.
MCScenes ==
    {Scene(Three, {middle, right}, right, <<right, Everyone>>, <<right, left>>),
     Scene(Three, {middle, right}, right, <<middle, left>>, <<machine, left>>),
     Scene(Three, {middle, right}, right, <<right, Global>>, <<right, left>>),
     Scene(Three, {left, right}, right, <<middle, right>>, <<left, left>>),
     Scene(Two, {left, middle}, gone, <<middle, left>>, <<middle, gone>>),
     Scene(Three, {left, middle, right}, gone, <<right, left>>, <<middle, gone>>)}
=============================================================================
