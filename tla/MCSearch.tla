------------------------------ MODULE MCSearch ------------------------------
(***************************************************************************)
(* Webs for Search: m is the Machine star and n the Nexus, both adjacent to *)
(* everybody, f a star that forwards and can be wrangled, c the Central.   *)
(***************************************************************************)
EXTENDS Search

CONSTANTS m, n, f, c

MCStars == {m, n, f, c}
Template == [s \in MCStars |-> IF s \in {m, n} THEN MCStars \ {s} ELSE {m, n}]
Web(root, adjacents) ==
    [root |-> root, adjacents |-> adjacents, forwarders |-> {n, f}, hosts |-> {f, c}]
Line == [s \in MCStars |-> CASE s = m -> {n} [] s = n -> {m, f} [] s = f -> {n} [] OTHER -> {}]
Triangle == [s \in MCStars |-> IF s = c THEN {} ELSE {m, n, f} \ {s}]

MCWebs == {Web(c, Template), Web(f, Template), Web(m, Triangle), Web(m, Line)}
=============================================================================
