----------------------------- MODULE MCMachine -----------------------------
(***************************************************************************)
(* Instances of Machine for TLC.  Of all the machines of Init, MachineBoth *)
(* looks at two: one that starts two stars and is not stopped; and one     *)
(* with a single star that asks for an endpoint, a caller who awaits the   *)
(* termination, and terminate at any moment.                               *)
(***************************************************************************)
EXTENDS Machine

CONSTANTS s1, s2, c1

MCStars == {s1, s2}
MCFirst == {s1}
MCSecond == {s2}
MCOne == {c1}
MCNone == {}

Starting ==
    Members = Stars /\ asked = "never" /\ connect[s1] = "done" /\ sub[c1] = "closed"
Stopping ==
    Members = {s1} /\ asked = "no" /\ connect[s1] = "start" /\ sub[c1] = "none"
MCInit == Init /\ (Starting \/ Stopping)
MCSpec == MCInit /\ [][Next]_vars
MCFairSpec == MCSpec /\ Fairness
=============================================================================
