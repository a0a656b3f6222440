---------------------------- MODULE MCInterchange ----------------------------
(***************************************************************************)
(* A star's interchange, one neighbour of which connects twice while       *)
(* another one is away, and the control driver's, with two entrants.       *)
(***************************************************************************)
EXTENDS Interchange

CONSTANTS f1, f2, m1, m2, e1, e2

MCFixed == {f1, f2}
MCMounters == {m1, m2}
MCAt == [s \in MCMounters |-> f1]
MCEntrants == {e1, e2}
=============================================================================
