---------------------------- MODULE MCHyperClient ----------------------------
(***************************************************************************)
(* The situations of a HyperClient: an accepting peer and connections that *)
(* fail and are reset; and connections that may be refused, again and      *)
(* again, with users who reset, close and leave.                           *)
(***************************************************************************)
EXTENDS HyperClient

Linked ==
    [sends |-> 2, receives |-> 1, firsts |-> {"greet"},
     exchanging |-> FALSE, endless |-> FALSE, may |-> {"reset"}]
Ended ==
    [sends |-> 0, receives |-> 0, firsts |-> {"greet", "refuse", "later"},
     exchanging |-> TRUE, endless |-> TRUE, may |-> {"close", "reset", "leave"}]

MCSituations == {Linked, Ended}
=============================================================================
