---------------------------- MODULE MCHyperlane ----------------------------
(* An instance of Hyperlane for TLC: both lanes of a hyperway, the inbound  *)
(* one with the From and Agent transforms.                                 *)
EXTENDS Hyperlane

CONSTANTS w1, w2, w3, x1, x2

MCWaves == {w1, w2, w3}
MCTwoWaves == {w1, w2}
MCExts == {x1, x2}
MCInboundFilters == <<"From", "Agent">>
=============================================================================
