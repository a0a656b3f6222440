----------------------------- MODULE MCTcpMux -----------------------------
(***************************************************************************)
(* An instance of TcpMux for TLC: the client sends its knock and two       *)
(* waves, the server two, and a direction of the wire holds one frame, so  *)
(* that both muxers may wait for room at the same time.                    *)
(***************************************************************************)
EXTENDS TcpMux

MCMaxWaves == [client |-> 3, server |-> 2]
=============================================================================
