---------------------------- MODULE MCExchanger ----------------------------
(* An instance of Exchanger for TLC: one wave of each kind, with more       *)
(* reflections than it needs.  What the exchanger keeps is keyed by wave id, *)
(* so a ripple is put beside a ping and a signal, never beside another.     *)
EXTENDS Exchanger

CONSTANTS ping, ripple, survey, signal, r1, r2, r3, r4, r5, r6, r7, r8

MCWaves == {ping, ripple, survey, signal}
MCKinds == [w \in MCWaves |->
    CASE w = ping -> "Single" [] w = ripple -> "Count" [] w = survey -> "Timer"
      [] OTHER -> "None"]
MCCount == [w \in MCWaves |-> 2]
MCReplies == {r1, r2, r3, r4, r5, r6, r7, r8}
MCOf == [r \in MCReplies |->
    CASE r \in {r1, r2} -> ping [] r \in {r3, r4, r5} -> ripple [] OTHER -> survey]
MCSessions == {{ping, ripple, signal}, {ping, survey}}
=============================================================================
