-------------------------- MODULE InterchangeProofs --------------------------
(* Theorems about Interchange for any surfaces, sessions and capacities and *)
(* any number of waves.                                                     *)
EXTENDS Interchange, SequenceTheorems, TLAPS

\* Where a session is: a surface, and the hub's surface for the hub alone.
LEMMA RemoteFacts ==
    ASSUME NEW s \in Sessions
    PROVE  Remote(s) \in Surfaces /\ (Remote(s) = Hub <=> s = Hub)
  BY InterchangeAssumption DEF Sessions, Surfaces, Remote

\* The wave a session makes, and what a wave is.
LEMMA WaveFacts ==
    /\ \A s \in Sessions, n \in 1..MaxWave, to \in Surfaces :
          Wave(s, n, to) \in Waves /\ Wave(s, n, to).by = s /\ Wave(s, n, to).to = to
    /\ \A w \in Waves : w.by \in Sessions /\ w.to \in Surfaces
  BY DEF Waves, Wave

\* The number of the wave a session sends next.
LEMMA NextWave ==
    ASSUME NEW s \in Sessions, NEW k \in 0..MaxWave,
           k < (IF s = Hub THEN HubWaves ELSE OwnWaves)
    PROVE  k + 1 \in 1..MaxWave
  BY InterchangeAssumption DEF MaxWave

\* A call of a given kind carries an argument of that kind.
LEMMA CallKinds ==
    ASSUME NEW c \in Calls
    PROVE  /\ c.op = "Wave" => c.arg \in Waves
           /\ c.op = "Internal" => c.arg \in Entrants
           /\ c.op = "Remove" => c.arg \in Entrants
           /\ c.op = "Mount" => c.arg \in Sessions \ {Hub}
  BY DEF Calls, WaveCall, Internal, Remove, Mount

\* What a call with its argument is a call of.
LEMMA CallFacts ==
    /\ \A w \in Waves : WaveCall(w) \in Calls /\ WaveCall(w).op = "Wave" /\ WaveCall(w).arg = w
    /\ \A x \in Entrants : Internal(x) \in Calls /\ Internal(x).op = "Internal" /\ Internal(x).arg = x
    /\ \A x \in Entrants : Remove(x) \in Calls /\ Remove(x).op = "Remove" /\ Remove(x).arg = x
    /\ \A s \in Sessions \ {Hub} : Mount(s) \in Calls /\ Mount(s).op = "Mount" /\ Mount(s).arg = s
  BY DEF Calls, WaveCall, Internal, Remove, Mount

\* Taking the first element of a sequence, and adding one.
LEMMA QueueFacts ==
    ASSUME NEW S, NEW q \in Seq(S)
    PROVE  /\ Len(q) \in Nat
           /\ q # <<>> => /\ Head(q) \in S /\ Tail(q) \in Seq(S)
                          /\ Len(Tail(q)) = Len(q) - 1
           /\ \A e \in S : Append(q, e) \in Seq(S) /\ Len(Append(q, e)) = Len(q) + 1
  OBVIOUS

\* What a lane that lost its listener does to its queue: no wave is added or dropped.
LEMMA TurnFacts ==
    ASSUME NEW S, NEW q \in Seq(S), NEW k \in 1..Len(q)
    PROVE  /\ SubSeq(q, k + 1, Len(q)) \o SubSeq(q, 1, k) \in Seq(S)
           /\ Len(SubSeq(q, k + 1, Len(q)) \o SubSeq(q, 1, k)) = Len(q)
  <1>1. Len(q) \in Nat
    OBVIOUS
  <1>2. SubSeq(q, 1, k) \in Seq(S) /\ Len(SubSeq(q, 1, k)) = k
    BY <1>1
  <1>3. SubSeq(q, k + 1, Len(q)) \in Seq(S) /\ Len(SubSeq(q, k + 1, Len(q))) = Len(q) - k
    BY <1>1
  <1> QED
    BY <1>1, <1>2, <1>3

\* An interchange starts well typed.
LEMMA InitTypeOK == Init => TypeOK
  BY InterchangeAssumption
     DEF Init, TypeOK, Surfaces, Sessions, Phases, MaxWave

\* Every step of the interchange, its lanes and its sessions keeps the types.
LEMMA NextTypeOK == TypeOK /\ [Next]_vars => TypeOK'
  <1> SUFFICES ASSUME TypeOK, [Next]_vars PROVE TypeOK'
    OBVIOUS
  <1> USE InterchangeAssumption
  <1>hub. Hub \in Sessions /\ Hub \in Surfaces /\ Entrants \subseteq Sessions
          /\ Entrants \subseteq Surfaces
    BY DEF Sessions, Surfaces
  <1>recv. ASSUME NEW op, Recv(op)
           PROVE  /\ calls' \in Seq(Calls) /\ Len(calls') <= CallCap
                  /\ First \in Calls /\ First.op = op
    BY <1>recv, QueueFacts DEF TypeOK, Recv, First
  <1>post. ASSUME NEW c \in Calls, HasRoom, calls' = Append(calls, c)
           PROVE  calls' \in Seq(Calls) /\ Len(calls') <= CallCap
    BY <1>post, QueueFacts DEF TypeOK, HasRoom
  <1>1. CASE RecvInternal
    <2>1. First.arg \in Entrants
      BY <1>1, <1>recv, CallKinds DEF RecvInternal
    <2> QED
      BY <1>1, <2>1, <1>recv, <1>hub DEF TypeOK, RecvInternal, laneVars, waveVars
  <1>2. CASE RecvRemove
    BY <1>2, <1>recv DEF TypeOK, RecvRemove, laneVars, waveVars
  <1>3. CASE RecvWave
    <2>1. First.arg \in Waves /\ First.arg.to \in Surfaces
      BY <1>3, <1>recv, CallKinds, WaveFacts DEF RecvWave
    <2> DEFINE w == First.arg
               lane == outbound[w.to]
    <2>2. lane \in Seq(Waves) /\ Len(lane) <= LaneCap /\ Len(lane) \in Nat
      BY <2>1 DEF TypeOK
    <2>3. \/ UNCHANGED outbound
          \/ Len(lane) < LaneCap /\ outbound' = [outbound EXCEPT ![w.to] = Append(@, w)]
          \/ Len(lane) >= LaneCap /\ outbound' = [outbound EXCEPT ![w.to] = Append(Tail(@), w)]
      BY <1>3 DEF RecvWave
    <2>4. Len(lane) < LaneCap => Append(lane, w) \in Seq(Waves) /\ Len(Append(lane, w)) <= LaneCap
      BY <2>1, <2>2, QueueFacts
    <2>5. Len(lane) >= LaneCap =>
            /\ Head(lane) \in Waves
            /\ Append(Tail(lane), w) \in Seq(Waves) /\ Len(Append(Tail(lane), w)) <= LaneCap
      BY <2>1, <2>2, QueueFacts
    <2>6. /\ outbound' \in [Surfaces -> Seq(Waves)]
          /\ \A x \in Surfaces : Len(outbound'[x]) <= LaneCap
      <3>1. /\ outbound \in [Surfaces -> Seq(Waves)]
            /\ \A x \in Surfaces : Len(outbound[x]) <= LaneCap
        BY DEF TypeOK
      <3>2. CASE UNCHANGED outbound
        BY <3>1, <3>2
      <3>3. CASE Len(lane) < LaneCap /\ outbound' = [outbound EXCEPT ![w.to] = Append(@, w)]
        BY <2>1, <2>4, <3>1, <3>3
      <3>4. CASE Len(lane) >= LaneCap /\ outbound' = [outbound EXCEPT ![w.to] = Append(Tail(@), w)]
        BY <2>1, <2>5, <3>1, <3>4
      <3> QED
        BY <2>3, <3>2, <3>3, <3>4
    <2>7. lost' \subseteq Waves
      <3>1. \/ lost' = lost
            \/ Len(lane) >= LaneCap /\ lost' = lost \cup {Head(lane)}
            \/ lost' = lost \cup {w}
        BY <1>3 DEF RecvWave
      <3> QED
        BY <3>1, <2>1, <2>5 DEF TypeOK
    <2>8. UNCHANGED <<kind, hyperways, forwarded, inbound, listener, phase, sent, got>>
      BY <1>3 DEF RecvWave, wayVars
    <2> QED
      BY <1>3, <1>recv, <2>6, <2>7, <2>8 DEF TypeOK, RecvWave
  <1>4. CASE RecvMount
    <2>1. First.arg \in Sessions \ {Hub} /\ Remote(First.arg) \in Surfaces
      BY <1>4, <1>recv, CallKinds, RemoteFacts DEF RecvMount
    <2>2. phase' \in [Sessions -> Phases]
      <3>1. \/ phase' = phase
            \/ phase' = [phase EXCEPT ![First.arg] = "in"]
            \/ phase' = [phase EXCEPT ![First.arg] = "refused"]
        BY <1>4 DEF RecvMount
      <3> QED
        BY <3>1 DEF TypeOK, Phases
    <2>3. listener' \in [Surfaces -> Sessions \cup {None}]
      BY <1>4, <2>1 DEF TypeOK, RecvMount
    <2> QED
      BY <1>4, <1>recv, <2>2, <2>3 DEF TypeOK, RecvMount, wayVars, waveVars
  <1>5. ASSUME NEW x \in Surfaces, Forward(x) PROVE TypeOK'
    <2>1. inbound[x] \in Seq(Waves) /\ inbound[x] # <<>> /\ Len(inbound[x]) <= LaneCap
      BY <1>5 DEF TypeOK, Forward
    <2>2. WaveCall(Head(inbound[x])) \in Calls
      BY <2>1, QueueFacts, CallFacts
    <2>3. Tail(inbound[x]) \in Seq(Waves) /\ Len(Tail(inbound[x])) <= LaneCap
      BY <2>1, QueueFacts
    <2>4. /\ inbound' \in [Surfaces -> Seq(Waves)]
          /\ \A y \in Surfaces : Len(inbound'[y]) <= LaneCap
      BY <1>5, <2>3 DEF TypeOK, Forward
    <2>5. calls' \in Seq(Calls) /\ Len(calls') <= CallCap
      BY <1>5, <1>post, <2>2 DEF Forward
    <2> QED
      BY <1>5, <2>4, <2>5 DEF TypeOK, Forward, wayVars, waveVars
  <1>6. ASSUME NEW x \in Surfaces, ForwardTimesOut(x) PROVE TypeOK'
    <2>1. inbound[x] \in Seq(Waves) /\ inbound[x] # <<>> /\ Len(inbound[x]) <= LaneCap
      BY <1>6 DEF TypeOK, ForwardTimesOut
    <2>2. Tail(inbound[x]) \in Seq(Waves) /\ Len(Tail(inbound[x])) <= LaneCap
          /\ Head(inbound[x]) \in Waves
      BY <2>1, QueueFacts
    <2>3. /\ inbound' \in [Surfaces -> Seq(Waves)]
          /\ \A y \in Surfaces : Len(inbound'[y]) <= LaneCap
      BY <1>6, <2>2 DEF TypeOK, ForwardTimesOut
    <2> QED
      BY <1>6, <2>2, <2>3 DEF TypeOK, ForwardTimesOut, wayVars
  <1>7. ASSUME NEW x \in Surfaces, Deliver(x) PROVE TypeOK'
    <2>1. outbound[x] \in Seq(Waves) /\ outbound[x] # <<>> /\ Len(outbound[x]) <= LaneCap
          /\ listener[x] \in Sessions
      BY <1>7 DEF TypeOK, Deliver, Listens
    <2>2. Tail(outbound[x]) \in Seq(Waves) /\ Len(Tail(outbound[x])) <= LaneCap
          /\ Head(outbound[x]) \in Waves
      BY <2>1, QueueFacts
    <2>3. /\ outbound' \in [Surfaces -> Seq(Waves)]
          /\ \A y \in Surfaces : Len(outbound'[y]) <= LaneCap
      BY <1>7, <2>2 DEF TypeOK, Deliver
    <2>4. Append(got[listener[x]], Head(outbound[x])) \in Seq(Waves)
      BY <2>1, <2>2, QueueFacts DEF TypeOK
    <2>5. got' \in [Sessions -> Seq(Waves)]
      BY <1>7, <2>1, <2>4 DEF TypeOK, Deliver
    <2> QED
      BY <1>7, <2>3, <2>5 DEF TypeOK, Deliver, wayVars
  <1>8. ASSUME NEW x \in Surfaces, LoseListener(x) PROVE TypeOK'
    <2>1. PICK k \in 1..Len(outbound[x]) :
            outbound' = [outbound EXCEPT ![x] = SubSeq(@, k + 1, Len(@)) \o SubSeq(@, 1, k)]
      BY <1>8 DEF LoseListener
    <2>2. outbound[x] \in Seq(Waves) /\ Len(outbound[x]) <= LaneCap
      BY DEF TypeOK
    <2> DEFINE turned == SubSeq(outbound[x], k + 1, Len(outbound[x])) \o SubSeq(outbound[x], 1, k)
    <2>3. turned \in Seq(Waves) /\ Len(turned) <= LaneCap
      BY <2>2, TurnFacts
    <2>4. outbound' = [outbound EXCEPT ![x] = turned]
      BY <2>1
    <2> HIDE DEF turned
    <2>5. /\ outbound' \in [Surfaces -> Seq(Waves)]
          /\ \A y \in Surfaces : Len(outbound'[y]) <= LaneCap
      BY <2>3, <2>4 DEF TypeOK
    <2> QED
      BY <1>8, <2>5 DEF TypeOK, LoseListener, wayVars, waveVars
  <1>9. ASSUME NEW s \in Sessions, AskMount(s), s # Hub PROVE TypeOK'
    <2>1. calls' \in Seq(Calls) /\ Len(calls') <= CallCap
      BY <1>9, <1>post, CallFacts DEF AskMount
    <2> QED
      BY <1>9, <2>1 DEF TypeOK, AskMount, wayVars, laneVars, waveVars, Phases
  <1>10. ASSUME NEW s \in Sessions, GiveUp(s) \/ DropEndpoint(s) PROVE TypeOK'
    BY <1>10 DEF TypeOK, GiveUp, DropEndpoint, wayVars, laneVars, waveVars, Phases
  <1>11. ASSUME NEW s \in Entrants, PostRemove(s) PROVE TypeOK'
    <2>1. calls' \in Seq(Calls) /\ Len(calls') <= CallCap
      BY <1>11, <1>post, CallFacts DEF PostRemove
    <2> QED
      BY <1>11, <2>1 DEF TypeOK, PostRemove, wayVars, laneVars, waveVars, Phases
  <1>12. ASSUME NEW s \in Entrants, Add(s) PROVE TypeOK'
    <2>1. calls' \in Seq(Calls) /\ Len(calls') <= CallCap
      BY <1>12, <1>post, CallFacts DEF Add
    <2> QED
      BY <1>12, <2>1 DEF TypeOK, Add, wayVars, laneVars, waveVars, Phases
  <1>13. ASSUME NEW s \in Sessions, NEW to \in Surfaces, Send(s, to) PROVE TypeOK'
    <2>1. sent[s] \in 0..MaxWave /\ sent[s] + 1 \in 1..MaxWave
      BY <1>13, NextWave DEF TypeOK, Send
    <2>2. sent' \in [Sessions -> 0..MaxWave] /\ sent'[s] = sent[s] + 1
      BY <1>13, <2>1 DEF TypeOK, Send
    <2>3. Stamp(s, sent'[s], to) \in Waves
      BY <2>1, <2>2, <1>hub, WaveFacts DEF Stamp
    <2>4. Remote(s) \in Surfaces
      BY RemoteFacts
    <2>5. Append(inbound[Remote(s)], Stamp(s, sent'[s], to)) \in Seq(Waves)
          /\ Len(Append(inbound[Remote(s)], Stamp(s, sent'[s], to))) <= LaneCap
      <3>1. Len(inbound[Remote(s)]) < LaneCap /\ inbound[Remote(s)] \in Seq(Waves)
        BY <1>13, <2>4 DEF TypeOK, Send
      <3> QED
        BY <3>1, <2>3, QueueFacts
    <2>6. /\ inbound' \in [Surfaces -> Seq(Waves)]
          /\ \A x \in Surfaces : Len(inbound'[x]) <= LaneCap
      BY <1>13, <2>4, <2>5 DEF TypeOK, Send
    <2> QED
      BY <1>13, <2>2, <2>6 DEF TypeOK, Send, wayVars
  <1>14. ASSUME NEW to \in Surfaces, Route(to) PROVE TypeOK'
    <2>1. sent[Hub] \in 0..MaxWave /\ sent[Hub] + 1 \in 1..MaxWave
      BY <1>14, <1>hub, NextWave DEF TypeOK, Route
    <2>2. sent' \in [Sessions -> 0..MaxWave] /\ sent'[Hub] = sent[Hub] + 1
      BY <1>14, <1>hub, <2>1 DEF TypeOK, Route
    <2>3. WaveCall(Wave(Hub, sent'[Hub], to)) \in Calls
      BY <2>1, <2>2, <1>hub, WaveFacts, CallFacts
    <2>4. calls' \in Seq(Calls) /\ Len(calls') <= CallCap
      BY <1>14, <1>post, <2>3 DEF Route
    <2> QED
      BY <1>14, <2>2, <2>4 DEF TypeOK, Route, wayVars, laneVars
  <1>15. CASE UNCHANGED vars
    BY <1>15 DEF TypeOK, vars
  <1> QED
    BY <1>1, <1>2, <1>3, <1>4, <1>5, <1>6, <1>7, <1>8, <1>9, <1>10, <1>11, <1>12, <1>13,
       <1>14, <1>15 DEF Next, Task

\* An interchange's channel and lanes stay within their capacities, whoever enters,
\* leaves, sends and gives up when.
THEOREM TypeCorrect == Spec => []TypeOK
  BY InitTypeOK, NextTypeOK, PTL DEF Spec

-----------------------------------------------------------------------------
(* Remotes do not hear each other.  The inbound transforms leave no wave    *)
(* of anybody but the hub that is addressed to somebody but the hub; so     *)
(* what is in the lane to somebody else is the hub's, and only the hub      *)
(* listens on its own lane.                                                 *)

ThroughHub == {w \in Waves : w.by # Hub => w.to = Hub}
ThroughCalls == {c \in Calls : c.op = "Wave" => c.arg \in ThroughHub}
Addressed(x) == {w \in ThroughHub : w.to = x}
FromHub == {w \in Waves : w.by = Hub}

HubBetween ==
    /\ calls \in Seq(ThroughCalls)
    /\ \A x \in Surfaces : inbound[x] \in Seq(ThroughHub) /\ outbound[x] \in Seq(Addressed(x))
    /\ \A x \in Surfaces : listener[x] # None => Remote(listener[x]) = x
    /\ \A s \in Sessions \ {Hub} : got[s] \in Seq(FromHub)

\* The calls of the gates carry no waves.
LEMMA GateCalls ==
    /\ \A w \in ThroughHub : WaveCall(w) \in ThroughCalls
    /\ \A x \in Entrants : Internal(x) \in ThroughCalls /\ Remove(x) \in ThroughCalls
    /\ \A s \in Sessions \ {Hub} : Mount(s) \in ThroughCalls
  BY CallFacts DEF ThroughCalls, ThroughHub

LEMMA InitHubBetween == Init => HubBetween
  <1> SUFFICES ASSUME Init PROVE HubBetween
    OBVIOUS
  <1>1. Remote(Hub) = Hub
    BY RemoteFacts DEF Sessions
  <1>2. \A x \in Surfaces : listener[x] # None => Remote(listener[x]) = x
    BY <1>1 DEF Init
  <1> QED
    BY <1>2 DEF Init, HubBetween

LEMMA NextHubBetween == TypeOK /\ HubBetween /\ [Next]_vars => HubBetween'
  <1> SUFFICES ASSUME TypeOK, HubBetween, [Next]_vars PROVE HubBetween'
    OBVIOUS
  <1>types. /\ inbound \in [Surfaces -> Seq(Waves)] /\ outbound \in [Surfaces -> Seq(Waves)]
            /\ listener \in [Surfaces -> Sessions \cup {None}]
            /\ got \in [Sessions -> Seq(Waves)] /\ sent \in [Sessions -> 0..MaxWave]
    BY DEF TypeOK
  <1>hub. Hub \in Sessions /\ Hub \in Surfaces
    BY DEF Sessions, Surfaces
  <1>recv. ASSUME NEW op, Recv(op)
           PROVE  calls' \in Seq(ThroughCalls) /\ First \in ThroughCalls /\ First.op = op
    BY <1>recv, QueueFacts DEF HubBetween, Recv, First
  <1>post. ASSUME NEW c \in ThroughCalls, calls' = Append(calls, c)
           PROVE  calls' \in Seq(ThroughCalls)
    BY <1>post, QueueFacts DEF HubBetween
  <1>1. CASE RecvInternal
    BY <1>1, <1>recv DEF HubBetween, RecvInternal, laneVars, waveVars
  <1>2. CASE RecvRemove
    BY <1>2, <1>recv DEF HubBetween, RecvRemove, laneVars, waveVars
  <1>3. CASE RecvWave
    <2> DEFINE w == First.arg
    <2>1. w \in ThroughHub /\ w.to \in Surfaces
      BY <1>3, <1>recv, WaveFacts DEF RecvWave, ThroughCalls, ThroughHub
    <2>2. outbound[w.to] \in Seq(Addressed(w.to)) /\ w \in Addressed(w.to)
      BY <2>1 DEF HubBetween, Addressed
    <2>3. \/ UNCHANGED outbound
          \/ outbound' = [outbound EXCEPT ![w.to] = Append(@, w)]
          \/ /\ Len(outbound[w.to]) >= LaneCap
             /\ outbound' = [outbound EXCEPT ![w.to] = Append(Tail(@), w)]
      BY <1>3 DEF RecvWave
    <2>4. Append(outbound[w.to], w) \in Seq(Addressed(w.to))
      BY <2>2, QueueFacts
    <2>5. Len(outbound[w.to]) >= LaneCap
            => Append(Tail(outbound[w.to]), w) \in Seq(Addressed(w.to))
      <3> SUFFICES ASSUME Len(outbound[w.to]) >= LaneCap
                   PROVE  Append(Tail(outbound[w.to]), w) \in Seq(Addressed(w.to))
        OBVIOUS
      <3>1. outbound[w.to] # <<>>
        BY InterchangeAssumption
      <3>2. Tail(outbound[w.to]) \in Seq(Addressed(w.to))
        BY <2>2, <3>1, QueueFacts
      <3> QED
        BY <2>2, <3>2, QueueFacts
    <2>6. \A x \in Surfaces : outbound'[x] \in Seq(Addressed(x))
      <3> HIDE DEF w
      <3>1. \A x \in Surfaces : outbound[x] \in Seq(Addressed(x))
        BY DEF HubBetween
      <3>2. CASE outbound' = [outbound EXCEPT ![w.to] = Append(@, w)]
        BY <1>types, <2>4, <3>1, <3>2
      <3>3. CASE /\ Len(outbound[w.to]) >= LaneCap
                 /\ outbound' = [outbound EXCEPT ![w.to] = Append(Tail(@), w)]
        BY <1>types, <2>5, <3>1, <3>3
      <3> QED
        BY <2>3, <3>1, <3>2, <3>3
    <2>7. UNCHANGED <<inbound, listener, got>>
      BY <1>3 DEF RecvWave
    <2> QED
      BY <1>3, <1>recv, <2>6, <2>7 DEF HubBetween, RecvWave
  <1>4. CASE RecvMount
    <2>1. First.arg \in Sessions \ {Hub}
      BY <1>4, <1>recv, CallKinds DEF RecvMount, ThroughCalls
    <2>2. \A x \in Surfaces : listener'[x] # None => Remote(listener'[x]) = x
      <3>1. listener' = listener \/ listener' = [listener EXCEPT ![Remote(First.arg)] = First.arg]
        BY <1>4 DEF RecvMount
      <3>2. \A x \in Surfaces : listener[x] # None => Remote(listener[x]) = x
        BY DEF HubBetween
      <3> QED
        <4>1. CASE listener' = listener
          BY <3>2, <4>1
        <4>2. CASE listener' = [listener EXCEPT ![Remote(First.arg)] = First.arg]
          <5> DEFINE m == First.arg
          <5>1. m \in Sessions /\ Remote(m) \in Surfaces
            BY <2>1, RemoteFacts
          <5> HIDE DEF m
          <5>2. listener' = [listener EXCEPT ![Remote(m)] = m]
            BY <4>2 DEF m
          <5> QED
            BY <3>2, <5>1, <5>2, <1>types
        <4> QED
          BY <3>1, <4>1, <4>2
    <2> QED
      BY <1>4, <1>recv, <2>2 DEF HubBetween, RecvMount, waveVars
  <1>5. ASSUME NEW x \in Surfaces, Forward(x) \/ ForwardTimesOut(x) PROVE HubBetween'
    <2>1. inbound[x] \in Seq(ThroughHub) /\ inbound[x] # <<>>
      BY <1>5 DEF HubBetween, Forward, ForwardTimesOut
    <2>2. Head(inbound[x]) \in ThroughHub /\ Tail(inbound[x]) \in Seq(ThroughHub)
      BY <2>1, QueueFacts
    <2>3. inbound' = [inbound EXCEPT ![x] = Tail(@)] /\ UNCHANGED <<outbound, listener, got>>
      BY <1>5 DEF Forward, ForwardTimesOut, waveVars
    <2>4. \A y \in Surfaces : inbound'[y] \in Seq(ThroughHub)
      BY <2>2, <2>3, <1>types DEF HubBetween
    <2>5. calls' \in Seq(ThroughCalls)
      BY <1>5, <1>post, <2>2, GateCalls DEF HubBetween, Forward, ForwardTimesOut
    <2> QED
      BY <2>3, <2>4, <2>5 DEF HubBetween
  <1>6. ASSUME NEW x \in Surfaces, Deliver(x) PROVE HubBetween'
    <2>1. /\ outbound[x] \in Seq(Addressed(x)) /\ outbound[x] # <<>>
          /\ listener[x] \in Sessions /\ Remote(listener[x]) = x
      BY <1>6, <1>types DEF HubBetween, Deliver, Listens
    <2>2. Head(outbound[x]) \in Addressed(x) /\ Tail(outbound[x]) \in Seq(Addressed(x))
      BY <2>1, QueueFacts
    <2>3. listener[x] # Hub => Head(outbound[x]) \in FromHub
      BY <2>1, <2>2, RemoteFacts DEF Addressed, ThroughHub, FromHub
    <2>4. \A s \in Sessions \ {Hub} : got'[s] \in Seq(FromHub)
      <3>1. got' = [got EXCEPT ![listener[x]] = Append(@, Head(outbound[x]))]
        BY <1>6 DEF Deliver
      <3>2. \A s \in Sessions \ {Hub} : got[s] \in Seq(FromHub)
        BY DEF HubBetween
      <3>3. CASE listener[x] = Hub
        BY <1>types, <3>1, <3>2, <3>3
      <3>4. CASE listener[x] # Hub
        <4>1. Append(got[listener[x]], Head(outbound[x])) \in Seq(FromHub)
          BY <2>1, <2>3, <3>2, <3>4, QueueFacts
        <4> QED
          BY <1>types, <2>1, <3>1, <3>2, <4>1
      <3> QED
        BY <3>3, <3>4
    <2>5. \A y \in Surfaces : outbound'[y] \in Seq(Addressed(y))
      BY <1>6, <2>2, <1>types DEF HubBetween, Deliver
    <2> QED
      BY <1>6, <2>4, <2>5 DEF HubBetween, Deliver
  <1>7. ASSUME NEW x \in Surfaces, LoseListener(x) PROVE HubBetween'
    <2>1. PICK k \in 1..Len(outbound[x]) :
            outbound' = [outbound EXCEPT ![x] = SubSeq(@, k + 1, Len(@)) \o SubSeq(@, 1, k)]
      BY <1>7 DEF LoseListener
    <2> DEFINE turned == SubSeq(outbound[x], k + 1, Len(outbound[x])) \o SubSeq(outbound[x], 1, k)
    <2>2. turned \in Seq(Addressed(x))
      BY TurnFacts DEF HubBetween
    <2>3. outbound' = [outbound EXCEPT ![x] = turned]
      BY <2>1
    <2> HIDE DEF turned
    <2>4. \A y \in Surfaces : outbound'[y] \in Seq(Addressed(y))
      BY <2>2, <2>3, <1>types DEF HubBetween
    <2>5. \A y \in Surfaces : listener'[y] # None => Remote(listener'[y]) = y
      BY <1>7, <1>types DEF HubBetween, LoseListener
    <2> QED
      BY <1>7, <2>4, <2>5 DEF HubBetween, LoseListener, waveVars
  <1>8. ASSUME NEW s \in Sessions \ {Hub}, AskMount(s) PROVE HubBetween'
    BY <1>8, <1>post, GateCalls DEF HubBetween, AskMount, laneVars, waveVars
  <1>9. ASSUME NEW s \in Sessions, GiveUp(s) \/ DropEndpoint(s) PROVE HubBetween'
    BY <1>9 DEF HubBetween, GiveUp, DropEndpoint, laneVars, waveVars
  <1>10. ASSUME NEW s \in Entrants, Add(s) \/ PostRemove(s) PROVE HubBetween'
    BY <1>10, <1>post, GateCalls DEF HubBetween, Add, PostRemove, laneVars, waveVars
  <1>11. ASSUME NEW s \in Sessions, NEW to \in Surfaces, Send(s, to) PROVE HubBetween'
    <2>1. sent'[s] \in 1..MaxWave
      BY <1>11, <1>types, NextWave DEF Send
    <2>2. Stamp(s, sent'[s], to) \in ThroughHub
      BY <2>1, <1>hub, WaveFacts DEF Stamp, ThroughHub
    <2>3. Append(inbound[Remote(s)], Stamp(s, sent'[s], to)) \in Seq(ThroughHub)
      BY <2>2, RemoteFacts, QueueFacts DEF HubBetween
    <2>4. \A x \in Surfaces : inbound'[x] \in Seq(ThroughHub)
      BY <1>11, <2>3, <1>types, RemoteFacts DEF HubBetween, Send
    <2> QED
      BY <1>11, <2>4 DEF HubBetween, Send
  <1>12. ASSUME NEW to \in Surfaces, Route(to) PROVE HubBetween'
    <2>1. sent'[Hub] \in 1..MaxWave
      BY <1>12, <1>types, <1>hub, NextWave DEF Route
    <2>2. WaveCall(Wave(Hub, sent'[Hub], to)) \in ThroughCalls
      BY <2>1, <1>hub, WaveFacts, GateCalls DEF ThroughHub
    <2> QED
      BY <1>12, <1>post, <2>2 DEF HubBetween, Route, laneVars
  <1>13. CASE UNCHANGED vars
    BY <1>13 DEF HubBetween, vars
  <1> QED
    BY <1>1, <1>2, <1>3, <1>4, <1>5, <1>6, <1>7, <1>8, <1>9, <1>10, <1>11, <1>12, <1>13
       DEF Next, Task

\* No session but the hub is ever handed a wave of another session, whatever addresses
\* are written into waves and whoever mounts, leaves and comes back: this is what
\* singular_to and the inbound transforms are for.
THEOREM RemotesTalkToHub == Spec => []OnlyThroughHub
  <1>1. Init => TypeOK /\ HubBetween
    BY InitTypeOK, InitHubBetween
  <1>2. (TypeOK /\ HubBetween) /\ [Next]_vars => (TypeOK /\ HubBetween)'
    BY NextTypeOK, NextHubBetween
  <1>3. HubBetween => OnlyThroughHub
    <2> SUFFICES ASSUME HubBetween, NEW s \in Sessions \ {Hub}, NEW i \in DOMAIN got[s]
                 PROVE  got[s][i].by = Hub
      BY DEF OnlyThroughHub
    <2>1. got[s] \in Seq(FromHub)
      BY DEF HubBetween
    <2>2. got[s][i] \in FromHub
      BY <2>1
    <2> QED
      BY <2>2 DEF FromHub
  <1> QED
    BY <1>1, <1>2, <1>3, PTL DEF Spec

-----------------------------------------------------------------------------
(* A gate finds what it mounts.  The channel keeps the order in which a     *)
(* gate posted its calls, the interchange is the only one to take them, and *)
(* a Remove is posted only for a session that is gone.                      *)

\* The hyperway is there, or will be when the first n calls have been taken.
Announced(s, n) == s \in hyperways \/ \E j \in 1..n : calls[j] = Internal(s)

\* A session that may yet get in.
Entering == {"out", "added", "mounting"}

Mountable ==
    /\ \A s \in Mounters : phase[s] # "out" => kind = "star"
    /\ kind = "star" => Fixed \subseteq hyperways
    /\ \A s \in Entrants, i \in 1..Len(calls) : calls[i] = Remove(s) => phase[s] = "gone"
    /\ \A s \in Entrants, i \in 1..Len(calls) :
          calls[i] = Mount(s) /\ phase[s] \in Entering => Announced(s, i - 1)
    /\ \A s \in Entrants : phase[s] = "added" => Announced(s, Len(calls))
    /\ MountFinds

\* A call is determined by its kind and its argument.
LEMMA CallShapes ==
    ASSUME NEW c \in Calls
    PROVE  /\ c.op = "Internal" => c = Internal(c.arg)
           /\ c.op = "Remove" => c = Remove(c.arg)
           /\ c.op = "Mount" => c = Mount(c.arg)
  BY DEF Calls, WaveCall, Internal, Remove, Mount

\* Taking a call moves the others up by one.
LEMMA TakeFacts ==
    ASSUME TypeOK, NEW op, Recv(op)
    PROVE  /\ Len(calls) \in Nat \ {0} /\ Len(calls') = Len(calls) - 1
           /\ First = calls[1] /\ First \in Calls /\ First.op = op
           /\ \A i \in 1..Len(calls') : i + 1 \in 1..Len(calls) /\ calls'[i] = calls[i + 1]
           /\ \A i \in 2..Len(calls) : calls'[i - 1] = calls[i]
  <1>1. calls \in Seq(Calls) /\ calls # <<>> /\ calls' = Tail(calls)
    BY DEF TypeOK, Recv
  <1> QED
    BY <1>1 DEF Recv, First

\* Adding a call leaves the others where they are.
LEMMA PostFacts ==
    ASSUME TypeOK, NEW c \in Calls, calls' = Append(calls, c)
    PROVE  /\ Len(calls) \in Nat /\ Len(calls') = Len(calls) + 1
           /\ calls'[Len(calls) + 1] = c
           /\ \A i \in 1..Len(calls) : calls'[i] = calls[i]
  <1>1. calls \in Seq(Calls)
    BY DEF TypeOK
  <1> QED
    BY <1>1

\* An announced hyperway is announced one place further up when a call is taken,
\* unless the call removes it.
LEMMA TakeAnnounced ==
    ASSUME TypeOK, NEW op, Recv(op), NEW s, NEW n \in 1..Len(calls), Announced(s, n),
           s \in hyperways \/ First = Internal(s) => s \in hyperways'
    PROVE  s \in hyperways' \/ \E j \in 1..(n - 1) : calls'[j] = Internal(s)
  <1>1. CASE s \in hyperways
    BY <1>1
  <1>2. CASE \E j \in 1..n : calls[j] = Internal(s)
    <2>1. PICK j \in 1..n : calls[j] = Internal(s)
      BY <1>2
    <2>2. CASE j = 1
      BY <2>1, <2>2, TakeFacts
    <2>3. CASE j # 1
      <3>1. j - 1 \in 1..(n - 1) /\ calls'[j - 1] = calls[j]
        BY <2>3, TakeFacts
      <3> QED
        BY <2>1, <3>1
    <2> QED
      BY <2>2, <2>3
  <1> QED
    BY <1>1, <1>2 DEF Announced

\* It stays announced when a call is added.
LEMMA PostAnnounced ==
    ASSUME TypeOK, NEW c \in Calls, calls' = Append(calls, c), UNCHANGED hyperways,
           NEW s, NEW n \in 0..Len(calls), Announced(s, n)
    PROVE  s \in hyperways' \/ \E j \in 1..n : calls'[j] = Internal(s)
  BY PostFacts DEF Announced

\* When a call is taken that neither removes a hyperway somebody waits for nor turns
\* anybody away, what has been announced stays so.
LEMMA TakeMountable ==
    ASSUME TypeOK, Mountable, NEW op, Recv(op), UNCHANGED kind,
           \A s \in Entrants : phase[s] \in Entering
               /\ (s \in hyperways \/ First = Internal(s)) => s \in hyperways',
           Fixed \cap hyperways \subseteq hyperways',
           \A s \in Sessions : \/ phase'[s] = phase[s]
                               \/ phase[s] = "mounting" /\ phase'[s] = "in"
    PROVE  Mountable'
  <1>1. \A s \in Mounters : phase'[s] # "out" => kind' = "star"
    BY DEF Mountable, Sessions
  <1>2. kind' = "star" => Fixed \subseteq hyperways'
    BY DEF Mountable
  <1>3. ASSUME NEW s \in Entrants, NEW i \in 1..Len(calls'), calls'[i] = Remove(s)
        PROVE  phase'[s] = "gone"
    <2>1. i + 1 \in 1..Len(calls) /\ calls[i + 1] = Remove(s)
      BY <1>3, TakeFacts
    <2> QED
      BY <2>1 DEF Mountable, Sessions
  <1>4. ASSUME NEW s \in Entrants, NEW i \in 1..Len(calls'),
               calls'[i] = Mount(s), phase'[s] \in Entering
        PROVE  Announced(s, i - 1)'
    <2>1. i + 1 \in 1..Len(calls) /\ calls[i + 1] = Mount(s) /\ phase[s] \in Entering
      BY <1>4, TakeFacts DEF Sessions, Entering
    <2>2. Announced(s, (i + 1) - 1) /\ i \in 1..Len(calls) /\ (i + 1) - 1 = i
      BY <2>1, TakeFacts DEF Mountable
    <2>3. s \in hyperways' \/ \E j \in 1..(i - 1) : calls'[j] = Internal(s)
      BY <2>1, <2>2, TakeAnnounced
    <2> QED
      BY <2>3 DEF Announced
  <1>5. ASSUME NEW s \in Entrants, phase'[s] = "added" PROVE Announced(s, Len(calls))'
    <2>1. phase[s] = "added" /\ Announced(s, Len(calls)) /\ Len(calls) \in 1..Len(calls)
          /\ Len(calls') = Len(calls) - 1
      BY <1>5, TakeFacts DEF Mountable, Sessions
    <2>2. phase[s] \in Entering
      BY <2>1 DEF Entering
    <2>3. s \in hyperways' \/ \E j \in 1..(Len(calls) - 1) : calls'[j] = Internal(s)
      BY <2>1, <2>2, TakeAnnounced
    <2> QED
      BY <2>1, <2>3 DEF Announced
  <1>6. MountFinds'
    BY DEF Mountable, MountFinds
  <1> QED
    BY <1>1, <1>2, <1>3, <1>4, <1>5, <1>6 DEF Mountable

\* When a call is added, and the session that adds it moves on as the gates do.
LEMMA PostMountable ==
    ASSUME TypeOK, Mountable, NEW c \in Calls, calls' = Append(calls, c),
           UNCHANGED <<kind, hyperways>>,
           \A s \in Mounters : phase[s] = "out" /\ phase'[s] # "out" => kind = "star",
           \A s \in Entrants :
              /\ phase[s] = "gone" \/ c = Remove(s) => phase'[s] = "gone"
              /\ phase'[s] \in Entering => phase[s] \in Entering
              /\ c = Mount(s) => phase[s] = "added"
              /\ phase'[s] = "added" => phase[s] = "added" \/ c = Internal(s),
           \A s \in Sessions : phase'[s] = "refused" => phase[s] = "refused"
    PROVE  Mountable'
  <1> USE PostFacts
  <1>len. Len(calls) \in Nat /\ 1..Len(calls') = 1..(Len(calls) + 1)
    OBVIOUS
  <1>1. \A s \in Mounters : phase'[s] # "out" => kind' = "star"
    BY DEF Mountable
  <1>2. kind' = "star" => Fixed \subseteq hyperways'
    BY DEF Mountable
  <1>3. ASSUME NEW s \in Entrants, NEW i \in 1..Len(calls'), calls'[i] = Remove(s)
        PROVE  phase'[s] = "gone"
    <2>1. CASE i = Len(calls) + 1
      BY <1>3, <2>1
    <2>2. CASE i \in 1..Len(calls)
      BY <1>3, <2>2 DEF Mountable
    <2> QED
      BY <1>len, <2>1, <2>2
  <1>4. ASSUME NEW s \in Entrants, NEW i \in 1..Len(calls'),
               calls'[i] = Mount(s), phase'[s] \in Entering
        PROVE  Announced(s, i - 1)'
    <2>1. Announced(s, i - 1) /\ i - 1 \in 0..Len(calls)
      <3>1. CASE i = Len(calls) + 1
        BY <1>len, <1>4, <3>1 DEF Mountable
      <3>2. CASE i \in 1..Len(calls)
        BY <1>len, <1>4, <3>2 DEF Mountable
      <3> QED
        BY <1>len, <3>1, <3>2
    <2> QED
      BY <2>1, PostAnnounced DEF Announced
  <1>5. ASSUME NEW s \in Entrants, phase'[s] = "added" PROVE Announced(s, Len(calls))'
    <2>1. CASE phase[s] = "added"
      <3>1. Announced(s, Len(calls)) /\ Len(calls) \in 0..Len(calls)
        BY <1>len, <2>1 DEF Mountable
      <3>2. s \in hyperways' \/ \E j \in 1..Len(calls) : calls'[j] = Internal(s)
        BY <3>1, PostAnnounced
      <3> QED
        BY <1>len, <3>2 DEF Announced
    <2>2. CASE c = Internal(s)
      <3>1. Len(calls) + 1 \in 1..Len(calls') /\ calls'[Len(calls) + 1] = Internal(s)
        BY <1>len, <2>2
      <3> QED
        BY <3>1 DEF Announced
    <2> QED
      BY <1>5, <2>1, <2>2
  <1>6. MountFinds'
    BY DEF Mountable, MountFinds
  <1> QED
    BY <1>1, <1>2, <1>3, <1>4, <1>5, <1>6 DEF Mountable

LEMMA InitMountable == Init => Mountable
  <1> SUFFICES ASSUME Init PROVE Mountable
    OBVIOUS
  <1>1. 1..Len(calls) = {}
    BY DEF Init
  <1>2. \A s \in Mounters \cup Entrants : phase[s] = "out"
    BY InterchangeAssumption DEF Init, Sessions
  <1>3. \A s \in Sessions : phase[s] # "refused"
    BY DEF Init
  <1>4. kind = "star" => Fixed \subseteq hyperways
    BY DEF Init
  <1> QED
    BY <1>1, <1>2, <1>3, <1>4 DEF Mountable, MountFinds

LEMMA NextMountable == TypeOK /\ Mountable /\ [Next]_vars => Mountable'
  <1> SUFFICES ASSUME TypeOK, Mountable, [Next]_vars PROVE Mountable'
    OBVIOUS
  <1>types. /\ phase \in [Sessions -> Phases] /\ Entrants \subseteq Sessions
            /\ Mounters \subseteq Sessions /\ Entrants \cap Mounters = {}
            /\ Entrants \cap Fixed = {} /\ Entrants \subseteq Sessions \ {Hub}
    BY InterchangeAssumption DEF TypeOK, Sessions
  <1>1. CASE RecvInternal
    <2>1. /\ Recv("Internal") /\ hyperways' = hyperways \cup {First.arg}
          /\ UNCHANGED <<kind, phase>>
      BY <1>1 DEF RecvInternal
    <2>2. \A s \in Entrants : First = Internal(s) => First.arg = s
      BY CallFacts
    <2> QED
      BY <2>1, <2>2, TakeMountable
  <1>2. CASE RecvRemove
    <2>1. First \in Calls /\ First.op = "Remove" /\ First = calls[1] /\ 1 \in 1..Len(calls)
      BY <1>2, TakeFacts DEF RecvRemove
    <2>2. First.arg \in Entrants /\ First = Remove(First.arg)
      BY <2>1, CallKinds, CallShapes
    <2>3. phase[First.arg] = "gone"
      BY <2>1, <2>2 DEF Mountable
    <2>4. \A s \in Entrants : phase[s] \in Entering => s # First.arg /\ First # Internal(s)
      BY <2>1, <2>3, CallFacts DEF Entering
    <2>5. Recv("Remove") /\ hyperways' = hyperways \ {First.arg} /\ UNCHANGED <<kind, phase>>
      BY <1>2 DEF RecvRemove
    <2> QED
      BY <2>2, <2>4, <2>5, <1>types, TakeMountable
  <1>3. CASE RecvWave
    <2>1. Recv("Wave") /\ UNCHANGED <<kind, hyperways, phase>>
      BY <1>3 DEF RecvWave, wayVars
    <2>2. \A s \in Entrants : First # Internal(s)
      BY <2>1, TakeFacts, CallFacts
    <2> QED
      BY <2>1, <2>2, TakeMountable
  <1>4. CASE RecvMount
    <2>1. Recv("Mount") /\ UNCHANGED <<kind, hyperways>>
      BY <1>4 DEF RecvMount, wayVars
    <2>2. First \in Calls /\ First.op = "Mount" /\ First = calls[1] /\ 1 \in 1..Len(calls)
      BY <2>1, TakeFacts
    <2>3. First.arg \in Sessions \ {Hub} /\ First = Mount(First.arg)
      BY <2>2, CallKinds, CallShapes
    <2>4. phase[First.arg] = "mounting" => Remote(First.arg) \in hyperways
      <3>1. CASE First.arg \in Mounters
        BY <3>1, InterchangeAssumption DEF Mountable, Remote
      <3>2. CASE First.arg \in Entrants
        <4>1. phase[First.arg] = "mounting" => Announced(First.arg, 1 - 1)
          BY <2>2, <2>3, <3>2 DEF Mountable, Entering
        <4>2. Remote(First.arg) = First.arg
          BY <3>2, <1>types DEF Remote
        <4> QED
          BY <4>1, <4>2 DEF Announced
      <3> QED
        BY <2>3, <3>1, <3>2 DEF Sessions
    <2>5. \A s \in Sessions : \/ phase'[s] = phase[s]
                              \/ phase[s] = "mounting" /\ phase'[s] = "in"
      BY <1>4, <2>3, <2>4, <1>types DEF RecvMount
    <2>6. \A s \in Entrants : First # Internal(s)
      BY <2>2, CallFacts
    <2> QED
      BY <2>1, <2>5, <2>6, TakeMountable
  <1>5. ASSUME NEW c \in Calls, c.op = "Wave", calls' = Append(calls, c),
               UNCHANGED <<kind, hyperways, phase>>
        PROVE  Mountable'
    <2>1. \A s \in Entrants : c # Internal(s) /\ c # Remove(s) /\ c # Mount(s)
      BY <1>5, <1>types, CallFacts
    <2> QED
      BY <1>5, <2>1, PostMountable
  <1>6. ASSUME NEW x \in Surfaces, Forward(x) PROVE Mountable'
    <2>1. Head(inbound[x]) \in Waves
      BY <1>6, QueueFacts DEF TypeOK, Forward
    <2> QED
      BY <1>5, <1>6, <2>1, CallFacts DEF Forward, wayVars
  <1>7. ASSUME NEW to \in Surfaces, Route(to) PROVE Mountable'
    <2>1. sent'[Hub] \in 1..MaxWave /\ Hub \in Sessions
      BY <1>7, NextWave DEF TypeOK, Route, Sessions
    <2>2. Wave(Hub, sent'[Hub], to) \in Waves
      BY <2>1, WaveFacts
    <2> QED
      BY <1>5, <1>7, <2>2, CallFacts DEF Route, wayVars
  <1>8. ASSUME NEW s \in Sessions \ {Hub}, AskMount(s) PROVE Mountable'
    <2>1. /\ calls' = Append(calls, Mount(s)) /\ phase' = [phase EXCEPT ![s] = "mounting"]
          /\ UNCHANGED <<kind, hyperways>>
          /\ phase[s] = "added" \/ (kind = "star" /\ s \in Mounters /\ phase[s] = "out")
      BY <1>8 DEF AskMount, wayVars
    <2>2. \A t \in Entrants : Mount(s) # Internal(t) /\ Mount(s) # Remove(t)
                              /\ (Mount(s) = Mount(t) => s = t)
      BY <1>types, CallFacts
    <2> QED
      BY <2>1, <2>2, <1>types, CallFacts, PostMountable DEF Entering, Mountable
  <1>9. ASSUME NEW s \in Entrants, Add(s) PROVE Mountable'
    <2>1. /\ calls' = Append(calls, Internal(s)) /\ phase' = [phase EXCEPT ![s] = "added"]
          /\ UNCHANGED <<kind, hyperways>> /\ phase[s] = "out"
      BY <1>9 DEF Add, wayVars
    <2>2. \A t \in Entrants : Internal(s) # Remove(t) /\ Internal(s) # Mount(t)
      BY <1>types, CallFacts
    <2> QED
      BY <2>1, <2>2, <1>types, CallFacts, PostMountable DEF Entering
  <1>10. ASSUME NEW s \in Entrants, PostRemove(s) PROVE Mountable'
    <2>1. /\ calls' = Append(calls, Remove(s)) /\ phase' = [phase EXCEPT ![s] = "gone"]
          /\ UNCHANGED <<kind, hyperways>> /\ phase[s] = "dropped"
      BY <1>10 DEF PostRemove, wayVars
    <2>2. \A t \in Entrants : Remove(s) # Internal(t) /\ Remove(s) # Mount(t)
                              /\ (Remove(s) = Remove(t) => s = t)
      BY <1>types, CallFacts
    <2> QED
      BY <2>1, <2>2, <1>types, CallFacts, PostMountable DEF Entering
  <1>11. ASSUME NEW s \in Sessions \ {Hub}, GiveUp(s) \/ DropEndpoint(s) PROVE Mountable'
    <2>1. /\ UNCHANGED <<calls, kind, hyperways>>
          /\ phase[s] \in {"added", "mounting", "in"}
          /\ \E p \in {"gaveUp", "dropped", "gone"} : phase' = [phase EXCEPT ![s] = p]
      BY <1>11 DEF GiveUp, DropEndpoint, wayVars
    <2> QED
      BY <2>1, <1>types DEF Mountable, MountFinds, Announced, Entering
  <1>12. CASE UNCHANGED <<calls, kind, hyperways, phase>>
    BY <1>12 DEF Mountable, MountFinds, Announced
  <1>13. ASSUME NEW x \in Surfaces, ForwardTimesOut(x) \/ Deliver(x) \/ LoseListener(x)
         PROVE  Mountable'
    BY <1>12, <1>13 DEF ForwardTimesOut, Deliver, LoseListener, wayVars
  <1>14. ASSUME NEW s \in Sessions, NEW to \in Surfaces, Send(s, to) PROVE Mountable'
    BY <1>12, <1>14 DEF Send, wayVars
  <1>15. CASE UNCHANGED vars
    BY <1>12, <1>15 DEF vars
  <1> QED
    BY <1>1, <1>2, <1>3, <1>4, <1>6, <1>7, <1>8, <1>9, <1>10, <1>11, <1>13, <1>14, <1>15
       DEF Next, Task

\* A mount that is still wanted never fails: the hyperway was added by an earlier call,
\* and nothing but the end of the session itself removes it.
THEOREM MountsNeverFail == Spec => []MountFinds
  <1>1. Init => TypeOK /\ Mountable
    BY InitTypeOK, InitMountable
  <1>2. (TypeOK /\ Mountable) /\ [Next]_vars => (TypeOK /\ Mountable)'
    BY NextTypeOK, NextMountable
  <1>3. Mountable => MountFinds
    BY DEF Mountable
  <1> QED
    BY <1>1, <1>2, <1>3, PTL DEF Spec

-----------------------------------------------------------------------------
(* Every wave that was sent is somewhere.  A step of the interchange, of a  *)
(* forwarder or of a lane takes a wave from one place and puts it into      *)
(* another, or gives it up; it makes none and loses none.                   *)

\* All that is in a family of queues.
Elements(D, f) == UNION {Range(f[x]) : x \in D}

Enqueued == Elements(Surfaces, inbound)
Passing  == Elements(Surfaces, outbound)
Anywhere == InCalls \cup Enqueued \cup Passing \cup Received \cup lost

\* What a queue holds after something was added, and before something was taken.
LEMMA RangeFacts ==
    ASSUME NEW S, NEW q \in Seq(S)
    PROVE  /\ \A e \in S : Range(Append(q, e)) = Range(q) \cup {e}
           /\ q # <<>> => Range(q) = Range(Tail(q)) \cup {Head(q)}
           /\ Range(q) = {q[i] : i \in 1..Len(q)}
  <1>1. Len(q) \in Nat /\ DOMAIN q = 1..Len(q)
    OBVIOUS
  <1>2. ASSUME NEW e \in S PROVE Range(Append(q, e)) = Range(q) \cup {e}
    <2>1. /\ DOMAIN Append(q, e) = 1..(Len(q) + 1)
          /\ \A i \in 1..Len(q) : Append(q, e)[i] = q[i]
          /\ Append(q, e)[Len(q) + 1] = e
      BY <1>1
    <2>2. \A i \in 1..(Len(q) + 1) : i \in 1..Len(q) \/ i = Len(q) + 1
      BY <1>1
    <2>3. Len(q) + 1 \in 1..(Len(q) + 1) /\ \A i \in 1..Len(q) : i \in 1..(Len(q) + 1)
      BY <1>1
    <2> QED
      BY <1>1, <2>1, <2>2, <2>3 DEF Range
  <1>3. ASSUME q # <<>> PROVE Range(q) = Range(Tail(q)) \cup {Head(q)}
    <2>1. /\ DOMAIN Tail(q) = 1..(Len(q) - 1) /\ Head(q) = q[1] /\ Len(q) >= 1
          /\ \A i \in 1..(Len(q) - 1) : Tail(q)[i] = q[i + 1]
      BY <1>1, <1>3
    <2>2. \A i \in 1..Len(q) : i = 1 \/ (i - 1 \in 1..(Len(q) - 1) /\ Tail(q)[i - 1] = q[i])
      BY <1>1, <2>1
    <2>3. \A i \in 1..(Len(q) - 1) : i + 1 \in 1..Len(q)
      BY <1>1
    <2>4. 1 \in 1..Len(q)
      BY <1>1, <2>1
    <2>5. Range(q) = {q[i] : i \in 1..Len(q)} /\ Range(Tail(q)) = {Tail(q)[i] : i \in 1..(Len(q) - 1)}
      BY <1>1, <2>1 DEF Range
    <2>6. \A e \in Range(q) : e \in Range(Tail(q)) \/ e = Head(q)
      BY <2>1, <2>2, <2>5
    <2>7. \A e \in Range(Tail(q)) : e \in Range(q)
      BY <2>1, <2>3, <2>5
    <2>8. Head(q) \in Range(q)
      BY <2>1, <2>4, <2>5
    <2> QED
      BY <2>6, <2>7, <2>8
  <1> QED
    BY <1>1, <1>2, <1>3 DEF Range

\* Where the waves of a lane are after it has turned: nothing is lost or doubled.
LEMMA TurnElements ==
    ASSUME NEW S, NEW q \in Seq(S), NEW k \in 1..Len(q)
    PROVE  LET t == SubSeq(q, k + 1, Len(q)) \o SubSeq(q, 1, k)
               at(i) == IF i <= Len(q) - k THEN i + k ELSE i - (Len(q) - k)
           IN  /\ Len(t) = Len(q) /\ DOMAIN t = 1..Len(q) /\ Len(q) \in Nat
               /\ \A i \in 1..Len(q) : at(i) \in 1..Len(q) /\ t[i] = q[at(i)]
               /\ \A i, j \in 1..Len(q) : at(i) = at(j) => i = j
               /\ Range(t) = Range(q)
  <1> DEFINE n == Len(q)
             a == SubSeq(q, k + 1, n)
             b == SubSeq(q, 1, k)
             t == a \o b
             at(i) == IF i <= n - k THEN i + k ELSE i - (n - k)
  <1>1. n \in Nat /\ k \in Nat /\ 1 <= k /\ k <= n /\ DOMAIN q = 1..n
    OBVIOUS
  <1>2. /\ a \in Seq(S) /\ Len(a) = n - k
        /\ \A i \in 1..(n - k) : a[i] = q[i + k]
    <2>1. k + 1 \in Int /\ n \in Int /\ \A i \in (k + 1)..n : q[i] \in S
      BY <1>1
    <2>2. /\ a \in Seq(S)
          /\ Len(a) = IF k + 1 <= n THEN n - (k + 1) + 1 ELSE 0
          /\ \A i \in 1..(n - (k + 1) + 1) : a[i] = q[(k + 1) + i - 1]
      BY <2>1, SubSeqProperties
    <2> HIDE DEF a, n
    <2>3. \A i \in 1..(n - k) : (k + 1) + i - 1 = i + k
      BY <1>1
    <2>4. n - (k + 1) + 1 = n - k
      BY <1>1
    <2> QED
      BY <1>1, <2>2, <2>3, <2>4
  <1>3. b \in Seq(S) /\ Len(b) = k /\ \A i \in 1..k : b[i] = q[i]
    BY <1>1
  <1>4. t \in Seq(S) /\ Len(t) = n /\ DOMAIN t = 1..n
    <2> HIDE DEF a, b, n
    <2>1. t \in Seq(S) /\ Len(t) = Len(a) + Len(b)
      BY <1>2, <1>3, ConcatProperties
    <2> HIDE DEF t
    <2> QED
      BY <1>1, <1>2, <1>3, <2>1
  <1>5. \A i \in 1..n : t[i] = IF i <= n - k THEN a[i] ELSE b[i - (n - k)]
    <2> HIDE DEF a, b, n
    <2>1. \A i \in 1..(Len(a) + Len(b)) : t[i] = IF i <= Len(a) THEN a[i] ELSE b[i - Len(a)]
      BY <1>2, <1>3
    <2> QED
      BY <1>1, <1>2, <1>3, <2>1
  <1> HIDE DEF a, b, t, n
  <1>6. \A i \in 1..n : at(i) \in 1..n /\ t[i] = q[at(i)]
    <2> SUFFICES ASSUME NEW i \in 1..n PROVE at(i) \in 1..n /\ t[i] = q[at(i)]
      OBVIOUS
    <2>1. CASE i <= n - k
      <3>1. i \in 1..(n - k) /\ at(i) = i + k /\ t[i] = a[i]
        BY <1>1, <1>5, <2>1
      <3> QED
        BY <1>1, <1>2, <3>1
    <2>2. CASE ~(i <= n - k)
      <3>1. i - (n - k) \in 1..k /\ at(i) = i - (n - k) /\ t[i] = b[i - (n - k)]
        BY <1>1, <1>5, <2>2
      <3> QED
        BY <1>1, <1>3, <3>1
    <2> QED
      BY <2>1, <2>2
  <1>7. \A i, j \in 1..n : at(i) = at(j) => i = j
    BY <1>1
  <1>8. \A j \in 1..n : \E i \in 1..n : at(i) = j
    <2> SUFFICES ASSUME NEW j \in 1..n PROVE \E i \in 1..n : at(i) = j
      OBVIOUS
    <2>1. CASE j > k
      <3>1. j - k \in 1..n /\ at(j - k) = j
        BY <1>1, <2>1
      <3> QED
        BY <3>1
    <2>2. CASE ~(j > k)
      <3>1. j + (n - k) \in 1..n /\ at(j + (n - k)) = j
        BY <1>1, <2>2
      <3> QED
        BY <3>1
    <2> QED
      BY <2>1, <2>2
  <1>9. Range(t) = {t[i] : i \in 1..n} /\ Range(q) = {q[i] : i \in 1..n}
    BY <1>1, <1>4 DEF Range
  <1> HIDE DEF at
  <1>10. Range(t) = Range(q)
    <2>1. \A e \in Range(t) : e \in Range(q)
      BY <1>6, <1>9
    <2>2. \A e \in Range(q) : e \in Range(t)
      BY <1>6, <1>8, <1>9
    <2> QED
      BY <2>1, <2>2
  <1> QED
    BY <1>1, <1>4, <1>6, <1>7, <1>10 DEF n, a, b, t, at

\* T is S with e.
With(S, e, T) == T = S \cup {e}

\* A family of queues, one of which has one more element than before: putting an
\* element into a queue, or read backwards, taking one out.
LEMMA OneMore ==
    ASSUME NEW D, NEW f, NEW g, NEW x \in D, NEW e,
           With(Range(f[x]), e, Range(g[x])),
           \A y \in D : y # x => g[y] = f[y]
    PROVE  With(Elements(D, f), e, Elements(D, g))
  <1>0. \A d : d \in Range(g[x]) <=> d \in Range(f[x]) \/ d = e
    BY DEF With
  <1>1. \A d : d \in Elements(D, f) <=> \E y \in D : d \in Range(f[y])
    BY DEF Elements
  <1>2. \A d : d \in Elements(D, g) <=> \E y \in D : d \in Range(g[y])
    BY DEF Elements
  <1>3. \A d : d \in Elements(D, g) <=> d \in Elements(D, f) \cup {e}
    BY <1>0, <1>1, <1>2
  <1> QED
    BY <1>3 DEF With

\* A family of queues each of which has the elements it had.
LEMMA NoneMore ==
    ASSUME NEW D, NEW f, NEW g, \A y \in D : Range(g[y]) = Range(f[y])
    PROVE  Elements(D, g) = Elements(D, f)
  BY DEF Elements

\* The waves in the call channel after a call was taken, and after one was posted.
LEMMA CallWaves ==
    ASSUME TypeOK
    PROVE  /\ \A w : w \in InCalls <=> \E i \in 1..Len(calls) : calls[i].op = "Wave" /\ calls[i].arg = w
           /\ \A op : Recv(op) => InCalls = InCalls' \cup (IF op = "Wave" THEN {First.arg} ELSE {})
           /\ \A c \in Calls : calls' = Append(calls, c)
                 => InCalls' = InCalls \cup (IF c.op = "Wave" THEN {c.arg} ELSE {})
           /\ calls' = calls => InCalls' = InCalls
  <1>1. calls \in Seq(Calls) /\ Len(calls) \in Nat /\ DOMAIN calls = 1..Len(calls)
    BY DEF TypeOK
  <1>2. \A w : w \in InCalls <=> \E i \in 1..Len(calls) : calls[i].op = "Wave" /\ calls[i].arg = w
    BY <1>1 DEF InCalls
  <1>3. ASSUME NEW op, Recv(op)
        PROVE  InCalls = InCalls' \cup (IF op = "Wave" THEN {First.arg} ELSE {})
    <2>1. DOMAIN calls' = 1..Len(calls')
      BY <1>1, <1>3 DEF Recv
    <2>2. \A w : w \in InCalls' <=> \E i \in 1..Len(calls') : calls'[i].op = "Wave" /\ calls'[i].arg = w
      BY <2>1 DEF InCalls
    <2>3. /\ First = calls[1] /\ First.op = op /\ 1 \in 1..Len(calls)
          /\ \A i \in 1..Len(calls') : i + 1 \in 1..Len(calls) /\ calls'[i] = calls[i + 1]
          /\ \A i \in 1..Len(calls) : i = 1 \/ (i - 1 \in 1..Len(calls') /\ calls'[i - 1] = calls[i])
      BY <1>3, TakeFacts
    <2>4. \A w \in InCalls : w \in InCalls' \/ (op = "Wave" /\ w = First.arg)
      BY <1>2, <2>2, <2>3
    <2>5. \A w \in InCalls' : w \in InCalls
      BY <1>2, <2>2, <2>3
    <2>6. op = "Wave" => First.arg \in InCalls
      BY <1>2, <2>3
    <2> QED
      BY <2>4, <2>5, <2>6
  <1>4. ASSUME NEW c \in Calls, calls' = Append(calls, c)
        PROVE  InCalls' = InCalls \cup (IF c.op = "Wave" THEN {c.arg} ELSE {})
    <2>1. DOMAIN calls' = 1..Len(calls')
      BY <1>1, <1>4
    <2>2. \A w : w \in InCalls' <=> \E i \in 1..Len(calls') : calls'[i].op = "Wave" /\ calls'[i].arg = w
      BY <2>1 DEF InCalls
    <2>3. /\ Len(calls') = Len(calls) + 1 /\ calls'[Len(calls) + 1] = c
          /\ \A i \in 1..Len(calls) : calls'[i] = calls[i]
      BY <1>4, PostFacts
    <2>4. /\ \A i \in 1..Len(calls') : i = Len(calls) + 1 \/ i \in 1..Len(calls)
          /\ \A i \in 1..Len(calls) : i \in 1..Len(calls')
          /\ Len(calls) + 1 \in 1..Len(calls')
      BY <1>1, <2>3
    <2> QED
      BY <1>2, <2>2, <2>3, <2>4
  <1>5. calls' = calls => InCalls' = InCalls
    BY DEF InCalls
  <1> QED
    BY <1>2, <1>3, <1>4, <1>5

\* A step moves waves from place to place; only Send and Route add one.
LEMMA StepMoves ==
    ASSUME TypeOK, [Next]_vars
    PROVE  \/ sent' = sent /\ Anywhere' = Anywhere
           \/ \E s \in Sessions, w \in Waves :
                 /\ w.by = s /\ w.n = sent[s] + 1 /\ sent[s] + 1 \in Nat
                 /\ sent' = [sent EXCEPT ![s] = @ + 1]
                 /\ Anywhere' = Anywhere \cup {w}
  <1>types. /\ inbound \in [Surfaces -> Seq(Waves)] /\ outbound \in [Surfaces -> Seq(Waves)]
            /\ got \in [Sessions -> Seq(Waves)] /\ sent \in [Sessions -> 0..MaxWave]
    BY DEF TypeOK
  <1>hub. Hub \in Sessions /\ Hub \in Surfaces
    BY DEF Sessions, Surfaces
  <1>same. /\ inbound' = inbound => Enqueued' = Enqueued
           /\ outbound' = outbound => Passing' = Passing
           /\ got' = got => Received' = Received
    BY DEF Enqueued, Passing, Received, Elements
  <1>got. Received = Elements(Sessions, got) /\ Received' = Elements(Sessions, got')
    BY DEF Received, Elements
  <1>gate. ASSUME NEW c \in Calls, c.op # "Wave", calls' = Append(calls, c),
                  UNCHANGED <<inbound, outbound, got, lost>>
           PROVE  Anywhere' = Anywhere
    BY <1>gate, <1>same, CallWaves DEF Anywhere
  <1>1. CASE RecvInternal \/ RecvRemove \/ RecvMount
    <2>1. /\ Recv("Internal") \/ Recv("Remove") \/ Recv("Mount")
          /\ UNCHANGED <<inbound, outbound, got, lost, sent>>
      BY <1>1 DEF RecvInternal, RecvRemove, RecvMount, laneVars, waveVars
    <2>2. InCalls' = InCalls
      <3>1. PICK op \in {"Internal", "Remove", "Mount"} : Recv(op)
        BY <2>1
      <3> QED
        BY <3>1, CallWaves
    <2> QED
      BY <2>1, <2>2, <1>same DEF Anywhere
  <1>2. CASE RecvWave
    <2> DEFINE w == First.arg
    <2>1. Recv("Wave") /\ UNCHANGED <<inbound, got, sent>>
      BY <1>2 DEF RecvWave
    <2>2. First \in Calls /\ First.op = "Wave"
      BY <2>1, TakeFacts
    <2>3. w \in Waves /\ w.to \in Surfaces
      BY <2>2, CallKinds, WaveFacts
    <2>4. InCalls = InCalls' \cup {w}
      BY <2>1, CallWaves
    <2>5. \/ lost' = lost /\ outbound' = [outbound EXCEPT ![w.to] = Append(@, w)]
          \/ /\ Len(outbound[w.to]) >= LaneCap
             /\ outbound' = [outbound EXCEPT ![w.to] = Append(Tail(@), w)]
             /\ lost' = lost \cup {Head(outbound[w.to])}
          \/ lost' = lost \cup {w} /\ outbound' = outbound
      BY <1>2 DEF RecvWave
    <2> DEFINE lane == outbound[w.to]
    <2>6. lane \in Seq(Waves)
      BY <2>3, <1>types
    <2> HIDE DEF w
    <2>7. CASE lost' = lost /\ outbound' = [outbound EXCEPT ![w.to] = Append(@, w)]
      <3>1. Passing' = Passing \cup {w}
        <4>1. With(Range(lane), w, Range(Append(lane, w)))
          BY <2>3, <2>6, RangeFacts DEF With
        <4>2. outbound'[w.to] = Append(lane, w) /\ \A y \in Surfaces : y # w.to => outbound'[y] = outbound[y]
          BY <2>3, <2>7, <1>types
        <4>3. With(Passing, w, Passing')
          BY <2>3, <4>1, <4>2, OneMore DEF Passing
        <4> QED
          BY <4>3 DEF With
      <3> QED
        BY <2>1, <2>4, <2>7, <3>1, <1>same DEF Anywhere
    <2>8. CASE /\ Len(lane) >= LaneCap
               /\ outbound' = [outbound EXCEPT ![w.to] = Append(Tail(@), w)]
               /\ lost' = lost \cup {Head(lane)}
      <3>1. lane # <<>>
        BY <2>8, InterchangeAssumption
      <3>2. Tail(lane) \in Seq(Waves)
        BY <2>6, <3>1
      <3> HIDE DEF lane
      <3>3. With(Range(Tail(lane)), Head(lane), Range(lane))
        BY <2>6, <3>1, RangeFacts DEF With
      <3> DEFINE rest == Tail(lane)
      <3>a. rest \in Seq(Waves)
        BY <3>2
      <3> HIDE DEF rest
      <3>4. With(Range(rest), w, Range(Append(rest, w)))
        BY <2>3, <3>a, RangeFacts DEF With
      <3> DEFINE mid == [outbound EXCEPT ![w.to] = Tail(lane)]
      <3>5. /\ mid[w.to] = Tail(lane) /\ outbound'[w.to] = Append(Tail(lane), w)
            /\ \A y \in Surfaces : y # w.to => outbound[y] = mid[y] /\ outbound'[y] = mid[y]
        BY <2>3, <2>8, <1>types DEF lane
      <3> HIDE DEF mid
      <3>6. With(Elements(Surfaces, mid), Head(lane), Passing)
        <4>1. With(Range(mid[w.to]), Head(lane), Range(outbound[w.to]))
          BY <3>3, <3>5 DEF lane
        <4> QED
          BY <2>3, <3>5, <4>1, OneMore DEF Passing
      <3>7. With(Elements(Surfaces, mid), w, Passing')
        <4>1. With(Range(mid[w.to]), w, Range(outbound'[w.to]))
          BY <3>4, <3>5 DEF rest
        <4> QED
          BY <2>3, <3>5, <4>1, OneMore DEF Passing
      <3> QED
        BY <2>1, <2>4, <2>8, <3>6, <3>7, <1>same DEF Anywhere, With
    <2>9. CASE lost' = lost \cup {w} /\ outbound' = outbound
      BY <2>1, <2>4, <2>9, <1>same DEF Anywhere
    <2> QED
      BY <2>1, <2>5, <2>7, <2>8, <2>9 DEF lane
  <1>3. ASSUME NEW x \in Surfaces, Forward(x) \/ ForwardTimesOut(x)
        PROVE  sent' = sent /\ Anywhere' = Anywhere
    <2> DEFINE h == Head(inbound[x])
    <2>1. /\ inbound[x] # <<>> /\ inbound' = [inbound EXCEPT ![x] = Tail(@)]
          /\ UNCHANGED <<outbound, got, sent>>
          /\ \/ calls' = Append(calls, WaveCall(h)) /\ lost' = lost
             \/ calls' = calls /\ lost' = lost \cup {h}
      BY <1>3 DEF Forward, ForwardTimesOut, waveVars
    <2>2. inbound[x] \in Seq(Waves) /\ h \in Waves
      BY <2>1, <1>types, QueueFacts
    <2>3. With(Range(Tail(inbound[x])), h, Range(inbound[x]))
      BY <2>1, <2>2, RangeFacts DEF With
    <2> HIDE DEF h
    <2>4. Enqueued = Enqueued' \cup {h}
      <3>1. inbound'[x] = Tail(inbound[x]) /\ \A y \in Surfaces : y # x => inbound[y] = inbound'[y]
        BY <2>1, <1>types
      <3> QED
        <4>1. With(Enqueued', h, Enqueued)
          BY <2>3, <3>1, OneMore DEF Enqueued
        <4> QED
          BY <4>1 DEF With
    <2>5. calls' = Append(calls, WaveCall(h)) => InCalls' = InCalls \cup {h}
      BY <2>2, CallFacts, CallWaves
    <2>6. calls' = calls => InCalls' = InCalls
      BY CallWaves
    <2> QED
      BY <2>1, <2>4, <2>5, <2>6, <1>same DEF Anywhere
  <1>4. ASSUME NEW x \in Surfaces, Deliver(x) PROVE sent' = sent /\ Anywhere' = Anywhere
    <2> DEFINE h == Head(outbound[x])
               s == listener[x]
    <2>1. /\ outbound[x] # <<>> /\ outbound' = [outbound EXCEPT ![x] = Tail(@)]
          /\ got' = [got EXCEPT ![s] = Append(@, h)] /\ s \in Sessions
          /\ UNCHANGED <<calls, inbound, sent, lost>>
      BY <1>4 DEF Deliver, Listens, TypeOK
    <2>2. outbound[x] \in Seq(Waves) /\ h \in Waves /\ got[s] \in Seq(Waves)
      BY <2>1, <1>types, QueueFacts
    <2>3. With(Range(Tail(outbound[x])), h, Range(outbound[x]))
      BY <2>1, <2>2, RangeFacts DEF With
    <2>4. With(Range(got[s]), h, Range(Append(got[s], h)))
      BY <2>2, RangeFacts DEF With
    <2> HIDE DEF h, s
    <2>5. Passing = Passing' \cup {h}
      <3>1. outbound'[x] = Tail(outbound[x]) /\ \A y \in Surfaces : y # x => outbound[y] = outbound'[y]
        BY <2>1, <1>types
      <3> QED
        <4>1. With(Passing', h, Passing)
          BY <2>3, <3>1, OneMore DEF Passing
        <4> QED
          BY <4>1 DEF With
    <2>6. Received' = Received \cup {h}
      <3>1. got'[s] = Append(got[s], h) /\ \A y \in Sessions : y # s => got'[y] = got[y]
        BY <2>1, <1>types
      <3> QED
        <4>1. With(Received, h, Received')
          BY <2>1, <2>4, <3>1, <1>got, OneMore
        <4> QED
          BY <4>1 DEF With
    <2>7. InCalls' = InCalls
      BY <2>1, CallWaves
    <2> QED
      BY <2>1, <2>5, <2>6, <2>7, <1>same DEF Anywhere
  <1>5. ASSUME NEW x \in Surfaces, LoseListener(x) PROVE sent' = sent /\ Anywhere' = Anywhere
    <2>1. PICK k \in 1..Len(outbound[x]) :
            outbound' = [outbound EXCEPT ![x] = SubSeq(@, k + 1, Len(@)) \o SubSeq(@, 1, k)]
      BY <1>5 DEF LoseListener
    <2> DEFINE turned == SubSeq(outbound[x], k + 1, Len(outbound[x])) \o SubSeq(outbound[x], 1, k)
    <2>2. Range(turned) = Range(outbound[x])
      BY <1>types, TurnElements
    <2>3. outbound' = [outbound EXCEPT ![x] = turned] /\ UNCHANGED <<calls, inbound, got, sent, lost>>
      BY <1>5, <2>1 DEF LoseListener, waveVars
    <2> HIDE DEF turned
    <2>4. Passing' = Passing
      <3>1. \A y \in Surfaces : Range(outbound'[y]) = Range(outbound[y])
        BY <2>2, <2>3, <1>types
      <3> QED
        BY <3>1, NoneMore DEF Passing
    <2> QED
      BY <2>3, <2>4, <1>same, CallWaves DEF Anywhere
  <1>6. ASSUME NEW s \in Sessions \ {Hub}, AskMount(s) PROVE sent' = sent /\ Anywhere' = Anywhere
    BY <1>6, <1>gate, CallFacts DEF AskMount, laneVars, waveVars
  <1>7. ASSUME NEW s \in Sessions, GiveUp(s) \/ DropEndpoint(s)
        PROVE  sent' = sent /\ Anywhere' = Anywhere
    BY <1>7, <1>same, CallWaves DEF GiveUp, DropEndpoint, laneVars, waveVars, Anywhere
  <1>8. ASSUME NEW s \in Entrants, Add(s) \/ PostRemove(s)
        PROVE  sent' = sent /\ Anywhere' = Anywhere
    BY <1>8, <1>gate, CallFacts DEF Add, PostRemove, laneVars, waveVars
  <1>9. ASSUME NEW s \in Sessions, NEW to \in Surfaces, Send(s, to)
        PROVE  \E w \in Waves :
                 /\ w.by = s /\ w.n = sent[s] + 1 /\ sent[s] + 1 \in Nat
                 /\ sent' = [sent EXCEPT ![s] = @ + 1]
                 /\ Anywhere' = Anywhere \cup {w}
    <2>1. sent[s] \in 0..MaxWave /\ sent[s] + 1 \in 1..MaxWave /\ sent[s] + 1 \in Nat
      BY <1>9, <1>types, NextWave DEF Send
    <2>2. sent'[s] = sent[s] + 1 /\ sent' = [sent EXCEPT ![s] = @ + 1]
      BY <1>9, <1>types DEF Send
    <2> DEFINE w == Stamp(s, sent[s] + 1, to)
    <2>3. w \in Waves /\ w.by = s /\ w.n = sent[s] + 1
      BY <2>1, <1>hub, WaveFacts DEF Stamp, Wave
    <2>4. inbound' = [inbound EXCEPT ![Remote(s)] = Append(@, w)]
          /\ UNCHANGED <<calls, outbound, got, lost>>
      BY <1>9, <2>2 DEF Send
    <2> HIDE DEF w
    <2>5. Remote(s) \in Surfaces /\ inbound[Remote(s)] \in Seq(Waves)
      BY <1>types, RemoteFacts
    <2>6. Enqueued' = Enqueued \cup {w}
      <3> DEFINE x == Remote(s)
      <3>1. With(Range(inbound[x]), w, Range(Append(inbound[x], w)))
        BY <2>3, <2>5, RangeFacts DEF With
      <3>2. inbound'[x] = Append(inbound[x], w) /\ \A y \in Surfaces : y # x => inbound'[y] = inbound[y]
        BY <2>4, <2>5, <1>types
      <3> HIDE DEF x
      <3>3. x \in Surfaces
        BY <2>5 DEF x
      <3> QED
        <4>1. With(Enqueued, w, Enqueued')
          BY <3>1, <3>2, <3>3, OneMore DEF Enqueued
        <4> QED
          BY <4>1 DEF With
    <2>7. Anywhere' = Anywhere \cup {w}
      BY <2>4, <2>6, <1>same, CallWaves DEF Anywhere
    <2> QED
      BY <2>1, <2>2, <2>3, <2>7
  <1>10. ASSUME NEW to \in Surfaces, Route(to)
         PROVE  \E w \in Waves :
                 /\ w.by = Hub /\ w.n = sent[Hub] + 1 /\ sent[Hub] + 1 \in Nat
                 /\ sent' = [sent EXCEPT ![Hub] = @ + 1]
                 /\ Anywhere' = Anywhere \cup {w}
    <2>1. sent[Hub] \in 0..MaxWave /\ sent[Hub] + 1 \in 1..MaxWave /\ sent[Hub] + 1 \in Nat
      BY <1>10, <1>types, <1>hub, NextWave DEF Route
    <2>2. sent'[Hub] = sent[Hub] + 1 /\ sent' = [sent EXCEPT ![Hub] = @ + 1]
      BY <1>10, <1>types, <1>hub DEF Route
    <2> DEFINE w == Wave(Hub, sent[Hub] + 1, to)
    <2>3. w \in Waves /\ w.by = Hub /\ w.n = sent[Hub] + 1
      BY <2>1, <1>hub, WaveFacts DEF Wave
    <2>4. calls' = Append(calls, WaveCall(w)) /\ UNCHANGED <<inbound, outbound, got, lost>>
      BY <1>10, <2>2 DEF Route, laneVars
    <2> HIDE DEF w
    <2>5. InCalls' = InCalls \cup {w}
      BY <2>3, <2>4, CallFacts, CallWaves
    <2>6. Anywhere' = Anywhere \cup {w}
      BY <2>4, <2>5, <1>same DEF Anywhere
    <2> QED
      BY <2>1, <2>2, <2>3, <2>6
  <1>11. CASE UNCHANGED vars
    BY <1>11, <1>same, CallWaves DEF vars, Anywhere
  <1> QED
    BY <1>1, <1>2, <1>3, <1>4, <1>5, <1>6, <1>7, <1>8, <1>9, <1>10, <1>11, <1>hub DEF Next, Task

\* The waves that were sent, by number, and those that are somewhere.
Numbers(W) == {<<w.by, w.n>> : w \in W}
Sent == UNION {{<<s, n>> : n \in 1..sent[s]} : s \in Sessions}

\* Accounted, of the numbers of the waves that are somewhere.
LEMMA AccountedMeans == Accounted <=> Numbers(Anywhere) = Sent
  <1>1. InLanes = Enqueued \cup Passing
    BY DEF InLanes, Enqueued, Passing, Elements
  <1>2. InCalls \cup InLanes \cup Received \cup lost = Anywhere
    BY <1>1 DEF Anywhere
  <1> QED
    BY <1>2 DEF Accounted, Numbers, Sent

\* Nothing was sent and nothing is anywhere.
LEMMA InitAccounted == Init => Accounted
  <1> SUFFICES ASSUME Init PROVE Numbers(Anywhere) = Sent
    BY AccountedMeans
  <1>1. InCalls = {}
    BY DEF Init, InCalls
  <1>2. Enqueued = {} /\ Passing = {} /\ Received = {} /\ lost = {}
    BY DEF Init, Enqueued, Passing, Received, Elements, Range
  <1>3. Sent = {}
    BY DEF Init, Sent
  <1> QED
    BY <1>1, <1>2, <1>3 DEF Anywhere, Numbers

\* A step moves waves, or sends one.
LEMMA NextAccounted == TypeOK /\ Accounted /\ [Next]_vars => Accounted'
  <1> SUFFICES ASSUME TypeOK, Numbers(Anywhere) = Sent, [Next]_vars
               PROVE  Numbers(Anywhere') = Sent'
    <2>1. (Numbers(Anywhere) = Sent)' <=> Accounted'
      BY AccountedMeans, PTL
    <2> QED
      BY <2>1, AccountedMeans DEF Numbers
  <1>1. CASE sent' = sent /\ Anywhere' = Anywhere
    BY <1>1 DEF Sent
  <1>2. CASE \E s \in Sessions, w \in Waves :
                /\ w.by = s /\ w.n = sent[s] + 1 /\ sent[s] + 1 \in Nat
                /\ sent' = [sent EXCEPT ![s] = @ + 1]
                /\ Anywhere' = Anywhere \cup {w}
    <2>1. PICK s \in Sessions, w \in Waves :
                /\ w.by = s /\ w.n = sent[s] + 1 /\ sent[s] + 1 \in Nat
                /\ sent' = [sent EXCEPT ![s] = @ + 1]
                /\ Anywhere' = Anywhere \cup {w}
      BY <1>2
    <2>2. sent \in [Sessions -> 0..MaxWave]
      BY DEF TypeOK
    <2>3. sent[s] \in Nat /\ sent'[s] = sent[s] + 1
          /\ \A t \in Sessions : t # s => sent'[t] = sent[t]
      BY <2>1, <2>2
    <2>4. Numbers(Anywhere') = Numbers(Anywhere) \cup {<<s, sent[s] + 1>>}
      BY <2>1 DEF Numbers
    <2>5. 1..(sent[s] + 1) = (1..sent[s]) \cup {sent[s] + 1}
      BY <2>3
    <2>6. \A t \in Sessions : {<<t, n>> : n \in 1..sent'[t]}
             = {<<t, n>> : n \in 1..sent[t]} \cup (IF t = s THEN {<<s, sent[s] + 1>>} ELSE {})
      <3> SUFFICES ASSUME NEW t \in Sessions
                   PROVE  {<<t, n>> : n \in 1..sent'[t]}
                            = {<<t, n>> : n \in 1..sent[t]}
                                \cup (IF t = s THEN {<<s, sent[s] + 1>>} ELSE {})
        OBVIOUS
      <3>1. CASE t = s
        BY <2>3, <2>5, <3>1
      <3>2. CASE t # s
        BY <2>3, <3>2
      <3> QED
        BY <3>1, <3>2
    <2>7. Sent' = Sent \cup {<<s, sent[s] + 1>>}
      BY <2>6 DEF Sent
    <2> QED
      BY <2>4, <2>7
  <1> QED
    BY <1>1, <1>2, StepMoves

\* No wave vanishes unnoticed between the session that sent it and the one that is
\* handed it: it is in a lane, in the call channel or with a session, or was given up.
THEOREM WavesAccounted == Spec => []Accounted
  BY InitTypeOK, NextTypeOK, InitAccounted, NextAccounted, PTL DEF Spec

-----------------------------------------------------------------------------
(* The order of one sender's waves.  A sender numbers its waves as it sends *)
(* them; what is further along has a smaller number than what comes behind  *)
(* it, in every lane, in the channel and from one place to the next.  Only  *)
(* a lane that has turned loses that, and the session that it turned away   *)
(* from does not come back.                                                 *)

\* The wave v was sent before the wave w, if they have the same sender.
Later(v, w) == v.by = w.by => v.n < w.n

\* The waves v and w are not the same.
Apart(v, w) == v.by = w.by => v.n # w.n

Ascending(q) == \A i, j \in 1..Len(q) : i < j => Later(q[i], q[j])
Unlike(q) == \A i, j \in 1..Len(q) : i # j => Apart(q[i], q[j])

\* Nobody else has the surface of s.
Alone(s) == \A t \in Sessions \ {s} : Remote(t) # Remote(s)

\* The session s is in, or may yet get in.
Present(s) == phase[s] \in Entering \cup {"in"}

\* Waves wait with the forwarder of their sender; those of a control driver's hub
\* have none.
AtHome ==
    /\ \A x \in Surfaces : \A w \in Range(inbound[x]) : Remote(w.by) = x
    /\ kind = "control" => inbound[Hub] = <<>>

InboundInOrder == \A x \in Surfaces : Ascending(inbound[x])
CallsInOrder ==
    \A i, j \in 1..Len(calls) :
        i < j /\ calls[i].op = "Wave" /\ calls[j].op = "Wave"
          => Later(calls[i].arg, calls[j].arg)

\* From the forwarders to the channel, and from there to lanes and sessions.
StagesInOrder ==
    /\ \A v \in InCalls, w \in Enqueued : Later(v, w)
    /\ \A v \in Passing \cup Received, w \in InCalls \cup Enqueued : Later(v, w)

\* Once: no two waves in a lane, with a session, or one in each, are the same.
HandedOnce ==
    /\ \A x \in Surfaces : Unlike(outbound[x])
    /\ \A s \in Sessions : Unlike(got[s])
    /\ \A s \in Sessions : \A v \in Range(got[s]), w \in Range(outbound[Remote(s)]) : Apart(v, w)

\* In order, to a session alone on its surface.
HandedInOrder ==
    \A s \in Sessions : Alone(s) =>
        /\ Ascending(got[s])
        /\ Present(s) =>
              /\ Ascending(outbound[Remote(s)])
              /\ \A v \in Range(got[s]), w \in Range(outbound[Remote(s)]) : Later(v, w)

\* A session listens only after its Mount was taken, which it posts once.
MountedOnce ==
    /\ \A x \in Surfaces : listener[x] # None => phase[listener[x]] \notin Entering
    /\ \A i \in 1..Len(calls) :
          calls[i].op = "Mount" => phase[calls[i].arg] \notin {"out", "added"}

WavesInOrder == InboundInOrder /\ CallsInOrder /\ StagesInOrder /\ HandedOnce /\ HandedInOrder
OrderInv == AtHome /\ MountedOnce /\ WavesInOrder

\* Not the same goes both ways, and follows from the order.
LEMMA WaveOrder ==
    /\ \A v, w : Apart(v, w) <=> Apart(w, v)
    /\ \A v, w \in Waves : Later(v, w) => Apart(v, w)
  BY DEF Later, Apart, Waves, Wave

\* The waves of a queue in order, when its first is taken, and when one more comes.
LEMMA AscendingFacts ==
    ASSUME NEW q \in Seq(Waves), Ascending(q)
    PROVE  /\ q # <<>> => Ascending(Tail(q)) /\ \A w \in Range(Tail(q)) : Later(Head(q), w)
           /\ \A e \in Waves : (\A v \in Range(q) : Later(v, e)) => Ascending(Append(q, e))
  <1>1. Len(q) \in Nat /\ DOMAIN q = 1..Len(q)
    OBVIOUS
  <1>2. ASSUME q # <<>>
        PROVE  Ascending(Tail(q)) /\ \A w \in Range(Tail(q)) : Later(Head(q), w)
    <2>1. /\ Head(q) = q[1] /\ Len(Tail(q)) = Len(q) - 1 /\ DOMAIN Tail(q) = 1..(Len(q) - 1)
          /\ \A i \in 1..(Len(q) - 1) : Tail(q)[i] = q[i + 1]
      BY <1>2
    <2>2. \A i \in 1..(Len(q) - 1) : i + 1 \in 1..Len(q) /\ 1 < i + 1
      BY <1>1
    <2>3. \A i, j \in 1..(Len(q) - 1) : i < j => i + 1 < j + 1
      OBVIOUS
    <2>4. Ascending(Tail(q))
      BY <2>1, <2>2, <2>3 DEF Ascending
    <2>5. 1 \in 1..Len(q)
      BY <1>1, <1>2
    <2>6. \A i \in 1..(Len(q) - 1) : Later(Head(q), Tail(q)[i])
      BY <2>1, <2>2, <2>5 DEF Ascending
    <2> QED
      BY <2>1, <2>4, <2>6 DEF Range
  <1>3. ASSUME NEW e \in Waves, \A v \in Range(q) : Later(v, e)
        PROVE  Ascending(Append(q, e))
    <2> DEFINE r == Append(q, e)
    <2>1. /\ Len(r) = Len(q) + 1 /\ r[Len(q) + 1] = e
          /\ \A i \in 1..Len(q) : r[i] = q[i]
      OBVIOUS
    <2>2. \A i \in 1..Len(q) : Later(q[i], e)
      BY <1>1, <1>3 DEF Range
    <2> HIDE DEF r
    <2>3. \A i, j \in 1..Len(r) : i < j => i \in 1..Len(q) /\ (j \in 1..Len(q) \/ j = Len(q) + 1)
      BY <1>1, <2>1
    <2> QED
      <3>1. Ascending(r)
        BY <2>1, <2>2, <2>3 DEF Ascending
      <3> QED
        BY <3>1 DEF r
  <1> QED
    BY <1>2, <1>3

\* The same of a queue in which no wave is twice; it may also turn.
LEMMA UnlikeFacts ==
    ASSUME NEW q \in Seq(Waves), Unlike(q)
    PROVE  /\ q # <<>> => Unlike(Tail(q)) /\ \A w \in Range(Tail(q)) : Apart(Head(q), w)
           /\ \A e \in Waves : (\A v \in Range(q) : Apart(v, e)) => Unlike(Append(q, e))
           /\ \A k \in 1..Len(q) : Unlike(SubSeq(q, k + 1, Len(q)) \o SubSeq(q, 1, k))
  <1>1. Len(q) \in Nat /\ DOMAIN q = 1..Len(q)
    OBVIOUS
  <1>2. ASSUME q # <<>>
        PROVE  Unlike(Tail(q)) /\ \A w \in Range(Tail(q)) : Apart(Head(q), w)
    <2>1. /\ Head(q) = q[1] /\ Len(Tail(q)) = Len(q) - 1 /\ DOMAIN Tail(q) = 1..(Len(q) - 1)
          /\ \A i \in 1..(Len(q) - 1) : Tail(q)[i] = q[i + 1]
      BY <1>2
    <2>2. \A i \in 1..(Len(q) - 1) : i + 1 \in 1..Len(q) /\ 1 # i + 1
      BY <1>1
    <2>3. \A i, j \in 1..(Len(q) - 1) : i # j => i + 1 # j + 1
      OBVIOUS
    <2>4. Unlike(Tail(q))
      BY <2>1, <2>2, <2>3 DEF Unlike
    <2>5. 1 \in 1..Len(q)
      BY <1>1, <1>2
    <2>6. \A i \in 1..(Len(q) - 1) : Apart(Head(q), Tail(q)[i])
      BY <2>1, <2>2, <2>5 DEF Unlike
    <2> QED
      BY <2>1, <2>4, <2>6 DEF Range
  <1>3. ASSUME NEW e \in Waves, \A v \in Range(q) : Apart(v, e)
        PROVE  Unlike(Append(q, e))
    <2> DEFINE r == Append(q, e)
    <2>1. /\ Len(r) = Len(q) + 1 /\ r[Len(q) + 1] = e
          /\ \A i \in 1..Len(q) : r[i] = q[i]
      OBVIOUS
    <2>2. \A i \in 1..Len(q) : Apart(q[i], e) /\ Apart(e, q[i])
      BY <1>1, <1>3, WaveOrder DEF Range
    <2> HIDE DEF r
    <2>3. \A i \in 1..Len(r) : i \in 1..Len(q) \/ i = Len(q) + 1
      BY <1>1, <2>1
    <2> QED
      <3>1. Unlike(r)
        BY <2>1, <2>2, <2>3 DEF Unlike
      <3> QED
        BY <3>1 DEF r
  <1>4. ASSUME NEW k \in 1..Len(q)
        PROVE  Unlike(SubSeq(q, k + 1, Len(q)) \o SubSeq(q, 1, k))
    <2> DEFINE r == SubSeq(q, k + 1, Len(q)) \o SubSeq(q, 1, k)
               at(i) == IF i <= Len(q) - k THEN i + k ELSE i - (Len(q) - k)
    <2>1. /\ Len(r) = Len(q)
          /\ \A i \in 1..Len(q) : at(i) \in 1..Len(q) /\ r[i] = q[at(i)]
          /\ \A i, j \in 1..Len(q) : at(i) = at(j) => i = j
      BY TurnElements
    <2> HIDE DEF r, at
    <2> QED
      <3>1. ASSUME NEW i \in 1..Len(r), NEW j \in 1..Len(r), i # j
            PROVE  Apart(r[i], r[j])
        <4>1. at(i) \in 1..Len(q) /\ at(j) \in 1..Len(q) /\ at(i) # at(j)
          BY <2>1, <3>1
        <4> QED
          BY <2>1, <4>1 DEF Unlike
      <3> QED
        BY <3>1 DEF r, Unlike
  <1> QED
    BY <1>2, <1>3, <1>4

\* The order of the waves in the call channel, when a call is taken and when one is posted.
LEMMA CallsOrder ==
    ASSUME TypeOK, CallsInOrder
    PROVE  /\ \A op : Recv(op) => /\ CallsInOrder'
                                  /\ op = "Wave" => \A w \in InCalls' : Later(First.arg, w)
           /\ \A c \in Calls :
                 /\ calls' = Append(calls, c)
                 /\ c.op = "Wave" => \A v \in InCalls : Later(v, c.arg)
                 => CallsInOrder'
           /\ calls' = calls => CallsInOrder'
  <1>1. \A w : w \in InCalls <=> \E i \in 1..Len(calls) : calls[i].op = "Wave" /\ calls[i].arg = w
    BY CallWaves
  <1>2. Len(calls) \in Nat
    BY DEF TypeOK
  <1>3. ASSUME NEW op, Recv(op)
        PROVE  CallsInOrder' /\ (op = "Wave" => \A w \in InCalls' : Later(First.arg, w))
    <2>1. /\ First = calls[1] /\ First.op = op /\ 1 \in 1..Len(calls)
          /\ \A i \in 1..Len(calls') : i + 1 \in 1..Len(calls) /\ calls'[i] = calls[i + 1]
      BY <1>3, TakeFacts
    <2>2. DOMAIN calls' = 1..Len(calls') /\ Len(calls') \in Nat
      BY <1>3 DEF TypeOK, Recv
    <2>3. \A i, j \in 1..Len(calls') : i < j => i + 1 < j + 1
      BY <2>2
    <2>4. CallsInOrder'
      BY <2>1, <2>3 DEF CallsInOrder
    <2>5. \A i \in 1..Len(calls') : 1 < i + 1
      BY <2>2
    <2>6. op = "Wave" => \A i \in 1..Len(calls') :
                            calls'[i].op = "Wave" => Later(First.arg, calls'[i].arg)
      BY <2>1, <2>5 DEF CallsInOrder
    <2>7. \A w \in InCalls' : \E i \in 1..Len(calls') : calls'[i].op = "Wave" /\ calls'[i].arg = w
      BY <2>2 DEF InCalls
    <2> QED
      BY <2>4, <2>6, <2>7
  <1>4. ASSUME NEW c \in Calls, calls' = Append(calls, c),
               c.op = "Wave" => \A v \in InCalls : Later(v, c.arg)
        PROVE  CallsInOrder'
    <2>1. /\ Len(calls') = Len(calls) + 1 /\ calls'[Len(calls) + 1] = c
          /\ \A i \in 1..Len(calls) : calls'[i] = calls[i]
      BY <1>4, PostFacts
    <2>2. \A i, j \in 1..Len(calls') :
             i < j => i \in 1..Len(calls) /\ (j \in 1..Len(calls) \/ j = Len(calls) + 1)
      BY <1>2, <2>1
    <2>3. c.op = "Wave" => \A i \in 1..Len(calls) : calls[i].op = "Wave" => Later(calls[i].arg, c.arg)
      BY <1>1, <1>4
    <2> QED
      BY <2>1, <2>2, <2>3 DEF CallsInOrder
  <1>5. calls' = calls => CallsInOrder'
    BY DEF CallsInOrder
  <1> QED
    BY <1>3, <1>4, <1>5

\* A wave that is just being sent was sent after all that are anywhere.
LEMMA NewestWave ==
    ASSUME TypeOK, Accounted, NEW s \in Sessions, NEW w, w.by = s, w.n = sent[s] + 1
    PROVE  \A v \in Anywhere : Later(v, w)
  <1> SUFFICES ASSUME NEW v \in Anywhere, v.by = s PROVE v.n < w.n
    BY DEF Later
  <1>1. <<v.by, v.n>> \in Sent
    BY AccountedMeans DEF Numbers
  <1>2. v.n \in 1..sent[s] /\ sent[s] \in Nat
    BY <1>1 DEF Sent, TypeOK
  <1> QED
    BY <1>2

\* The waves that wait with different forwarders are of different senders.
LEMMA HomesApart ==
    ASSUME AtHome
    PROVE  \A x, y \in Surfaces : x # y =>
              \A v \in Range(inbound[x]), w \in Range(inbound[y]) : Later(v, w)
  BY DEF AtHome, Later

\* Nothing was sent, and nobody but the hub has mounted.
LEMMA InitOrderInv == Init => OrderInv
  <1> SUFFICES ASSUME Init PROVE OrderInv
    OBVIOUS
  <1>1. InCalls = {} /\ Enqueued = {} /\ Passing = {} /\ Received = {}
    BY DEF Init, InCalls, Enqueued, Passing, Received, Elements, Range
  <1>2. Range(<<>>) = {} /\ Len(<<>>) = 0
    BY DEF Range
  <1>3. Ascending(<<>>) /\ Unlike(<<>>)
    BY <1>2 DEF Ascending, Unlike
  <1>4. \A s \in Sessions : Remote(s) \in Surfaces
    BY RemoteFacts
  <1>5. AtHome
    <2>1. Hub \in Surfaces /\ \A x \in Surfaces : inbound[x] = <<>>
      BY DEF Init, Surfaces
    <2> QED
      BY <1>2, <2>1 DEF AtHome
  <1>6. InboundInOrder /\ CallsInOrder /\ StagesInOrder
    BY <1>1, <1>2, <1>3 DEF Init, InboundInOrder, CallsInOrder, StagesInOrder
  <1>7. HandedOnce /\ HandedInOrder
    <2>1. /\ \A s \in Sessions : got[s] = <<>> /\ outbound[Remote(s)] = <<>>
          /\ \A x \in Surfaces : outbound[x] = <<>>
      BY <1>4 DEF Init
    <2> QED
      BY <1>2, <1>3, <2>1 DEF HandedOnce, HandedInOrder
  <1>8. MountedOnce
    BY <1>2 DEF Init, MountedOnce, Entering, Sessions
  <1> QED
    BY <1>5, <1>6, <1>7, <1>8 DEF OrderInv, WavesInOrder

\* Only Send puts waves into an inbound lane: the sender's.
LEMMA NextAtHome == TypeOK /\ AtHome /\ [Next]_vars => AtHome'
  <1> SUFFICES ASSUME TypeOK, AtHome, [Next]_vars PROVE AtHome'
    OBVIOUS
  <1>types. inbound \in [Surfaces -> Seq(Waves)] /\ sent \in [Sessions -> 0..MaxWave]
            /\ Hub \in Surfaces /\ Hub \in Sessions
    BY DEF TypeOK, Surfaces, Sessions
  <1>same. kind' = kind /\ inbound' = inbound => AtHome'
    BY DEF AtHome
  <1>1. CASE Task
    BY <1>1, <1>same
       DEF Task, RecvInternal, RecvRemove, RecvWave, RecvMount, wayVars, laneVars
  <1>2. ASSUME NEW x \in Surfaces, Forward(x) \/ ForwardTimesOut(x) PROVE AtHome'
    <2>1. inbound[x] # <<>> /\ inbound' = [inbound EXCEPT ![x] = Tail(@)] /\ kind' = kind
      BY <1>2 DEF Forward, ForwardTimesOut, wayVars
    <2>2. inbound'[x] = Tail(inbound[x]) /\ \A y \in Surfaces : y # x => inbound'[y] = inbound[y]
      BY <1>types, <2>1
    <2>3. \A w \in Range(inbound'[x]) : w \in Range(inbound[x])
      <3>1. inbound[x] \in Seq(Waves)
        BY <1>types
      <3> QED
        BY <2>1, <2>2, <3>1, RangeFacts
    <2>4. kind = "control" => x # Hub
      BY <2>1 DEF AtHome
    <2> QED
      BY <1>types, <2>1, <2>2, <2>3, <2>4 DEF AtHome
  <1>3. ASSUME NEW x \in Surfaces, Deliver(x) \/ LoseListener(x) PROVE AtHome'
    BY <1>3, <1>same DEF Deliver, LoseListener, wayVars
  <1>4. ASSUME NEW s \in Sessions, AskMount(s) \/ GiveUp(s) \/ DropEndpoint(s) PROVE AtHome'
    BY <1>4, <1>same DEF AskMount, GiveUp, DropEndpoint, wayVars, laneVars
  <1>5. ASSUME NEW s \in Entrants, Add(s) \/ PostRemove(s) PROVE AtHome'
    BY <1>5, <1>same DEF Add, PostRemove, wayVars, laneVars
  <1>6. ASSUME NEW s \in Sessions, NEW to \in Surfaces, Send(s, to) PROVE AtHome'
    <2> DEFINE w == Stamp(s, sent'[s], to)
               x == Remote(s)
    <2>1. inbound' = [inbound EXCEPT ![x] = Append(@, w)] /\ kind' = kind
          /\ (s = Hub => kind = "star")
      BY <1>6 DEF Send, wayVars
    <2>2. x \in Surfaces /\ (x = Hub <=> s = Hub)
      BY RemoteFacts
    <2>3. w \in Waves /\ Remote(w.by) = x
      <3>1. sent'[s] \in 1..MaxWave
        BY <1>6, <1>types, NextWave DEF Send
      <3> QED
        BY <1>types, <3>1, WaveFacts DEF Stamp
    <2> HIDE DEF w, x
    <2>4. inbound'[x] = Append(inbound[x], w)
          /\ \A y \in Surfaces : y # x => inbound'[y] = inbound[y]
      BY <1>types, <2>1, <2>2
    <2>5. inbound[x] \in Seq(Waves)
      BY <1>types, <2>2
    <2>6. Range(inbound'[x]) = Range(inbound[x]) \cup {w}
      BY <2>3, <2>4, <2>5, RangeFacts
    <2>7. kind = "control" => x # Hub
      BY <2>1, <2>2
    <2> QED
      BY <1>types, <2>1, <2>2, <2>3, <2>4, <2>6, <2>7 DEF AtHome
  <1>7. ASSUME NEW to \in Surfaces, Route(to) PROVE AtHome'
    BY <1>7, <1>same DEF Route, wayVars, laneVars
  <1>8. CASE UNCHANGED vars
    BY <1>8, <1>same DEF vars
  <1> QED
    BY <1>1, <1>2, <1>3, <1>4, <1>5, <1>6, <1>7, <1>8 DEF Next

\* A Mount is posted as its session starts to wait for it, and makes a listener of the
\* session only when it is taken.
LEMMA NextMountedOnce == TypeOK /\ MountedOnce /\ [Next]_vars => MountedOnce'
  <1> SUFFICES ASSUME TypeOK, MountedOnce, [Next]_vars PROVE MountedOnce'
    OBVIOUS
  <1>types. /\ listener \in [Surfaces -> Sessions \cup {None}] /\ phase \in [Sessions -> Phases]
            /\ calls \in Seq(Calls) /\ None \notin Sessions /\ Len(calls) \in Nat
    BY InterchangeAssumption DEF TypeOK
  <1> DEFINE Posted == \A i \in 1..Len(calls) :
                          calls[i].op = "Mount" => phase[calls[i].arg] \notin {"out", "added"}
             Heard == \A x \in Surfaces : listener[x] # None => phase[listener[x]] \notin Entering
  <1>inv. Posted /\ Heard /\ (MountedOnce' <=> Posted' /\ Heard')
    BY DEF MountedOnce
  <1>mounts. \A i \in 1..Len(calls) : calls[i].op = "Mount" => calls[i].arg \in Sessions
    <2>1. \A i \in 1..Len(calls) : calls[i] \in Calls
      BY <1>types
    <2> QED
      BY <2>1, CallKinds
  <1>recv. ASSUME NEW op, Recv(op)
           PROVE  /\ \A i \in 1..Len(calls') : i + 1 \in 1..Len(calls) /\ calls'[i] = calls[i + 1]
                  /\ First = calls[1] /\ First.op = op /\ 1 \in 1..Len(calls)
    BY <1>recv, TakeFacts
  <1>post. ASSUME NEW c \in Calls, calls' = Append(calls, c)
           PROVE  \A i \in 1..Len(calls') : (i \in 1..Len(calls) /\ calls'[i] = calls[i]) \/ calls'[i] = c
    <2>1. /\ Len(calls') = Len(calls) + 1 /\ calls'[Len(calls) + 1] = c
          /\ \A i \in 1..Len(calls) : calls'[i] = calls[i]
      BY <1>post, PostFacts
    <2> QED
      BY <1>types, <2>1
  <1>heard. \A x \in Surfaces : listener[x] # None => listener[x] \in Sessions
    BY <1>types
  <1>1. CASE RecvInternal \/ RecvRemove \/ RecvWave
    <2>1. PICK op \in {"Internal", "Remove", "Wave"} : Recv(op)
      BY <1>1 DEF RecvInternal, RecvRemove, RecvWave
    <2>2. listener' = listener /\ phase' = phase
      BY <1>1 DEF RecvInternal, RecvRemove, RecvWave, laneVars
    <2> QED
      BY <1>inv, <1>recv, <2>1, <2>2
  <1>2. CASE RecvMount
    <2> DEFINE s == First.arg
    <2>1. Recv("Mount") /\ s \in Sessions /\ phase[s] \notin {"out", "added"} /\ Remote(s) \in Surfaces
      BY <1>2, <1>inv, <1>recv, <1>mounts, RemoteFacts DEF RecvMount
    <2>2. /\ listener' = listener \/ listener' = [listener EXCEPT ![Remote(s)] = s]
          /\ \/ phase' = phase /\ phase[s] # "mounting"
             \/ phase' = [phase EXCEPT ![s] = "in"]
             \/ phase' = [phase EXCEPT ![s] = "refused"]
      BY <1>2 DEF RecvMount
    <2> HIDE DEF s
    <2>3. /\ phase'[s] \notin Entering
          /\ \A t \in Sessions : t # s => phase'[t] = phase[t]
      BY <1>types, <2>1, <2>2 DEF Entering
    <2>4. Posted'
      BY <1>inv, <1>recv, <1>mounts, <2>1, <2>3 DEF Entering
    <2>5. \A x \in Surfaces : listener'[x] = listener[x] \/ listener'[x] = s
      BY <1>types, <2>1, <2>2
    <2>6. Heard'
      BY <1>inv, <1>heard, <2>3, <2>5
    <2> QED
      BY <1>inv, <2>4, <2>6
  <1>3. ASSUME NEW x \in Surfaces, Forward(x) PROVE MountedOnce'
    <2>1. /\ calls' = Append(calls, WaveCall(Head(inbound[x]))) /\ phase' = phase
          /\ listener' = listener /\ inbound[x] # <<>>
      BY <1>3 DEF Forward
    <2>2. Head(inbound[x]) \in Waves
      BY <2>1 DEF TypeOK
    <2> DEFINE c == WaveCall(Head(inbound[x]))
    <2>3. c \in Calls /\ c.op = "Wave"
      BY <2>2, CallFacts
    <2> HIDE DEF c
    <2>4. calls' = Append(calls, c)
      BY <2>1 DEF c
    <2> QED
      BY <1>inv, <1>post, <2>1, <2>3, <2>4
  <1>4. ASSUME NEW x \in Surfaces, ForwardTimesOut(x) \/ Deliver(x) PROVE MountedOnce'
    BY <1>4 DEF ForwardTimesOut, Deliver, MountedOnce
  <1>5. ASSUME NEW x \in Surfaces, LoseListener(x) PROVE MountedOnce'
    <2>1. listener' = [listener EXCEPT ![x] = None] /\ phase' = phase /\ calls' = calls
      BY <1>5 DEF LoseListener
    <2>2. \A y \in Surfaces : listener'[y] # None => listener'[y] = listener[y]
      BY <1>types, <2>1
    <2> QED
      BY <1>inv, <2>1, <2>2
  <1>6. ASSUME NEW s \in Sessions \ {Hub}, AskMount(s) PROVE MountedOnce'
    <2>1. /\ phase[s] \in {"out", "added"} /\ phase' = [phase EXCEPT ![s] = "mounting"]
          /\ calls' = Append(calls, Mount(s)) /\ listener' = listener
      BY <1>6 DEF AskMount, laneVars
    <2>2. phase'[s] = "mounting" /\ \A t \in Sessions : t # s => phase'[t] = phase[t]
      BY <1>types, <2>1
    <2> DEFINE c == Mount(s)
    <2>3. c \in Calls /\ c.arg = s
      BY CallFacts
    <2>4. calls' = Append(calls, c)
      BY <2>1
    <2> HIDE DEF c
    <2>5. Posted'
      BY <1>inv, <1>post, <1>mounts, <2>2, <2>3, <2>4
    <2>6. Heard'
      BY <1>inv, <1>heard, <2>1, <2>2 DEF Entering
    <2> QED
      BY <1>inv, <2>5, <2>6
  <1>7. ASSUME NEW s \in Sessions, GiveUp(s) \/ DropEndpoint(s) PROVE MountedOnce'
    <2>1. /\ phase' = [phase EXCEPT ![s] = "gaveUp"] \/ phase' = [phase EXCEPT ![s] = "dropped"]
             \/ phase' = [phase EXCEPT ![s] = "gone"]
          /\ calls' = calls /\ listener' = listener
      BY <1>7 DEF GiveUp, DropEndpoint, laneVars
    <2>2. phase'[s] \notin Entering /\ \A t \in Sessions : t # s => phase'[t] = phase[t]
      BY <1>types, <2>1 DEF Entering
    <2> QED
      BY <1>inv, <1>heard, <1>mounts, <2>1, <2>2 DEF Entering
  <1>8. ASSUME NEW s \in Entrants, Add(s) PROVE MountedOnce'
    <2>1. /\ phase[s] = "out" /\ phase' = [phase EXCEPT ![s] = "added"]
          /\ calls' = Append(calls, Internal(s)) /\ listener' = listener
      BY <1>8 DEF Add, laneVars
    <2>2. s \in Sessions
      BY DEF Sessions
    <2>3. \A t \in Sessions : t # s => phase'[t] = phase[t]
      BY <1>types, <2>1
    <2> DEFINE c == Internal(s)
    <2>4. c \in Calls /\ c.op = "Internal"
      BY CallFacts
    <2>5. calls' = Append(calls, c)
      BY <2>1
    <2> HIDE DEF c
    <2>6. Posted'
      BY <1>inv, <1>post, <1>mounts, <2>1, <2>3, <2>4, <2>5
    <2>7. Heard'
      BY <1>inv, <1>heard, <2>1, <2>3 DEF Entering
    <2> QED
      BY <1>inv, <2>6, <2>7
  <1>9. ASSUME NEW s \in Entrants, PostRemove(s) PROVE MountedOnce'
    <2>1. /\ phase' = [phase EXCEPT ![s] = "gone"]
          /\ calls' = Append(calls, Remove(s)) /\ listener' = listener
      BY <1>9 DEF PostRemove, laneVars
    <2>2. s \in Sessions
      BY DEF Sessions
    <2>3. phase'[s] = "gone" /\ \A t \in Sessions : t # s => phase'[t] = phase[t]
      BY <1>types, <2>1, <2>2
    <2> DEFINE c == Remove(s)
    <2>4. c \in Calls /\ c.op = "Remove"
      BY CallFacts
    <2>5. calls' = Append(calls, c)
      BY <2>1
    <2> HIDE DEF c
    <2>6. Posted'
      BY <1>inv, <1>post, <1>mounts, <2>3, <2>4, <2>5
    <2>7. Heard'
      BY <1>inv, <1>heard, <2>1, <2>3 DEF Entering
    <2> QED
      BY <1>inv, <2>6, <2>7
  <1>10. ASSUME NEW s \in Sessions, NEW to \in Surfaces, Send(s, to) PROVE MountedOnce'
    BY <1>10 DEF Send, MountedOnce
  <1>11. ASSUME NEW to \in Surfaces, Route(to) PROVE MountedOnce'
    <2>1. calls' = Append(calls, WaveCall(Wave(Hub, sent'[Hub], to)))
          /\ phase' = phase /\ listener' = listener
      BY <1>11 DEF Route, laneVars
    <2>2. sent'[Hub] \in 1..MaxWave /\ Hub \in Sessions
      BY <1>11, NextWave DEF Route, TypeOK, Sessions
    <2> DEFINE c == WaveCall(Wave(Hub, sent'[Hub], to))
    <2>3. c \in Calls /\ c.op = "Wave"
      BY <2>2, WaveFacts, CallFacts
    <2>4. calls' = Append(calls, c)
      BY <2>1
    <2> HIDE DEF c
    <2> QED
      BY <1>inv, <1>post, <2>1, <2>3, <2>4
  <1>12. CASE UNCHANGED vars
    BY <1>12 DEF vars, MountedOnce
  <1> QED
    BY <1>1, <1>2, <1>3, <1>4, <1>5, <1>6, <1>7, <1>8, <1>9, <1>10, <1>11, <1>12 DEF Next, Task

\* Where a wave is said to be.
LEMMA Whereabouts ==
    /\ \A w : w \in Enqueued <=> \E x \in Surfaces : w \in Range(inbound[x])
    /\ \A w : w \in Passing <=> \E x \in Surfaces : w \in Range(outbound[x])
    /\ \A w : w \in Received <=> \E s \in Sessions : w \in Range(got[s])
    /\ TypeOK => InCalls \subseteq Waves /\ Enqueued \subseteq Waves
                   /\ Passing \subseteq Waves /\ Received \subseteq Waves
  <1>1. \A w : w \in Enqueued <=> \E x \in Surfaces : w \in Range(inbound[x])
    BY DEF Enqueued, Elements
  <1>2. \A w : w \in Passing <=> \E x \in Surfaces : w \in Range(outbound[x])
    BY DEF Passing, Elements
  <1>3. \A w : w \in Received <=> \E s \in Sessions : w \in Range(got[s])
    BY DEF Received
  <1>4. ASSUME TypeOK
        PROVE  InCalls \subseteq Waves /\ Enqueued \subseteq Waves
                 /\ Passing \subseteq Waves /\ Received \subseteq Waves
    <2>1. \A q \in Seq(Waves) : Range(q) \subseteq Waves
      BY DEF Range
    <2>2. InCalls \subseteq Waves
      <3>1. \A i \in 1..Len(calls) : calls[i] \in Calls
        BY <1>4 DEF TypeOK
      <3> QED
        BY <1>4, <3>1, CallWaves, CallKinds
    <2> QED
      BY <1>1, <1>2, <1>3, <1>4, <2>1, <2>2 DEF TypeOK
  <1> QED
    BY <1>1, <1>2, <1>3, <1>4

\* A step that leaves the waves where they are, or takes some from the channel, and lets
\* nobody in keeps their order.
LEMMA StillInOrder ==
    ASSUME WavesInOrder, UNCHANGED <<inbound, outbound, got>>,
           CallsInOrder', InCalls' \subseteq InCalls,
           \A s \in Sessions : Present(s)' => Present(s)
    PROVE  WavesInOrder'
  <1>1. Enqueued' = Enqueued /\ Passing' = Passing /\ Received' = Received
    BY DEF Enqueued, Passing, Received, Elements
  <1>2. InboundInOrder' /\ HandedOnce'
    BY DEF WavesInOrder, InboundInOrder, HandedOnce
  <1>3. StagesInOrder'
    BY <1>1 DEF WavesInOrder, StagesInOrder
  <1>4. HandedInOrder'
    BY DEF WavesInOrder, HandedInOrder
  <1> QED
    BY <1>2, <1>3, <1>4 DEF WavesInOrder

\* A wave enters the interchange behind all others.
LEMMA SendInOrder ==
    ASSUME TypeOK, Accounted, OrderInv,
           NEW s \in Sessions, NEW to \in Surfaces, Send(s, to) \/ (s = Hub /\ Route(to))
    PROVE  WavesInOrder'
  <1> DEFINE w == IF Send(s, to) THEN Stamp(s, sent'[s], to) ELSE Wave(Hub, sent'[Hub], to)
             x == Remote(s)
  <1>types. /\ inbound \in [Surfaces -> Seq(Waves)] /\ sent \in [Sessions -> 0..MaxWave]
            /\ Hub \in Sessions /\ Hub \in Surfaces
    BY DEF TypeOK, Sessions, Surfaces
  <1>1. sent'[s] = sent[s] + 1 /\ sent'[s] \in 1..MaxWave
    BY <1>types, NextWave DEF Send, Route
  <1>2. w \in Waves /\ w.by = s /\ w.n = sent[s] + 1
    <2>1. CASE Send(s, to)
      <3>1. w = Stamp(s, sent'[s], to)
        BY <2>1
      <3> QED
        BY <1>1, <1>types, <3>1, WaveFacts DEF Stamp, Wave
    <2>2. CASE ~Send(s, to)
      <3>1. w = Wave(Hub, sent'[Hub], to) /\ s = Hub
        BY <2>2
      <3> QED
        BY <1>1, <1>types, <3>1, WaveFacts DEF Wave
    <2> QED
      BY <2>1, <2>2
  <1>3. \/ /\ inbound' = [inbound EXCEPT ![x] = Append(@, w)]
           /\ UNCHANGED <<calls, outbound, got, phase>>
        \/ /\ kind = "control" /\ s = Hub
           /\ calls' = Append(calls, WaveCall(w))
           /\ UNCHANGED <<inbound, outbound, got, phase>>
    BY DEF Send, Route, laneVars
  <1> HIDE DEF w, x
  <1>4. \A v \in Anywhere : Later(v, w)
    BY <1>2, NewestWave
  <1>5. \A v \in InCalls \cup Enqueued \cup Passing \cup Received : Later(v, w)
    BY <1>4 DEF Anywhere
  <1>6. outbound' = outbound /\ got' = got /\ phase' = phase
    BY <1>3
  <1>7. HandedOnce' /\ HandedInOrder' /\ Passing' = Passing /\ Received' = Received
    BY <1>6 DEF OrderInv, WavesInOrder, HandedOnce, HandedInOrder, Present, Passing, Received, Elements
  <1>8. InboundInOrder /\ CallsInOrder /\ StagesInOrder /\ AtHome
    BY DEF OrderInv, WavesInOrder
  <1>9. ASSUME inbound' = [inbound EXCEPT ![x] = Append(@, w)], calls' = calls
        PROVE  InboundInOrder' /\ CallsInOrder' /\ StagesInOrder'
    <2>1. x \in Surfaces
      BY RemoteFacts DEF x
    <2>2. inbound[x] \in Seq(Waves)
      BY <1>types, <2>1
    <2>3. inbound'[x] = Append(inbound[x], w)
          /\ \A y \in Surfaces : y # x => inbound'[y] = inbound[y]
      BY <1>types, <1>9, <2>1
    <2>4. Range(inbound'[x]) = Range(inbound[x]) \cup {w}
      BY <1>2, <2>2, <2>3, RangeFacts
    <2>5. Ascending(inbound'[x])
      <3>1. Ascending(inbound[x])
        BY <1>8, <2>1 DEF InboundInOrder
      <3>2. \A v \in Range(inbound[x]) : Later(v, w)
        BY <1>5, <2>1, Whereabouts
      <3> QED
        BY <1>2, <2>2, <2>3, <3>1, <3>2, AscendingFacts
    <2>6. InboundInOrder'
      BY <1>8, <2>3, <2>5 DEF InboundInOrder
    <2>7. \A v \in Enqueued' : v \in Enqueued \/ v = w
      <3>1. \A v : v \in Enqueued' <=> \E y \in Surfaces : v \in Range(inbound'[y])
        BY DEF Enqueued, Elements
      <3> QED
        BY <2>3, <2>4, <3>1, Whereabouts
    <2>8. InCalls' = InCalls
      BY <1>9 DEF InCalls
    <2>9. StagesInOrder'
      BY <1>5, <1>7, <1>8, <2>7, <2>8 DEF StagesInOrder
    <2> QED
      BY <1>8, <1>9, <2>6, <2>9, CallsOrder
  <1>10. ASSUME kind = "control", s = Hub, calls' = Append(calls, WaveCall(w)), inbound' = inbound
         PROVE  InboundInOrder' /\ CallsInOrder' /\ StagesInOrder'
    <2>1. InboundInOrder' /\ Enqueued' = Enqueued
      BY <1>8, <1>10 DEF InboundInOrder, Enqueued, Elements
    <2>2. WaveCall(w) \in Calls /\ WaveCall(w).op = "Wave" /\ WaveCall(w).arg = w
      BY <1>2, CallFacts
    <2> DEFINE c == WaveCall(w)
    <2>3. c \in Calls /\ c.op = "Wave" /\ c.arg = w /\ calls' = Append(calls, c)
      BY <1>10, <2>2
    <2> HIDE DEF c
    <2>4. InCalls' = InCalls \cup {w}
      BY <2>3, CallWaves
    <2>5. CallsInOrder'
      BY <1>5, <1>8, <2>3, CallsOrder
    <2>6. \A u \in Enqueued : Later(w, u)
      <3>1. \A y \in Surfaces : \A u \in Range(inbound[y]) : u.by = Hub => y = Hub
        BY <1>8, <1>types, RemoteFacts DEF AtHome
      <3>2. Range(inbound[Hub]) = {}
        BY <1>8, <1>10 DEF AtHome, Range
      <3> QED
        BY <1>2, <1>10, <3>1, <3>2, Whereabouts DEF Later
    <2>7. StagesInOrder'
      BY <1>5, <1>7, <1>8, <2>1, <2>4, <2>6 DEF StagesInOrder
    <2> QED
      BY <2>1, <2>5, <2>7
  <1> QED
    BY <1>3, <1>7, <1>9, <1>10 DEF WavesInOrder

\* A forwarder moves the first wave of its lane to the end of the channel, or drops it.
LEMMA ForwardInOrder ==
    ASSUME TypeOK, OrderInv, NEW x \in Surfaces, Forward(x) \/ ForwardTimesOut(x)
    PROVE  WavesInOrder'
  <1> DEFINE h == Head(inbound[x])
  <1>types. inbound \in [Surfaces -> Seq(Waves)]
    BY DEF TypeOK
  <1>1. /\ inbound[x] # <<>> /\ inbound' = [inbound EXCEPT ![x] = Tail(@)]
        /\ calls' = Append(calls, WaveCall(h)) \/ calls' = calls
        /\ outbound' = outbound /\ got' = got /\ phase' = phase
    BY DEF Forward, ForwardTimesOut, waveVars
  <1>2. h \in Waves /\ inbound[x] \in Seq(Waves)
    BY <1>1, <1>types
  <1>3. InboundInOrder /\ CallsInOrder /\ StagesInOrder /\ AtHome
    BY DEF OrderInv, WavesInOrder
  <1>4. Ascending(Tail(inbound[x])) /\ \A w \in Range(Tail(inbound[x])) : Later(h, w)
    BY <1>1, <1>2, <1>3, AscendingFacts DEF InboundInOrder
  <1>5. Range(inbound[x]) = Range(Tail(inbound[x])) \cup {h}
    BY <1>1, <1>2, RangeFacts
  <1> HIDE DEF h
  <1>6. inbound'[x] = Tail(inbound[x]) /\ \A y \in Surfaces : y # x => inbound'[y] = inbound[y]
    BY <1>1, <1>types
  <1>7. InboundInOrder'
    BY <1>3, <1>4, <1>6 DEF InboundInOrder
  <1>8. HandedOnce' /\ HandedInOrder' /\ Passing' = Passing /\ Received' = Received
    BY <1>1 DEF OrderInv, WavesInOrder, HandedOnce, HandedInOrder, Present, Passing, Received, Elements
  <1>9. h \in Enqueued /\ \A w \in Enqueued' : w \in Enqueued /\ Later(h, w)
    <2>1. \A w : w \in Enqueued' <=> \E y \in Surfaces : w \in Range(inbound'[y])
      BY DEF Enqueued, Elements
    <2>2. h \in Range(inbound[x])
      BY <1>5
    <2>3. \A y \in Surfaces : y # x => \A w \in Range(inbound[y]) : Later(h, w)
      BY <1>3, <2>2, HomesApart
    <2> QED
      BY <1>4, <1>5, <1>6, <2>1, <2>2, <2>3, Whereabouts
  <1>10. \A v \in InCalls : Later(v, h)
    BY <1>3, <1>9 DEF StagesInOrder
  <1>11. CallsInOrder' /\ \A w \in InCalls' : w \in InCalls \/ w = h
    <2>1. CASE calls' = calls
      BY <1>3, <2>1, CallsOrder, CallWaves
    <2>2. CASE calls' = Append(calls, WaveCall(h))
      <3> DEFINE c == WaveCall(h)
      <3>1. c \in Calls /\ c.op = "Wave" /\ c.arg = h /\ calls' = Append(calls, c)
        BY <1>2, <2>2, CallFacts
      <3> HIDE DEF c
      <3> QED
        BY <1>3, <1>10, <3>1, CallsOrder, CallWaves
    <2> QED
      BY <1>1, <2>1, <2>2
  <1>12. StagesInOrder'
    BY <1>3, <1>8, <1>9, <1>11 DEF StagesInOrder
  <1> QED
    BY <1>7, <1>8, <1>11, <1>12 DEF WavesInOrder

\* The interchange takes the first wave of the channel to the end of its lane, where it
\* may push out the oldest, or drops it.
LEMMA RecvInOrder ==
    ASSUME TypeOK, OrderInv, RecvWave
    PROVE  WavesInOrder'
  <1> DEFINE w == First.arg
             x == w.to
             lane == outbound[x]
  <1>types. outbound \in [Surfaces -> Seq(Waves)]
    BY DEF TypeOK
  <1>1. Recv("Wave") /\ inbound' = inbound /\ got' = got /\ phase' = phase
    BY DEF RecvWave
  <1>2. w \in Waves /\ x \in Surfaces
    <2>1. First \in Calls /\ First.op = "Wave"
      BY <1>1, TakeFacts
    <2> QED
      BY <2>1, CallKinds, WaveFacts
  <1>3. \/ outbound' = [outbound EXCEPT ![x] = Append(@, w)]
        \/ Len(lane) >= LaneCap /\ outbound' = [outbound EXCEPT ![x] = Append(Tail(@), w)]
        \/ outbound' = outbound
    BY DEF RecvWave
  <1>4. InboundInOrder /\ CallsInOrder /\ StagesInOrder /\ HandedOnce /\ HandedInOrder
    BY DEF OrderInv, WavesInOrder
  <1>5. InCalls = InCalls' \cup {w}
    BY <1>1, CallWaves
  <1>6. CallsInOrder' /\ \A v \in InCalls' : Later(w, v)
    BY <1>1, <1>4, CallsOrder
  <1> HIDE DEF w, x, lane
  <1>7. lane \in Seq(Waves) /\ lane = outbound[x]
    BY <1>2, <1>types DEF lane
  <1>8. \A v \in Passing \cup Received : Later(v, w) /\ Apart(v, w)
    BY <1>2, <1>4, <1>5, WaveOrder, Whereabouts DEF StagesInOrder
  <1>9. \A v \in Range(lane) : Later(v, w) /\ Apart(v, w)
    BY <1>2, <1>7, <1>8, Whereabouts
  <1>10. ASSUME NEW q \in Seq(Waves), Range(q) \subseteq Range(lane)
         PROVE  /\ Ascending(q) => Ascending(Append(q, w))
                /\ Unlike(q) => Unlike(Append(q, w))
                /\ Range(Append(q, w)) \subseteq Range(lane) \cup {w}
    BY <1>2, <1>9, <1>10, AscendingFacts, UnlikeFacts, RangeFacts
  <1>11. Len(lane) >= LaneCap =>
            /\ Tail(lane) \in Seq(Waves) /\ Range(Tail(lane)) \subseteq Range(lane)
            /\ Ascending(lane) => Ascending(Tail(lane))
            /\ Unlike(lane) => Unlike(Tail(lane))
    <2> SUFFICES ASSUME lane # <<>>
                 PROVE  /\ Tail(lane) \in Seq(Waves) /\ Range(Tail(lane)) \subseteq Range(lane)
                        /\ Ascending(lane) => Ascending(Tail(lane))
                        /\ Unlike(lane) => Unlike(Tail(lane))
      BY InterchangeAssumption
    <2> QED
      BY <1>7, AscendingFacts, UnlikeFacts, RangeFacts
  <1>12. /\ \A y \in Surfaces : y # x => outbound'[y] = outbound[y]
         /\ Ascending(lane) => Ascending(outbound'[x])
         /\ Unlike(lane) => Unlike(outbound'[x])
         /\ Range(outbound'[x]) \subseteq Range(lane) \cup {w}
    <2>1. CASE outbound' = [outbound EXCEPT ![x] = Append(@, w)]
      <3>1. outbound'[x] = Append(lane, w) /\ \A y \in Surfaces : y # x => outbound'[y] = outbound[y]
        BY <1>2, <1>7, <1>types, <2>1
      <3> QED
        BY <1>7, <1>10, <3>1
    <2>2. CASE Len(lane) >= LaneCap /\ outbound' = [outbound EXCEPT ![x] = Append(Tail(@), w)]
      <3>1. outbound'[x] = Append(Tail(lane), w)
            /\ \A y \in Surfaces : y # x => outbound'[y] = outbound[y]
        BY <1>2, <1>7, <1>types, <2>2
      <3> QED
        BY <1>10, <1>11, <2>2, <3>1
    <2>3. CASE outbound' = outbound
      BY <1>7, <2>3
    <2> QED
      BY <1>3, <2>1, <2>2, <2>3
  <1>13. Enqueued' = Enqueued /\ Received' = Received /\ InboundInOrder'
    BY <1>1, <1>4 DEF Enqueued, Received, Elements, InboundInOrder
  <1>14. \A v \in Passing' : v \in Passing \/ v = w
    <2>1. \A v : v \in Passing' <=> \E y \in Surfaces : v \in Range(outbound'[y])
      BY DEF Passing, Elements
    <2> QED
      BY <1>2, <1>7, <1>12, <2>1, Whereabouts
  <1>15. StagesInOrder'
    BY <1>4, <1>5, <1>6, <1>13, <1>14 DEF StagesInOrder
  <1>16. \A s \in Sessions : \A v \in Range(got[s]) : Later(v, w) /\ Apart(v, w)
    BY <1>8, Whereabouts
  <1>17. \A s \in Sessions : Remote(s) \in Surfaces
    BY RemoteFacts
  <1>18. HandedOnce'
    <2>1. \A y \in Surfaces : Unlike(outbound'[y])
      BY <1>2, <1>4, <1>7, <1>12 DEF HandedOnce
    <2>2. \A s \in Sessions : \A v \in Range(got[s]), u \in Range(outbound'[Remote(s)]) : Apart(v, u)
      <3> SUFFICES ASSUME NEW s \in Sessions, NEW v \in Range(got[s]),
                          NEW u \in Range(outbound'[Remote(s)])
                   PROVE  Apart(v, u)
        OBVIOUS
      <3>1. u \in Range(outbound[Remote(s)]) \/ u = w
        BY <1>7, <1>12, <1>17
      <3> QED
        BY <1>4, <1>16, <3>1 DEF HandedOnce
    <2> QED
      BY <1>1, <1>4, <2>1, <2>2 DEF HandedOnce
  <1>19. HandedInOrder'
    <2> SUFFICES ASSUME NEW s \in Sessions, Alone(s), Present(s)
                 PROVE  /\ Ascending(outbound'[Remote(s)])
                        /\ \A v \in Range(got[s]), u \in Range(outbound'[Remote(s)]) : Later(v, u)
      BY <1>1, <1>4 DEF HandedInOrder, Present, Alone
    <2>1. Ascending(outbound'[Remote(s)])
      BY <1>4, <1>7, <1>12, <1>17 DEF HandedInOrder
    <2>2. \A u \in Range(outbound'[Remote(s)]) : u \in Range(outbound[Remote(s)]) \/ u = w
      BY <1>7, <1>12, <1>17
    <2> QED
      BY <1>4, <1>16, <2>1, <2>2 DEF HandedInOrder
  <1> QED
    BY <1>6, <1>13, <1>15, <1>18, <1>19 DEF WavesInOrder

\* A lane hands its first wave to its listener, behind those that session already has.
LEMMA DeliverInOrder ==
    ASSUME TypeOK, HubBetween, OrderInv, NEW x \in Surfaces, Deliver(x)
    PROVE  WavesInOrder'
  <1> DEFINE h == Head(outbound[x])
             s == listener[x]
  <1>types. outbound \in [Surfaces -> Seq(Waves)] /\ got \in [Sessions -> Seq(Waves)]
    BY DEF TypeOK
  <1>1. /\ outbound[x] # <<>> /\ outbound' = [outbound EXCEPT ![x] = Tail(@)]
        /\ got' = [got EXCEPT ![s] = Append(@, h)] /\ s \in Sessions
        /\ calls' = calls /\ inbound' = inbound /\ phase' = phase
        /\ phase[s] = "in"
    BY DEF Deliver, Listens, TypeOK
  <1>2. Remote(s) = x
    BY InterchangeAssumption, <1>1 DEF HubBetween
  <1>3. outbound[x] \in Seq(Waves) /\ h \in Waves /\ got[s] \in Seq(Waves)
    BY <1>1, <1>types
  <1>4. InboundInOrder /\ CallsInOrder /\ StagesInOrder /\ HandedOnce /\ HandedInOrder
    BY DEF OrderInv, WavesInOrder
  <1>5. Range(outbound[x]) = Range(Tail(outbound[x])) \cup {h}
    BY <1>1, <1>3, RangeFacts
  <1>6. Unlike(Tail(outbound[x])) /\ \A w \in Range(Tail(outbound[x])) : Apart(h, w)
    BY <1>1, <1>3, <1>4, UnlikeFacts DEF HandedOnce
  <1>7. Ascending(outbound[x]) =>
           Ascending(Tail(outbound[x])) /\ \A w \in Range(Tail(outbound[x])) : Later(h, w)
    BY <1>1, <1>3, AscendingFacts
  <1> HIDE DEF h, s
  <1>8. outbound'[x] = Tail(outbound[x]) /\ \A y \in Surfaces : y # x => outbound'[y] = outbound[y]
    BY <1>1, <1>types
  <1>9. got'[s] = Append(got[s], h) /\ \A t \in Sessions : t # s => got'[t] = got[t]
    BY <1>1, <1>types
  <1>10. Range(got'[s]) = Range(got[s]) \cup {h}
    BY <1>3, <1>9, RangeFacts
  <1>11. \A v \in Range(got[s]) : Apart(v, h)
    BY <1>1, <1>2, <1>4, <1>5 DEF HandedOnce
  <1>12. Unlike(got'[s])
    BY <1>1, <1>3, <1>4, <1>9, <1>11, UnlikeFacts DEF HandedOnce
  <1>13. \A t \in Sessions : Remote(t) \in Surfaces
    BY RemoteFacts
  <1>14. HandedOnce'
    <2>1. \A y \in Surfaces : Unlike(outbound'[y])
      BY <1>4, <1>6, <1>8 DEF HandedOnce
    <2>2. \A t \in Sessions : Unlike(got'[t])
      BY <1>4, <1>9, <1>12 DEF HandedOnce
    <2>3. \A t \in Sessions : \A v \in Range(got'[t]), u \in Range(outbound'[Remote(t)]) : Apart(v, u)
      <3> SUFFICES ASSUME NEW t \in Sessions, NEW v \in Range(got'[t]),
                          NEW u \in Range(outbound'[Remote(t)])
                   PROVE  Apart(v, u)
        OBVIOUS
      <3>1. u \in Range(outbound[Remote(t)])
        BY <1>5, <1>8, <1>13
      <3>2. CASE v \in Range(got[t])
        BY <1>4, <3>1, <3>2 DEF HandedOnce
      <3>3. CASE v \notin Range(got[t])
        <4>1. t = s /\ v = h
          BY <1>9, <1>10, <3>3
        <4> QED
          BY <1>2, <1>6, <1>8, <4>1
      <3> QED
        BY <3>2, <3>3
    <2> QED
      BY <2>1, <2>2, <2>3 DEF HandedOnce
  <1>15. HandedInOrder'
    <2> SUFFICES ASSUME NEW t \in Sessions, Alone(t)
                 PROVE  /\ Ascending(got'[t])
                        /\ Present(t) =>
                             /\ Ascending(outbound'[Remote(t)])
                             /\ \A v \in Range(got'[t]), u \in Range(outbound'[Remote(t)]) : Later(v, u)
      BY <1>1 DEF HandedInOrder, Present, Alone
    <2>1. CASE t = s
      <3>1. /\ Ascending(got[s]) /\ Ascending(outbound[x])
            /\ \A v \in Range(got[s]), u \in Range(outbound[x]) : Later(v, u)
        BY <1>1, <1>2, <1>4, <2>1 DEF HandedInOrder, Present
      <3>2. Ascending(got'[s])
        BY <1>3, <1>5, <1>9, <3>1, AscendingFacts
      <3>3. Ascending(outbound'[x])
        BY <1>7, <1>8, <3>1
      <3>4. \A v \in Range(got'[s]), u \in Range(outbound'[x]) : Later(v, u)
        BY <1>5, <1>7, <1>8, <1>10, <3>1
      <3> QED
        BY <1>2, <2>1, <3>2, <3>3, <3>4
    <2>2. CASE t # s
      <3>1. Remote(t) # x
        BY <1>1, <1>2, <2>2 DEF Alone
      <3>2. got'[t] = got[t] /\ outbound'[Remote(t)] = outbound[Remote(t)]
        BY <1>8, <1>9, <1>13, <2>2, <3>1
      <3> QED
        BY <1>4, <3>2 DEF HandedInOrder
    <2> QED
      BY <2>1, <2>2
  <1>16. InboundInOrder' /\ CallsInOrder' /\ InCalls' = InCalls /\ Enqueued' = Enqueued
    BY <1>1, <1>4 DEF InboundInOrder, CallsInOrder, InCalls, Enqueued, Elements
  <1>17. \A v \in Passing' \cup Received' : v \in Passing \cup Received
    <2>1. /\ \A v : v \in Passing' <=> \E y \in Surfaces : v \in Range(outbound'[y])
          /\ \A v : v \in Received' <=> \E t \in Sessions : v \in Range(got'[t])
      BY DEF Passing, Received, Elements
    <2>2. h \in Passing
      BY <1>5, Whereabouts
    <2> QED
      BY <1>5, <1>8, <1>9, <1>10, <2>1, <2>2, Whereabouts
  <1>18. StagesInOrder'
    BY <1>4, <1>16, <1>17 DEF StagesInOrder
  <1> QED
    BY <1>14, <1>15, <1>16, <1>18 DEF WavesInOrder

\* A lane that lost its listener turns; the session that was it, alone on this surface,
\* was in and is not any more.
LEMMA LoseInOrder ==
    ASSUME TypeOK, HubBetween, OrderInv, NEW x \in Surfaces, LoseListener(x)
    PROVE  WavesInOrder'
  <1>types. outbound \in [Surfaces -> Seq(Waves)]
    BY DEF TypeOK
  <1>1. PICK k \in 1..Len(outbound[x]) :
            outbound' = [outbound EXCEPT ![x] = SubSeq(@, k + 1, Len(@)) \o SubSeq(@, 1, k)]
    BY DEF LoseListener
  <1> DEFINE turned == SubSeq(outbound[x], k + 1, Len(outbound[x])) \o SubSeq(outbound[x], 1, k)
  <1>2. InboundInOrder /\ CallsInOrder /\ StagesInOrder /\ HandedOnce /\ HandedInOrder /\ MountedOnce
    BY DEF OrderInv, WavesInOrder
  <1>3. Range(turned) = Range(outbound[x])
    BY <1>types, TurnElements
  <1>4. Unlike(turned)
    BY <1>types, <1>2, UnlikeFacts DEF HandedOnce
  <1>5. outbound' = [outbound EXCEPT ![x] = turned]
    BY <1>1
  <1> HIDE DEF turned
  <1>6. outbound'[x] = turned /\ \A y \in Surfaces : y # x => outbound'[y] = outbound[y]
    BY <1>types, <1>5
  <1>7. UNCHANGED <<calls, inbound, got, phase>>
    BY DEF LoseListener, waveVars
  <1>8. \A y \in Surfaces : Range(outbound'[y]) = Range(outbound[y])
    BY <1>3, <1>6
  <1>9. \A t \in Sessions : Remote(t) \in Surfaces
    BY RemoteFacts
  <1>10. HandedOnce'
    BY <1>2, <1>4, <1>6, <1>7, <1>8, <1>9 DEF HandedOnce
  <1>11. HandedInOrder'
    <2> SUFFICES ASSUME NEW t \in Sessions, Alone(t), Present(t)
                 PROVE  outbound'[Remote(t)] = outbound[Remote(t)]
      BY <1>2, <1>7 DEF HandedInOrder, Present, Alone
    <2>1. CASE Remote(t) = x
      <3>1. listener[x] \in Sessions /\ Remote(listener[x]) = x /\ ~Listens(x) /\ listener[x] # None
        BY DEF LoseListener, TypeOK, HubBetween
      <3>2. listener[x] = t
        BY <2>1, <3>1 DEF Alone
      <3> QED
        BY <1>2, <3>1, <3>2 DEF MountedOnce, Present, Listens
    <2>2. CASE Remote(t) # x
      BY <1>6, <1>9, <2>2
    <2> QED
      BY <2>1, <2>2
  <1>12. /\ InboundInOrder' /\ CallsInOrder' /\ InCalls' = InCalls /\ Enqueued' = Enqueued
         /\ Received' = Received
    BY <1>2, <1>7 DEF InboundInOrder, CallsInOrder, InCalls, Enqueued, Received, Elements
  <1>13. Passing' = Passing
    BY <1>8 DEF Passing, Elements
  <1>14. StagesInOrder'
    BY <1>2, <1>12, <1>13 DEF StagesInOrder
  <1> QED
    BY <1>10, <1>11, <1>12, <1>14 DEF WavesInOrder

\* Every step keeps the order; the acceptance of a Mount, a drop and a call without a
\* wave move none.
LEMMA NextOrderInv == TypeOK /\ Accounted /\ HubBetween /\ OrderInv /\ [Next]_vars => OrderInv'
  <1> SUFFICES ASSUME TypeOK, Accounted, HubBetween, OrderInv, [Next]_vars
               PROVE  WavesInOrder'
    BY NextAtHome, NextMountedOnce DEF OrderInv
  <1>types. phase \in [Sessions -> Phases]
    BY DEF TypeOK
  <1>order. CallsInOrder /\ WavesInOrder
    BY DEF OrderInv, WavesInOrder
  <1>absent. ASSUME NEW s, NEW p \in {"in", "refused", "gaveUp", "dropped", "gone", "added", "mounting"},
                    phase' = [phase EXCEPT ![s] = p], p # "in" \/ Present(s),
                    p \in {"added", "mounting"} => Present(s)
             PROVE  \A t \in Sessions : Present(t)' => Present(t)
    BY <1>absent, <1>types DEF Present, Entering
  <1>gate. ASSUME UNCHANGED <<inbound, outbound, got>>,
                  \A t \in Sessions : Present(t)' => Present(t),
                  calls' = calls \/ \E c \in Calls : c.op # "Wave" /\ calls' = Append(calls, c)
           PROVE  WavesInOrder'
    <2>1. CallsInOrder' /\ InCalls' = InCalls
      BY <1>gate, <1>order, CallsOrder, CallWaves
    <2> QED
      BY <1>gate, <1>order, <2>1, StillInOrder
  <1>1. CASE RecvInternal \/ RecvRemove
    <2>1. PICK op \in {"Internal", "Remove"} : Recv(op)
      BY <1>1 DEF RecvInternal, RecvRemove
    <2>2. UNCHANGED <<inbound, outbound, got, phase>>
      BY <1>1 DEF RecvInternal, RecvRemove, laneVars, waveVars
    <2>3. CallsInOrder' /\ InCalls' \subseteq InCalls
      BY <1>order, <2>1, CallsOrder, CallWaves
    <2>4. \A t \in Sessions : Present(t)' => Present(t)
      BY <2>2 DEF Present
    <2> QED
      BY <1>order, <2>2, <2>3, <2>4, StillInOrder
  <1>2. CASE RecvMount
    <2>1. Recv("Mount") /\ UNCHANGED <<inbound, outbound, got>>
      BY <1>2 DEF RecvMount, waveVars
    <2>2. CallsInOrder' /\ InCalls' \subseteq InCalls
      BY <1>order, <2>1, CallsOrder, CallWaves
    <2>3. \A t \in Sessions : Present(t)' => Present(t)
      <3>1. \/ phase' = phase
            \/ /\ phase[First.arg] = "mounting"
               /\ \/ phase' = [phase EXCEPT ![First.arg] = "in"]
                  \/ phase' = [phase EXCEPT ![First.arg] = "refused"]
        BY <1>2 DEF RecvMount
      <3> QED
        BY <1>absent, <3>1 DEF Present, Entering
    <2> QED
      BY <1>order, <2>1, <2>2, <2>3, StillInOrder
  <1>3. CASE RecvWave
    BY <1>3, RecvInOrder
  <1>4. ASSUME NEW x \in Surfaces, Forward(x) \/ ForwardTimesOut(x) \/ Deliver(x) \/ LoseListener(x)
        PROVE  WavesInOrder'
    BY <1>4, ForwardInOrder, DeliverInOrder, LoseInOrder
  <1>5. ASSUME NEW s \in Sessions \ {Hub}, AskMount(s) PROVE WavesInOrder'
    <2>1. /\ phase[s] \in {"out", "added"} /\ phase' = [phase EXCEPT ![s] = "mounting"]
          /\ calls' = Append(calls, Mount(s)) /\ UNCHANGED <<inbound, outbound, got>>
      BY <1>5 DEF AskMount, laneVars, waveVars
    <2>2. \A t \in Sessions : Present(t)' => Present(t)
      BY <1>absent, <2>1 DEF Present, Entering
    <2>3. Mount(s) \in Calls /\ Mount(s).op # "Wave"
      BY CallFacts
    <2> QED
      BY <1>gate, <2>1, <2>2, <2>3
  <1>6. ASSUME NEW s \in Sessions, GiveUp(s) \/ DropEndpoint(s) PROVE WavesInOrder'
    <2>1. /\ \/ phase' = [phase EXCEPT ![s] = "gaveUp"]
             \/ phase' = [phase EXCEPT ![s] = "dropped"]
             \/ phase' = [phase EXCEPT ![s] = "gone"]
          /\ UNCHANGED <<calls, inbound, outbound, got>>
      BY <1>6 DEF GiveUp, DropEndpoint, laneVars, waveVars
    <2>2. \A t \in Sessions : Present(t)' => Present(t)
      BY <1>absent, <2>1
    <2> QED
      BY <1>gate, <2>1, <2>2
  <1>7. ASSUME NEW s \in Entrants, Add(s) \/ PostRemove(s) PROVE WavesInOrder'
    <2>1. /\ \/ phase[s] = "out" /\ phase' = [phase EXCEPT ![s] = "added"]
             \/ phase' = [phase EXCEPT ![s] = "gone"]
          /\ calls' = Append(calls, Internal(s)) \/ calls' = Append(calls, Remove(s))
          /\ UNCHANGED <<inbound, outbound, got>>
      BY <1>7 DEF Add, PostRemove, laneVars, waveVars
    <2>2. \A t \in Sessions : Present(t)' => Present(t)
      BY <1>absent, <2>1 DEF Present, Entering
    <2>3. /\ Internal(s) \in Calls /\ Internal(s).op # "Wave"
          /\ Remove(s) \in Calls /\ Remove(s).op # "Wave"
      BY CallFacts
    <2> QED
      BY <1>gate, <2>1, <2>2, <2>3
  <1>8. ASSUME NEW s \in Sessions, NEW to \in Surfaces, Send(s, to) PROVE WavesInOrder'
    BY <1>8, SendInOrder
  <1>9. ASSUME NEW to \in Surfaces, Route(to) PROVE WavesInOrder'
    BY <1>9, SendInOrder DEF Sessions
  <1>10. CASE UNCHANGED vars
    BY <1>10, <1>gate DEF vars, Present
  <1> QED
    BY <1>1, <1>2, <1>3, <1>4, <1>5, <1>6, <1>7, <1>8, <1>9, <1>10 DEF Next, Task

\* What the lanes, the forwarders and the one task make of the order of a sender's waves:
\* nobody is handed a wave twice, and a session that has its surface for itself is handed
\* each sender's waves in the order they were sent.
THEOREM OrderPerSender == Spec => []InOrderPerSender
  <1>1. TypeOK /\ OrderInv => InOrderPerSender
    <2> SUFFICES ASSUME TypeOK, OrderInv,
                        NEW s \in Sessions, NEW i \in DOMAIN got[s], NEW j \in DOMAIN got[s],
                        i < j, got[s][i].by = got[s][j].by
                 PROVE  /\ got[s][i].n # got[s][j].n
                        /\ Alone(s) => got[s][i].n < got[s][j].n
      BY DEF InOrderPerSender, Alone
    <2>1. Unlike(got[s]) /\ (Alone(s) => Ascending(got[s]))
      BY DEF OrderInv, WavesInOrder, HandedOnce, HandedInOrder
    <2>2. i \in 1..Len(got[s]) /\ j \in 1..Len(got[s]) /\ i # j
      BY DEF TypeOK
    <2> QED
      BY <2>1, <2>2 DEF Unlike, Ascending, Apart, Later
  <1> QED
    BY <1>1, InitTypeOK, NextTypeOK, InitAccounted, NextAccounted, InitHubBetween,
       NextHubBetween, InitOrderInv, NextOrderInv, PTL DEF Spec
=============================================================================
