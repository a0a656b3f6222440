----------------------------- MODULE Interchange -----------------------------
(***************************************************************************)
(* A HyperwayInterchange and the gates in front of it.  The interchange is *)
(* one task that takes calls from one channel: a hyperway to add, one to   *)
(* remove, one to mount, a wave to route.  A star's interchange has a hub, *)
(* the star itself, whose hyperway is added before singular_to is set: all *)
(* hyperways added afterwards send to the hub, whatever their waves say,   *)
(* and the hub sends to all.                                               *)
(*                                                                         *)
(* There are two kinds.  A star's interchange has a MountInterchangeGate,  *)
(* whose sessions mount a hyperway that was added at the start; several    *)
(* may mount the same one, the last one hears.  The control driver's has   *)
(* an InterchangeGate, which adds a hyperway of the session's own, mounts  *)
(* it and removes it when the endpoint is dropped; its hub sends by the    *)
(* interchange's router, past the hub's lane.                              *)
(* Remotes are surfaces; an entrant's is fresh, so it is named like the    *)
(* session.                                                                *)
(*                                                                         *)
(* A hyperway's two lanes are FIFO queues here; module Hyperlane has their *)
(* detail.                                                                 *)
(***************************************************************************)
EXTENDS Naturals, Sequences, FiniteSets, Functions

CONSTANTS
    Hub,        \* the star: a surface and the session that holds its endpoint
    Fixed,      \* the surfaces whose hyperways are added at the start
    Mounters,   \* the sessions of MountInterchangeGate
    At,         \* the surface each of them mounts
    Entrants,   \* the sessions of InterchangeGate, and their surfaces
    HubWaves,   \* how many waves the hub sends (a bound)
    OwnWaves,   \* how many waves each other session sends (a bound)
    CallCap,    \* the capacity of the call channel, 1024 in the code
    LaneCap,    \* what a lane holds, 1024 in the code
    None

Sessions == {Hub} \cup Mounters \cup Entrants
Surfaces == {Hub} \cup Fixed \cup Entrants

ASSUME InterchangeAssumption ==
    /\ At \in [Mounters -> Fixed]
    /\ Hub \notin Fixed \cup Mounters \cup Entrants
    /\ Mounters \cap Entrants = {} /\ Fixed \cap Entrants = {}
    /\ IsFiniteSet(Fixed)
    /\ {HubWaves, OwnWaves} \subseteq Nat
    /\ CallCap \in Nat \ {0} /\ LaneCap \in Nat \ {0}
    /\ None \notin Sessions

VARIABLES
    kind,       \* whose interchange it is: "star" or "control"
    calls,      \* the call channel
    hyperways,  \* the surfaces the interchange knows
    forwarded,  \* the surfaces with a forwarder on their inbound lane
    inbound,    \* per surface, the lane towards the interchange
    outbound,   \* per surface, the lane towards the session
    listener,   \* per surface, the session the outbound lane delivers to
    phase,      \* per session: "out", "added", "mounting", "in", "dropped", "gone",
                \* "refused" or "gaveUp"
    sent,       \* per session, how many waves it has sent
    got,        \* per session, the waves it was handed
    lost        \* history: waves given up, dropped by a lane or addressed to nobody

vars == <<kind, calls, hyperways, forwarded, inbound, outbound, listener, phase, sent, got, lost>>
wayVars == <<kind, hyperways, forwarded>>
laneVars == <<inbound, outbound, listener>>
waveVars == <<sent, got, lost>>

Remote(s) == IF s \in Mounters THEN At[s] ELSE s

\* A wave keeps the session that sent it and its number for the properties.
Wave(s, n, to) == [by |-> s, n |-> n, from |-> Remote(s), to |-> to]

WaveCall(wave) == [op |-> "Wave", arg |-> wave]
Internal(surface) == [op |-> "Internal", arg |-> surface]
Remove(surface) == [op |-> "Remove", arg |-> surface]
Mount(s) == [op |-> "Mount", arg |-> s]

HasRoom == Len(calls) < CallCap
First == Head(calls)
Recv(op) == calls # <<>> /\ First.op = op /\ calls' = Tail(calls)

\* The machine adds the star's hyperway first; it waits for room for the rest, which
\* the interchange makes at once, so all are in place before the first session.
Init ==
    /\ calls = <<>>
    /\ kind \in {"star", "control"}
    /\ hyperways = {Hub} \cup (IF kind = "star" THEN Fixed ELSE {})
    /\ forwarded = hyperways
    /\ inbound = [x \in Surfaces |-> <<>>]
    /\ outbound = [x \in Surfaces |-> <<>>]
    /\ listener = [x \in Surfaces |-> IF x = Hub THEN Hub ELSE None]
    /\ phase = [s \in Sessions |-> IF s = Hub THEN "in" ELSE "out"]
    /\ sent = [s \in Sessions |-> 0]
    /\ got = [s \in Sessions |-> <<>>]
    /\ lost = {}

-----------------------------------------------------------------------------
(* The interchange's task.                                                 *)

MutRecvInternal ==
    /\ Recv("Internal")
    /\ hyperways' = hyperways \cup {First.arg}
    /\ UNCHANGED <<kind, forwarded, laneVars, phase, waveVars>>

RecvInternal ==
    /\ Recv("Internal")
    /\ hyperways' = hyperways \cup {First.arg}
    /\ forwarded' = forwarded \cup {First.arg}
    /\ UNCHANGED <<kind, laneVars, phase, waveVars>>

MutRecvRemove ==
    /\ Recv("Remove")
    /\ UNCHANGED <<wayVars, laneVars, phase, waveVars>>

\* The lanes of a removed hyperway live on in their tasks.
RecvRemove ==
    /\ Recv("Remove")
    /\ hyperways' = hyperways \ {First.arg}
    /\ UNCHANGED <<kind, forwarded, laneVars, phase, waveVars>>

MutRecvWave ==
    /\ Recv("Wave")
    /\ IF First.arg.to \in hyperways
       THEN outbound' = [outbound EXCEPT ![First.arg.to] = Append(@, First.arg)]
       ELSE UNCHANGED outbound
    /\ UNCHANGED <<wayVars, inbound, listener, phase, waveVars>>

\* A wave goes to the hyperway it is addressed to.  A full lane loses its oldest wave
\* or, if it does not take the new one within five seconds, that.
RecvWave ==
    LET wave == First.arg
        lane == outbound[wave.to]
    IN  /\ Recv("Wave")
        /\ \/ /\ wave.to \in hyperways
              /\ Len(lane) < LaneCap
              /\ outbound' = [outbound EXCEPT ![wave.to] = Append(@, wave)]
              /\ UNCHANGED lost
           \/ /\ wave.to \in hyperways
              /\ Len(lane) >= LaneCap
              /\ outbound' = [outbound EXCEPT ![wave.to] = Append(Tail(@), wave)]
              /\ lost' = lost \cup {Head(lane)}
           \/ /\ wave.to \in hyperways => Len(lane) >= LaneCap
              /\ lost' = lost \cup {wave}
              /\ UNCHANGED outbound
        /\ UNCHANGED <<wayVars, inbound, listener, phase, sent, got>>

\* The session becomes the lane's listener, before it has its endpoint.  If it has given
\* up meanwhile the endpoint is dropped, but the earlier listener has been replaced.
RecvMount ==
    LET s == First.arg
        surface == Remote(s)
    IN  /\ Recv("Mount")
        /\ IF surface \in hyperways
           THEN listener' = [listener EXCEPT ![surface] = s]
           ELSE UNCHANGED listener
        /\ IF phase[s] = "mounting"
           THEN phase' = [phase EXCEPT ![s] = IF surface \in hyperways THEN "in" ELSE "refused"]
           ELSE UNCHANGED phase
        /\ UNCHANGED <<wayVars, inbound, outbound, waveVars>>

Task == RecvInternal \/ RecvRemove \/ RecvWave \/ RecvMount

-----------------------------------------------------------------------------
(* The forwarders and the outbound lanes.                                  *)

MutForward(x) ==
    /\ x \in forwarded /\ inbound[x] # <<>>
    /\ HasRoom
    /\ calls' = Append(calls, WaveCall(inbound[x][Len(inbound[x])]))
    /\ inbound' = [inbound EXCEPT ![x] = SubSeq(@, 1, Len(@) - 1)]
    /\ UNCHANGED <<wayVars, outbound, listener, phase, waveVars>>

Forward(x) ==
    /\ x \in forwarded /\ inbound[x] # <<>>
    /\ HasRoom
    /\ calls' = Append(calls, WaveCall(Head(inbound[x])))
    /\ inbound' = [inbound EXCEPT ![x] = Tail(@)]
    /\ UNCHANGED <<wayVars, outbound, listener, phase, waveVars>>

\* Sixty seconds without room: the wave is lost and the forwarder takes the next one.
ForwardTimesOut(x) ==
    /\ x \in forwarded /\ inbound[x] # <<>>
    /\ ~HasRoom
    /\ lost' = lost \cup {Head(inbound[x])}
    /\ inbound' = [inbound EXCEPT ![x] = Tail(@)]
    /\ UNCHANGED <<calls, wayVars, outbound, listener, phase, sent, got>>

Listens(x) == listener[x] # None /\ phase[listener[x]] = "in"

Deliver(x) ==
    /\ outbound[x] # <<>> /\ Listens(x)
    /\ got' = [got EXCEPT ![listener[x]] = Append(@, Head(outbound[x]))]
    /\ outbound' = [outbound EXCEPT ![x] = Tail(@)]
    /\ UNCHANGED <<calls, wayVars, inbound, listener, phase, sent, lost>>

\* The lane finds its listener gone when it sends.  It keeps the waves it was about to
\* hand over for the next one, but behind those that came in meanwhile.
LoseListener(x) ==
    /\ outbound[x] # <<>> /\ listener[x] # None /\ ~Listens(x)
    /\ listener' = [listener EXCEPT ![x] = None]
    /\ \E k \in 1..Len(outbound[x]) :
          outbound' = [outbound EXCEPT ![x] = SubSeq(@, k + 1, Len(@)) \o SubSeq(@, 1, k)]
    /\ UNCHANGED <<calls, wayVars, inbound, phase, waveVars>>

-----------------------------------------------------------------------------
(* The gates and the sessions.                                             *)

MutAdd(s) ==
    /\ kind = "control" /\ s \in Entrants /\ phase[s] = "out"
    /\ HasRoom
    /\ phase' = [phase EXCEPT ![s] = "added"]
    /\ UNCHANGED <<calls, wayVars, laneVars, waveVars>>

\* InterchangeGate.enter: the session's own hyperway is added first ...
Add(s) ==
    /\ kind = "control" /\ s \in Entrants /\ phase[s] = "out"
    /\ HasRoom
    /\ calls' = Append(calls, Internal(s))
    /\ phase' = [phase EXCEPT ![s] = "added"]
    /\ UNCHANGED <<wayVars, laneVars, waveVars>>

\* ... and then, as MountInterchangeGate does at once, mounted.
AskMount(s) ==
    /\ phase[s] = "added" \/ (kind = "star" /\ s \in Mounters /\ phase[s] = "out")
    /\ HasRoom
    /\ calls' = Append(calls, Mount(s))
    /\ phase' = [phase EXCEPT ![s] = "mounting"]
    /\ UNCHANGED <<wayVars, laneVars, waveVars>>

\* The caller's patience ends (after 60 s) and the future is dropped, with nothing to remove the
\* hyperway it may have added.
GiveUp(s) ==
    /\ phase[s] \in {"added", "mounting"}
    /\ phase' = [phase EXCEPT ![s] = "gaveUp"]
    /\ UNCHANGED <<calls, wayVars, laneVars, waveVars>>

DropEndpoint(s) ==
    /\ s # Hub /\ phase[s] = "in"
    /\ phase' = [phase EXCEPT ![s] = IF s \in Entrants THEN "dropped" ELSE "gone"]
    /\ UNCHANGED <<calls, wayVars, laneVars, waveVars>>

\* The drop event of an entrant's endpoint posts the Remove.
PostRemove(s) ==
    /\ phase[s] = "dropped"
    /\ HasRoom
    /\ calls' = Append(calls, Remove(s))
    /\ phase' = [phase EXCEPT ![s] = "gone"]
    /\ UNCHANGED <<wayVars, laneVars, waveVars>>

\* What the inbound transforms make of a wave: of the sender's own fields only the hub's
\* address is kept, and everybody else's waves go to the hub.
MutStamp(s, n, to) == Wave(s, n, to)
Stamp(s, n, to) == Wave(s, n, IF s = Hub THEN to ELSE Hub)

Send(s, to) ==
    /\ phase[s] = "in" /\ (s = Hub => kind = "star")
    /\ sent[s] < IF s = Hub THEN HubWaves ELSE OwnWaves
    /\ Len(inbound[Remote(s)]) < LaneCap
    /\ sent' = [sent EXCEPT ![s] = @ + 1]
    /\ inbound' = [inbound EXCEPT ![Remote(s)] = Append(@, Stamp(s, sent'[s], to))]
    /\ UNCHANGED <<calls, wayVars, outbound, listener, phase, got, lost>>

\* The control driver's router puts waves into the call channel itself.
Route(to) ==
    /\ kind = "control" /\ sent[Hub] < HubWaves
    /\ HasRoom
    /\ sent' = [sent EXCEPT ![Hub] = @ + 1]
    /\ calls' = Append(calls, WaveCall(Wave(Hub, sent'[Hub], to)))
    /\ UNCHANGED <<wayVars, laneVars, phase, got, lost>>

Next ==
    \/ Task
    \/ \E x \in Surfaces : Forward(x) \/ ForwardTimesOut(x) \/ Deliver(x) \/ LoseListener(x)
    \/ \E s \in Sessions \ {Hub} : AskMount(s) \/ GiveUp(s) \/ DropEndpoint(s)
    \/ \E s \in Entrants : Add(s) \/ PostRemove(s)
    \/ \E s \in Sessions, to \in Surfaces : Send(s, to)
    \/ \E to \in Surfaces : Route(to)

\* tokio runs the interchange's task, the forwarders, the lanes and the tasks that wait
\* for a dropped endpoint while they can go on.  Waves and sessions are bounded, so every
\* behaviour comes to an end and weak fairness of each group is enough.  Sessions come,
\* go and send as they like.
Fairness ==
    /\ WF_vars(Task)
    /\ WF_vars(\E x \in Surfaces : Forward(x))
    /\ WF_vars(\E x \in Surfaces : Deliver(x) \/ LoseListener(x))
    /\ WF_vars(\E s \in Entrants : PostRemove(s))

Spec == Init /\ [][Next]_vars
FairSpec == Spec /\ Fairness

-----------------------------------------------------------------------------
Phases == {"out", "added", "mounting", "in", "dropped", "gone", "refused", "gaveUp"}
MaxWave == IF HubWaves > OwnWaves THEN HubWaves ELSE OwnWaves
Waves == {Wave(s, n, to) : s \in Sessions, n \in 1..MaxWave, to \in Surfaces}
Calls == {WaveCall(w) : w \in Waves} \cup {Internal(x) : x \in Entrants}
            \cup {Remove(x) : x \in Entrants} \cup {Mount(s) : s \in Sessions \ {Hub}}

\* The types, the capacities, and that a forwarder never goes away.
TypeOK ==
    /\ kind \in {"star", "control"}
    /\ calls \in Seq(Calls) /\ Len(calls) <= CallCap
    /\ hyperways \subseteq forwarded /\ forwarded \subseteq Surfaces
    /\ inbound \in [Surfaces -> Seq(Waves)] /\ outbound \in [Surfaces -> Seq(Waves)]
    /\ \A x \in Surfaces : Len(inbound[x]) <= LaneCap /\ Len(outbound[x]) <= LaneCap
    /\ listener \in [Surfaces -> Sessions \cup {None}]
    /\ phase \in [Sessions -> Phases]
    /\ sent \in [Sessions -> 0..MaxWave]
    /\ got \in [Sessions -> Seq(Waves)]
    /\ lost \subseteq Waves

\* A session that mounts finds its hyperway: its own was added before, a fixed one is
\* never removed, and no Remove comes too early.
MountFinds == \A s \in Sessions : phase[s] # "refused"

\* Two remotes never talk to each other but through the hub, whatever they write into
\* their waves: what a session is handed comes from the hub, unless it is the hub.
OnlyThroughHub == \A s \in Sessions \ {Hub} : \A i \in DOMAIN got[s] : got[s][i].by = Hub

\* Through both lanes, the forwarder and the one task: no session is handed a wave
\* twice, and one that has its hyperway for itself is handed another's waves in the
\* order they were sent.  (After a failed session on the same hyperway they may have
\* changed places.)
InOrderPerSender ==
    \A s \in Sessions : \A i, j \in DOMAIN got[s] :
        i < j /\ got[s][i].by = got[s][j].by =>
            /\ got[s][i].n # got[s][j].n
            /\ (\A t \in Sessions \ {s} : Remote(t) # Remote(s)) => got[s][i].n < got[s][j].n

InCalls == {calls[i].arg : i \in {j \in DOMAIN calls : calls[j].op = "Wave"}}
InLanes == UNION {Range(inbound[x]) \cup Range(outbound[x]) : x \in Surfaces}
Received == UNION {Range(got[s]) : s \in Sessions}

\* No wave vanishes unnoticed: what was sent is in a lane, in the call channel, with a
\* session, or was given up at one of the three places that may do so.
Accounted ==
    {<<w.by, w.n>> : w \in InCalls \cup InLanes \cup Received \cup lost}
        = UNION {{<<s, n>> : n \in 1..sent[s]} : s \in Sessions}

\* The hyperway of an entrant that dropped its endpoint is removed in the end, and
\* nothing brings it back.
LeaversRemoved ==
    <>[](\A s \in Entrants : phase[s] \in {"dropped", "gone"} => s \notin hyperways)

\* A wave on its way to the hub gets there, unless it is given up: once everybody has
\* sent what they send, nothing stays behind.
ReachesHub ==
    <>[](\A s \in Sessions \ {Hub} : \A n \in 1..sent[s] :
            Wave(s, n, Hub) \in Range(got[Hub]) \cup lost)
=============================================================================
