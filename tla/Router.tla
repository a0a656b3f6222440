------------------------------- MODULE Router -------------------------------
(***************************************************************************)
(* How a star moves waves.  Each star has one loop that takes calls out of *)
(* a bounded channel.  A wave of a particle comes as an injection, goes    *)
(* through the layers to gravity, and is sharded: one transport for each   *)
(* star that it concerns.  A transport is put on the hyperway to its star, *)
(* or to the one adjacent star that forwards; there the loop takes it from *)
(* the hyperway, and passes it on, or has the star driver unwrap it and    *)
(* inject what is in it.                                                   *)
(*                                                                         *)
(* Nearly every stage runs in a task of its own that comes back to the     *)
(* loop with another call, and waits for room in its channel: `pending`    *)
(* are the calls of these tasks and relays, in no order.  Two handlers     *)
(* wait inside the loop: to_gravity for room in the loop's own channel,    *)
(* to_hyperway for room in the channel to the interchange.                 *)
(*                                                                         *)
(* What the layers do to a wave, how a particle without a star gets one    *)
(* (module Provision) and how lanes and interchange move a wave (modules   *)
(* Hyperlane, Interchange) are left out: here a hop arrives or is lost.    *)
(***************************************************************************)
EXTENDS Naturals, Sequences, FiniteSets

CONSTANTS
    Stars,      \* the points of all stars, also of one that is in no web any more
    Waves,      \* the waves that particles send
    Nothing,    \* no star, no wave, no call
    Everyone,   \* Recipients::Stars
    Global,     \* GLOBAL_EXEC
    Scenes,     \* the webs, and the waves in them, that may be: see SceneType
    CallCap,    \* capacity of a star's call channel
    OutCap,     \* capacity of its channel to the interchange
    MaxHops,    \* how many hops a transport may take
    MaxFaults   \* bound on the hops lost and the locations not found

\* `adjacents` and `forwarders` are the web; a wave is sent by a particle on star `from` to
\* one on star `to`, and is the answer to its `cause` if it has one.
SceneType ==
    [adjacents : [Stars -> SUBSET Stars], forwarders : SUBSET Stars,
     from : [Waves -> Stars], to : [Waves -> Stars \cup {Everyone, Global}],
     cause : [Waves -> Waves \cup {Nothing}]]

\* The web of a machine's default template: the nexus has a hyperway to each star, and so has
\* the machine's own star, which comes to every template.
DefaultWeb(members, nexus, machine) ==
    [s \in Stars |-> IF s \in {nexus, machine} THEN members \ {s}
                     ELSE {x \in {nexus, machine} : s \in members}]

\* The calls of a star's loop that matter for waves.
Ops == {"Inject", "ToGravity", "Shard", "ToHyperway", "FromHyperway", "ToDriver"}
Calls == [op : Ops, wave : Waves, to : Stars \cup {Nothing}, hops : 0..MaxHops]

ASSUME RouterAssumption ==
    /\ Scenes \subseteq SceneType
    /\ CallCap \in Nat \ {0} /\ OutCap \in Nat \ {0}
    /\ MaxHops \in Nat /\ MaxHops >= 2
    /\ MaxFaults \in Nat
    /\ Nothing \notin Stars \cup Waves \cup Calls
    /\ {Everyone, Global} \cap Stars = {} /\ Everyone # Global

VARIABLES
    scene,      \* the web and the waves
    sent,       \* the waves that were sent
    pending,    \* per star, the calls that tasks and relays have for its loop
    calls,      \* per star, its call channel
    hand,       \* per star, the call whose handler awaits room in a channel, or Nothing
    out,        \* per star, the hops on their way to the interchange
    dead,       \* the stars whose loop has panicked
    arrived,    \* history: <<wave, star>>, the wave was injected for a particle there
    dropped     \* history: the calls that led nowhere, with the star and the reason

vars == <<scene, sent, pending, calls, hand, out, dead, arrived, dropped>>

\* A call about a wave (to = Nothing), or about the transport that takes it to a star.
Call(op, w, t, h) == [op |-> op, wave |-> w, to |-> t, hops |-> h]
As(op, c) == [c EXCEPT !.op = op]

Drop(cs, s, why) == dropped' = dropped \cup {[call |-> c, at |-> s, why |-> why] : c \in cs}
In(q) == {q[i] : i \in DOMAIN q}

Faults == Cardinality({d \in dropped : d.why \in {"lost", "unlocated"}})

Init ==
    /\ scene \in Scenes
    /\ sent = {}
    /\ pending = [s \in Stars |-> {}]
    /\ calls = [s \in Stars |-> <<>>]
    /\ hand = [s \in Stars |-> Nothing]
    /\ out = [s \in Stars |-> <<>>]
    /\ dead = {}
    /\ arrived = {}
    /\ dropped = {}

-----------------------------------------------------------------------------
(* The particles, and the tasks that have calls for a loop.                *)

\* A particle sends a wave, on its own or when it got the one that this one answers.
Send(w) ==
    LET s == scene.from[w]
    IN  /\ w \notin sent
        /\ scene.cause[w] # Nothing => <<scene.cause[w], s>> \in arrived
        /\ sent' = sent \cup {w}
        /\ pending' = [pending EXCEPT ![s] = @ \cup {Call("Inject", w, Nothing, 0)}]
        /\ UNCHANGED <<scene, calls, hand, out, dead, arrived, dropped>>

\* call_tx.send(call).await has room.
Enqueue(s) ==
    /\ s \notin dead
    /\ Len(calls[s]) < CallCap
    /\ \E c \in pending[s] :
          /\ pending' = [pending EXCEPT ![s] = @ \ {c}]
          /\ calls' = [calls EXCEPT ![s] = Append(@, c)]
    /\ UNCHANGED <<scene, sent, hand, out, dead, arrived, dropped>>

\* The loop is gone: send fails, which no task or relay takes notice of.
EnqueueFails(s) ==
    /\ s \in dead
    /\ pending[s] # {}
    /\ Drop(pending[s], s, "dead")
    /\ pending' = [pending EXCEPT ![s] = {}]
    /\ UNCHANGED <<scene, sent, calls, hand, out, dead, arrived>>

-----------------------------------------------------------------------------
(* The loop: HyperStar::start.                                             *)

\* The loop takes the next call, op says which.
Recv(s, op) ==
    /\ s \notin dead
    /\ hand[s] = Nothing
    /\ calls[s] # <<>>
    /\ Head(calls[s]).op = op

Took(s) == calls' = [calls EXCEPT ![s] = Tail(@)]
Top(s) == Head(calls[s])

\* A task is spawned, which comes back with calls cs in its turn.
Spawn(s, cs) == pending' = [pending EXCEPT ![s] = @ \cup cs]

\* LayerTraversalInjection of a wave that a particle sends: through the layers to gravity.
InjectOutward(s) ==
    /\ Recv(s, "Inject") /\ Top(s).to = Nothing
    /\ Took(s)
    /\ Spawn(s, {As("ToGravity", Top(s))})
    /\ UNCHANGED <<scene, sent, hand, out, dead, arrived, dropped>>

\* ... and of one that comes from gravity: through the layers to its particle.
InjectInward(s) ==
    /\ Recv(s, "Inject") /\ Top(s).to # Nothing
    /\ Took(s)
    /\ arrived' = arrived \cup {<<Top(s).wave, s>>}
    /\ UNCHANGED <<scene, sent, pending, hand, out, dead, dropped>>

\* to_gravity: a command for GLOBAL_EXEC is handled by a task, here on this star.
GlobalExec(s) ==
    /\ Recv(s, "ToGravity") /\ scene.to[Top(s).wave] = Global
    /\ Took(s)
    /\ arrived' = arrived \cup {<<Top(s).wave, s>>}
    /\ UNCHANGED <<scene, sent, pending, hand, out, dead, dropped>>

\* Any other wave is to be sharded by the next call, for which the loop awaits room.
ToGravity(s) ==
    /\ Recv(s, "ToGravity") /\ scene.to[Top(s).wave] # Global
    /\ Took(s)
    /\ hand' = [hand EXCEPT ![s] = Top(s)]
    /\ UNCHANGED <<scene, sent, pending, out, dead, arrived, dropped>>

PushShard(s) ==
    /\ hand[s] # Nothing /\ hand[s].op = "ToGravity"
    /\ Len(calls[s]) < CallCap
    /\ calls' = [calls EXCEPT ![s] = Append(@, As("Shard", hand[s]))]
    /\ hand' = [hand EXCEPT ![s] = Nothing]
    /\ UNCHANGED <<scene, sent, pending, out, dead, arrived, dropped>>

\* The stars that a wave sent from star s concerns: to_gravity has put s into a ripple's
\* history.
Concerned(s, w) ==
    IF scene.to[w] = Everyone THEN scene.adjacents[s] \ {s} ELSE {scene.to[w]}

\* shard: a transport for every other star, an injection if it is this one.
ShardOf(s, w, t) ==
    IF t = s THEN Call("Inject", w, t, 0) ELSE Call("ToHyperway", w, t, 0)

Shard(s) ==
    LET w == Top(s).wave
    IN  /\ Recv(s, "Shard")
        /\ Took(s)
        /\ Spawn(s, {ShardOf(s, w, t) : t \in Concerned(s, w)})
        /\ UNCHANGED <<scene, sent, hand, out, dead, arrived, dropped>>

\* The locator finds no star for the particle: the wave is gone.
LocateFails(s) ==
    /\ Recv(s, "Shard") /\ scene.to[Top(s).wave] # Everyone
    /\ Faults < MaxFaults
    /\ Took(s)
    /\ Drop({Top(s)}, s, "unlocated")
    /\ UNCHANGED <<scene, sent, pending, hand, out, dead, arrived>>

\* ToDriver: the star driver gets the transport, and injects the wave that is in it.
ToDriver(s) ==
    /\ Recv(s, "ToDriver")
    /\ Took(s)
    /\ Spawn(s, {As("Inject", Top(s))})
    /\ UNCHANGED <<scene, sent, hand, out, dead, arrived, dropped>>

-----------------------------------------------------------------------------
(* to_hyperway and from_hyperway.                                          *)

Forwarders(s) == scene.adjacents[s] \cap scene.forwarders

\* The stars that a transport to t may be put on the hyperway to: t, or all that forward.
Towards(s, t) == IF t = s \/ t \in scene.adjacents[s] THEN {t} ELSE Forwarders(s)

\* What to_hyperway does with transport c, inside the loop: there is one way to go on ...
MutHop(s, c) ==
    /\ Cardinality(Towards(s, c.to)) = 1
    /\ IF Len(out[s]) < OutCap
       THEN hand' = [hand EXCEPT ![s] = As("ToHyperway", c)]
       ELSE UNCHANGED hand
    /\ UNCHANGED <<dead, dropped>>

Hop(s, c) ==
    /\ Cardinality(Towards(s, c.to)) = 1
    /\ hand' = [hand EXCEPT ![s] = As("ToHyperway", c)]
    /\ UNCHANGED <<dead, dropped>>

\* ... or none, which is an error ...
NoWay(s, c) ==
    /\ Towards(s, c.to) = {}
    /\ Drop({c}, s, "no way")
    /\ UNCHANGED <<hand, dead>>

\* ... or several, and unimplemented! ends the loop, with all that is in its channel.
Panics(s, c) ==
    /\ Cardinality(Towards(s, c.to)) > 1
    /\ dead' = dead \cup {s}
    /\ Drop(In(calls[s]), s, "dead")
    /\ UNCHANGED hand

Route(s, c) == Hop(s, c) \/ NoWay(s, c)

ToHyperway(s) ==
    /\ Recv(s, "ToHyperway")
    /\ Took(s)
    /\ Route(s, Top(s))
    /\ UNCHANGED <<scene, sent, pending, out, arrived>>

ToHyperwayPanics(s) ==
    /\ Recv(s, "ToHyperway")
    /\ Panics(s, Top(s))
    /\ calls' = [calls EXCEPT ![s] = <<>>]
    /\ UNCHANGED <<scene, sent, pending, out, arrived>>

\* from_hyperway counts a hop for the transport.
MutCounted(c) == [c EXCEPT !.hops = IF @ = MaxHops THEN @ ELSE @ + 1]
Counted(c) == [c EXCEPT !.hops = @ + 1]

MutTooFar(c) == Counted(c).hops >= MaxHops
TooFar(c) == Counted(c).hops > MaxHops

FromHyperwayExceeded(s) ==
    /\ Recv(s, "FromHyperway") /\ TooFar(Top(s))
    /\ Took(s)
    /\ Drop({Top(s)}, s, "hops")
    /\ UNCHANGED <<scene, sent, pending, hand, out, dead, arrived>>

\* A transport to this star goes down the layers of the star's own particle to its driver.
FromHyperwayHome(s) ==
    /\ Recv(s, "FromHyperway") /\ ~TooFar(Top(s)) /\ Top(s).to = s
    /\ Took(s)
    /\ Spawn(s, {As("ToDriver", Counted(Top(s)))})
    /\ UNCHANGED <<scene, sent, hand, out, dead, arrived, dropped>>

Forward(s) ==
    /\ Recv(s, "FromHyperway") /\ ~TooFar(Top(s)) /\ Top(s).to # s
    /\ Took(s)
    /\ Route(s, Counted(Top(s)))
    /\ UNCHANGED <<scene, sent, pending, out, arrived>>

ForwardPanics(s) ==
    /\ Recv(s, "FromHyperway") /\ ~TooFar(Top(s)) /\ Top(s).to # s
    /\ Panics(s, Counted(Top(s)))
    /\ calls' = [calls EXCEPT ![s] = <<>>]
    /\ UNCHANGED <<scene, sent, pending, out, arrived>>

\* hyperway_endpoint.tx.send(hop).await has room.
PushHop(s) ==
    /\ hand[s] # Nothing /\ hand[s].op = "ToHyperway"
    /\ Len(out[s]) < OutCap
    /\ out' = [out EXCEPT ![s] = Append(@, hand[s])]
    /\ hand' = [hand EXCEPT ![s] = Nothing]
    /\ UNCHANGED <<scene, sent, pending, calls, dead, arrived, dropped>>

-----------------------------------------------------------------------------
(* The hyperways: the interchange, and the relay at the other end.         *)

Travel(s) ==
    /\ out[s] # <<>>
    /\ out' = [out EXCEPT ![s] = Tail(@)]
    /\ \E t \in Towards(s, Head(out[s]).to) :
          pending' = [pending EXCEPT ![t] = @ \cup {As("FromHyperway", Head(out[s]))}]
    /\ UNCHANGED <<scene, sent, calls, hand, dead, arrived, dropped>>

\* A lane dropped it.
Lose(s) ==
    /\ out[s] # <<>>
    /\ Faults < MaxFaults
    /\ out' = [out EXCEPT ![s] = Tail(@)]
    /\ Drop({Head(out[s])}, s, "lost")
    /\ UNCHANGED <<scene, sent, pending, calls, hand, dead, arrived>>

-----------------------------------------------------------------------------
Loop(s) ==
    \/ InjectOutward(s) \/ InjectInward(s) \/ GlobalExec(s) \/ ToGravity(s) \/ PushShard(s)
    \/ Shard(s) \/ LocateFails(s) \/ ToDriver(s) \/ ToHyperway(s) \/ ToHyperwayPanics(s)
    \/ FromHyperwayExceeded(s) \/ FromHyperwayHome(s) \/ Forward(s) \/ ForwardPanics(s)
    \/ PushHop(s)

Next ==
    \/ \E w \in Waves : Send(w)
    \/ \E s \in Stars : Enqueue(s) \/ EnqueueFails(s) \/ Loop(s) \/ Travel(s) \/ Lose(s)

Spec == Init /\ [][Next]_vars

\* tokio runs every loop, task and relay that can go on; hops and waves are bounded.
Fairness ==
    \A s \in Stars : WF_vars(Enqueue(s)) /\ WF_vars(EnqueueFails(s)) /\ WF_vars(Loop(s))
                     /\ WF_vars(Travel(s))
FairSpec == Spec /\ Fairness

-----------------------------------------------------------------------------
(* Properties.                                                             *)

Reasons == {"lost", "unlocated", "dead", "no way", "hops"}

TypeOK ==
    /\ scene \in Scenes
    /\ sent \subseteq Waves
    /\ pending \in [Stars -> SUBSET Calls]
    /\ calls \in [Stars -> Seq(Calls)] /\ \A s \in Stars : Len(calls[s]) <= CallCap
    /\ hand \in [Stars -> Calls \cup {Nothing}]
    /\ out \in [Stars -> Seq(Calls)] /\ \A s \in Stars : Len(out[s]) <= OutCap
    /\ dead \subseteq Stars
    /\ arrived \subseteq Waves \X Stars
    /\ dropped \subseteq [call : Calls, at : Stars, why : Reasons]

\* Each wave is, for each star that it concerns, in exactly one place: with a task, in a
\* channel, in a loop's hand, arrived, or given up for a reason.
Same(c, w, t) == c.wave = w /\ c.to \in {Nothing, t}
Places(w, t) ==
    UNION {{<<s, "task", c>> : c \in {x \in pending[s] : Same(x, w, t)}}
           \cup {<<s, "calls", i>> : i \in {j \in DOMAIN calls[s] : Same(calls[s][j], w, t)}}
           \cup {<<s, "out", i>> : i \in {j \in DOMAIN out[s] : Same(out[s][j], w, t)}}
           \cup {<<s, "hand", x>> : x \in {c \in {hand[s]} \ {Nothing} : Same(c, w, t)}}
           \cup {<<s, "arrived", x>> : x \in arrived \cap {<<w, t>>} \cap {<<w, s>>}}
           \cup {<<s, "dropped", d>> : d \in {x \in dropped : x.at = s /\ Same(x.call, w, t)}}
           : s \in Stars}
Goals(w) == IF scene.to[w] = Global THEN {scene.from[w]} ELSE Concerned(scene.from[w], w)
Accounted == \A w \in sent : \A t \in Goals(w) : Cardinality(Places(w, t)) = 1

\* The webs with a hub: each star has a hyperway to every other one, as the hub itself and the
\* machine's star have, or the hub is the only adjacent one that forwards.
Members == {s \in Stars : scene.adjacents[s] # {}}
HubWeb(hub) ==
    /\ scene.adjacents[hub] = Members \ {hub}
    /\ \A s \in Members : /\ scene.adjacents[s] \subseteq Members
                          /\ scene.adjacents[s] = Members \ {s} \/ Forwarders(s) = {hub}
Local == \A w \in Waves : scene.from[w] \in Members /\ scene.to[w] \in Members \cup {Everyone, Global}

\* In such a web, which the default template's is (a nexus forwards, a machine's star does
\* not), and with locations in it, no transport is ever given up by a router: not for its
\* hops, not for want of a way, and no loop panics.  No other star than the hub may be
\* between a wave's first star and its last.
HubDelivers ==
    (\E hub \in Stars : HubWeb(hub)) /\ Local =>
       /\ dead = {}
       /\ \A d \in dropped : d.why \in {"lost", "unlocated"}

\* All waves that were sent have arrived at each star that they concern or been given up,
\* again and again, also where transports circle between stars that only have each other to
\* forward to; unless a loop waits for room in its own channel, which nobody else empties.
Jammed(s) == hand[s] # Nothing /\ hand[s].op = "ToGravity" /\ Len(calls[s]) = CallCap
Settled(w, t) ==
    \/ <<w, t>> \in arrived
    \/ \E d \in dropped : Same(d.call, w, t)
AllArrive ==
    []<>(\/ \A w \in sent : \A t \in Goals(w) : Settled(w, t)
         \/ \E s \in Stars : Jammed(s))
=============================================================================
