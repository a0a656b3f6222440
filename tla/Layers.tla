------------------------------- MODULE Layers -------------------------------
(***************************************************************************)
(* How a ping and its pong pass the layers of the particles of one star:   *)
(* cosmic-hyperspace/src/star.rs (LayerTraversalEngine), layer/field.rs,   *)
(* layer/shell.rs, driver/mod.rs, and cosmic-space particle/traversal.rs.  *)
(*                                                                         *)
(* A particle's core injects a ping, which goes up through the particle's  *)
(* own layers to gravity and comes down at the recipient.  There the Field *)
(* looks for the route that the particle is bound to and runs its pipeline:*)
(* each stop is a ping of its own, by which the Field asks the particle's  *)
(* core or another particle, and whose answer comes back to the Field; the *)
(* last stop reflects.  Who asks gets an answer, or its timer tells it.    *)
(*                                                                         *)
(* Every task is one record of `flight`.  Transports between stars are     *)
(* Router's, provisioning is Provision's, and the exchanger is Exchanger's *)
(* (whose names are others than those here: one module proves about both). *)
(***************************************************************************)
EXTENDS Naturals, Sequences, FiniteSetsExt, Functions

CONSTANTS
    Points,     \* the particles that are spoken of
    Star,       \* the star's own one
    Asks,       \* what the particles' cores ask
    Together,   \* sets of asks that are made beside each other (a bound)
    Asker,      \* Asker[k] \in Points
    Asked,      \* Asked[k], a surface
    Plan,       \* Plan[p], the layers of its kind's traversal plan, loc.rs:44-72
    Bind,       \* Bind[p], the stops of the pipeline of its route; << >> when no route matches
    Configured  \* particles whose bind is a property of their record, not their item's

\* Layers by their ordinals; Nowhere is no layer.
Gravity == 0
Field == 1
Shell == 2
Guest == 5
Core == 6
Nowhere == 7

Surface(p, layer) == [point |-> p, layer |-> layer]

ASSUME LayersAssumption ==
    /\ Star \in Points /\ IsFiniteSet(Points)
    /\ Asker \in [Asks -> Points] /\ Asked \in [Asks -> [point : Points, layer : Gravity..Core]]
    /\ Plan \in [Points -> SUBSET (Field..Core)]
    /\ \A p \in Points : {Field, Shell, Core} \subseteq Plan[p]
    /\ Bind \in [Points -> Seq(Points \cup {"core", "reflect"})]
    /\ {"core", "reflect"} \cap Points = {}

VARIABLES
    scene,          \* the particles that have a record, a shell on the star, an item of a driver
    flight,         \* waves under way: injections, traversals, waves at gravity
    pipes,          \* pipelines that run
    waiting,        \* what the star's exchanger has a sender for
    heard,          \* by asking, what whoever asked was told
    came,           \* askings whose pong came to the exchanger, late ones too
    lost,           \* askings of which a wave was dropped, and that only logged
    handled         \* what was handled: by which surface, for which asking, how, and for whom

layersVars == <<scene, flight, pipes, waiting, heard, came, lost, handled>>

\* An asking is named by a path: an ask of a core, then the pipelines' stops that it led to.
\* (The code's names are unique numbers.)
\* A pong has the name of the ping it reflects.
Ping(id, from, to, via) == [kind |-> "ping", id |-> id, from |-> from, to |-> to, back |-> via]
Pong(ping, from, outcome) ==
    [kind |-> "pong", id |-> ping.id, from |-> from, to |-> ping.back, outcome |-> outcome]

Injected(wave, layer, fromGravity) ==
    [step |-> "inject", wave |-> wave, layer |-> layer, gravity |-> fromGravity]
AtGravity(wave) == [step |-> "gravity", wave |-> wave]

LayersInit ==
    /\ \E absent \in SUBSET (Points \ {Star}) :
          /\ Cardinality(absent) <= 1
          /\ scene \in
                {[registered |-> Points \ absent, shelled |-> Points, served |-> Points],
                 [registered |-> Points, shelled |-> Points \ absent, served |-> Points \ absent],
                 [registered |-> Points, shelled |-> Points, served |-> Points \ absent]}
    /\ flight = {} /\ pipes = {} /\ waiting = {} /\ heard = << >>
    /\ came = {} /\ lost = {} /\ handled = {}

\* The flight f goes on as the flights of a set, or is dropped with a line in the log.
Becomes(f, next) == flight' = (flight \ {f}) \cup next /\ UNCHANGED lost
Logged(f) == flight' = flight \ {f} /\ lost' = lost \cup {f.wave.id}

-----------------------------------------------------------------------------
(* The plan of a particle's kind.                                          *)

MutAbove(p, layer) == {l \in Plan[p] : l <= layer}

Above(p, layer) == {l \in Plan[p] : l < layer}
Below(p, layer) == {l \in Plan[p] : l > layer}

NextLayer(p, dir, layer) ==
    IF dir = "fabric"
    THEN IF Above(p, layer) = {} THEN Nowhere ELSE Max(Above(p, layer))
    ELSE IF Below(p, layer) = {} THEN Nowhere ELSE Min(Below(p, layer))

-----------------------------------------------------------------------------
(* LayerTraversalEngine.                                                   *)

MutHasLayer(layer) == layer = Shell

HasLayer(layer) == layer \in {Field, Shell}

\* To the tasks that await what leaves the layers: gravity's above, the drivers' below.
Exit(t) == IF t.dir = "fabric" THEN AtGravity(t.wave) ELSE [t EXCEPT !.step = "driver"]

CanVisit(t) == t.layer = Shell => t.point \in scene.shelled

\* A task for the layer, whose Shell must be there; what is no layer of the star is an exit.
VisitLayer(t) == IF HasLayer(t.layer) THEN [t EXCEPT !.step = "visit"] ELSE Exit(t)

SamePoint(wave) == wave.from.point = wave.to.point

Direction(i) ==
    IF i.gravity \/ (SamePoint(i.wave) /\ i.layer < i.wave.to.layer) THEN "core" ELSE "fabric"

Destination(i) ==
    IF i.gravity \/ SamePoint(i.wave) THEN i.wave.to.layer ELSE Nowhere

\* The traversal that an injection begins, at the layer it was injected into or, when the
\* star does not have that one, at the next.
Traversal(i) ==
    LET dir == Direction(i)
        owner == IF dir = "core" THEN i.wave.to.point ELSE i.wave.from.point
        next == NextLayer(i.wave.to.point, dir, i.layer)
    IN  [step |-> "start", wave |-> i.wave, to |-> i.wave.to, dir |-> dir,
         dest |-> Destination(i), point |-> owner,
         layer |-> IF HasLayer(i.layer) \/ next = Nowhere THEN i.layer ELSE next]

\* A record, the layer in the plan, and the shell that is visited first.
CanStart(i) ==
    /\ i.wave.to.point \in scene.registered
    /\ ~i.gravity /\ SamePoint(i.wave) =>
           i.wave.to.layer = Gravity \/ i.wave.to.layer \in Plan[i.wave.to.point]
    /\ CanVisit(Traversal(i))

Start(i) ==
    /\ i.step = "inject" /\ CanStart(i)
    /\ Becomes(i, {VisitLayer(Traversal(i))})
    /\ UNCHANGED <<scene, pipes, waiting, heard, came, handled>>

\* A ping that cannot start is reflected as an error, from the same place.
StartFails(i) ==
    /\ i.step = "inject" /\ ~CanStart(i)
    /\ IF i.wave.kind = "ping"
       THEN Becomes(i, {Injected(Pong(i.wave, Surface(Star, Core), "err"), i.layer, FALSE)})
       ELSE Logged(i)
    /\ UNCHANGED <<scene, pipes, waiting, heard, came, handled>>

TraverseToNextLayer(t) ==
    LET next == NextLayer(t.to.point, t.dir, t.layer)
        there == IF t.layer = t.dest THEN t ELSE [t EXCEPT !.layer = next]
    IN  /\ t.step = "next"
        /\ IF t.layer # t.dest /\ next = Nowhere
           THEN IF t.dir = "fabric" THEN Becomes(t, {Exit(t)}) ELSE Logged(t)
           ELSE IF CanVisit(there) THEN Becomes(t, {VisitLayer(there)}) ELSE Logged(t)
        /\ UNCHANGED <<scene, pipes, waiting, heard, came, handled>>

-----------------------------------------------------------------------------
(* The exchanger.                                                          *)

Tell(id, outcome) ==
    heard' = [i \in DOMAIN heard \cup {id} |-> IF i = id THEN outcome ELSE heard[i]]

\* A pong that comes later than the timer finds nobody.
PongComes(t) ==
    /\ came' = came \cup {t.wave.id}
    /\ waiting' = waiting \ {t.wave.id}
    /\ IF t.wave.id \in waiting THEN Tell(t.wave.id, t.wave.outcome) ELSE UNCHANGED heard
    /\ Becomes(t, {})
    /\ UNCHANGED <<scene, pipes, handled>>

Expect(ping) == waiting' = waiting \cup {ping.id}

\* A stop's timer is as long as that of the ask that led to it, and starts later.
AskTimesOut(id) ==
    /\ id \in waiting
    /\ Len(id) > 1 => SubSeq(id, 1, Len(id) - 1) \notin waiting
    /\ waiting' = waiting \ {id}
    /\ Tell(id, "timeout")
    /\ UNCHANGED <<scene, flight, pipes, came, lost, handled>>

-----------------------------------------------------------------------------
(* Field and Shell.                                                        *)

Visits(t, layer) == t.step = "visit" /\ t.layer = layer
Directed(t) == t.wave.kind = "ping"

\* What is neither delivered to the layer nor kept by its Field goes on.
PassOn(t) ==
    /\ t.step = "visit" /\ t.dest # t.layer
    /\ ~(t.layer = Field /\ Directed(t) /\ t.dir = "core")
    /\ Becomes(t, {[t EXCEPT !.step = "next"]})
    /\ UNCHANGED <<scene, pipes, waiting, heard, came, handled>>

DeliverReflected(t) ==
    /\ t.step = "visit" /\ t.dest = t.layer /\ ~Directed(t)
    /\ PongComes(t)

\* A Field handles no ping itself.
FieldRefuses(t) ==
    /\ Visits(t, Field) /\ t.dest = Field /\ Directed(t)
    /\ Logged(t)
    /\ UNCHANGED <<scene, pipes, waiting, heard, came, handled>>

\* What the log of the handlers keeps of a ping that a surface handled.
Record(wave, surface, outcome) ==
    handled' = handled \cup {[id |-> wave.id, at |-> surface, outcome |-> outcome,
                              from |-> wave.from.point, back |-> wave.back]}

\* A session of the command line is for the particle itself.
ShellHandles(t) ==
    /\ Visits(t, Shell) /\ t.dest = Shell /\ Directed(t)
    /\ LET outcome == IF t.wave.from.point = t.point THEN "ok" ELSE "err"
           shell == Surface(t.point, Shell)
       IN  /\ Record(t.wave, shell, outcome)
           /\ Becomes(t, {Injected(Pong(t.wave, shell, outcome), Shell, FALSE)})
    /\ UNCHANGED <<scene, pipes, waiting, heard, came>>

\* What cannot be bound is only logged.  (A command has a pipeline without a route as well.)
Bound(t) ==
    /\ t.point \in scene.registered /\ t.point \in scene.served \cup Configured
    /\ Bind[t.point] # << >>

RunPipeline(t) ==
    /\ Visits(t, Field) /\ t.dest # Field /\ Directed(t) /\ t.dir = "core"
    /\ Bound(t)
    /\ pipes' = pipes \cup {[traversal |-> t, rest |-> Bind[t.point], asks |-> FALSE]}
    /\ Becomes(t, {})
    /\ UNCHANGED <<scene, waiting, heard, came, handled>>

NoRoute(t) ==
    /\ Visits(t, Field) /\ t.dest # Field /\ Directed(t) /\ t.dir = "core"
    /\ ~Bound(t)
    /\ Logged(t)
    /\ UNCHANGED <<scene, pipes, waiting, heard, came, handled>>

-----------------------------------------------------------------------------
(* PipeEx: the stops of a pipeline, one after the other.                   *)

PipeId(x) ==
    Append(x.traversal.wave.id, [of |-> x.traversal.to, stop |-> Head(x.rest), left |-> Len(x.rest)])
PipeField(x) == Surface(x.traversal.point, Field)

\* Asks the particle's own core, by the traversal that came to the Field.
CorePing(x) ==
    Ping(PipeId(x), x.traversal.wave.from, Surface(x.traversal.point, Core), PipeField(x))

StopCore(x) ==
    /\ x.rest # << >> /\ ~x.asks /\ Head(x.rest) = "core"
    /\ pipes' = (pipes \ {x}) \cup {[x EXCEPT !.asks = TRUE]}
    /\ Expect(CorePing(x))
    /\ flight' = flight \cup {[x.traversal EXCEPT !.wave = CorePing(x), !.step = "next"]}
    /\ UNCHANGED <<scene, heard, came, lost, handled>>

\* Asks another particle, through gravity, as the star.
StopPoint(x) ==
    /\ x.rest # << >> /\ ~x.asks /\ Head(x.rest) \in Points
    /\ pipes' = (pipes \ {x}) \cup {[x EXCEPT !.asks = TRUE]}
    /\ LET ping == Ping(PipeId(x), Surface(Star, Core), Surface(Head(x.rest), Core), PipeField(x))
       IN  Expect(ping) /\ flight' = flight \cup {AtGravity(ping)}
    /\ UNCHANGED <<scene, heard, came, lost, handled>>

Answered(x) == x.asks /\ PipeId(x) \in DOMAIN heard

MutSucceeded(x) == TRUE

Succeeded(x) == heard[PipeId(x)] = "ok"

StopAnswered(x) ==
    /\ Answered(x) /\ Succeeded(x)
    /\ pipes' = (pipes \ {x}) \cup {[x EXCEPT !.asks = FALSE, !.rest = Tail(x.rest)]}
    /\ UNCHANGED <<scene, flight, waiting, heard, came, lost, handled>>

ReflectError(x) ==
    /\ pipes' = pipes \ {x}
    /\ flight' = flight \cup {AtGravity(Pong(x.traversal.wave, PipeField(x), "err"))}
    /\ UNCHANGED <<scene, waiting, heard, came, lost, handled>>

\* The first stop that fails ends the pipeline and is what the asker is told.
StopFails(x) ==
    /\ Answered(x) /\ ~Succeeded(x)
    /\ ReflectError(x)

\* The body is not what a step of the pipeline requires.
StepFails(x) ==
    /\ x.rest # << >> /\ ~x.asks
    /\ ReflectError(x)

StopReflect(x) ==
    /\ x.rest # << >> /\ Head(x.rest) = "reflect"
    /\ pipes' = (pipes \ {x}) \cup {[x EXCEPT !.rest = Tail(x.rest)]}
    /\ flight' = flight \cup {AtGravity(Pong(x.traversal.wave, x.traversal.to, "ok"))}
    /\ UNCHANGED <<scene, waiting, heard, came, lost, handled>>

PipeEnds(x) ==
    /\ x.rest = << >>
    /\ pipes' = pipes \ {x}
    /\ UNCHANGED <<scene, flight, waiting, heard, came, lost, handled>>

-----------------------------------------------------------------------------
(* Gravity, which is to_gravity, shard and locate; and the drivers.        *)

ToGravity(g) ==
    /\ g.step = "gravity"
    /\ IF g.wave.to.point \in scene.registered
       THEN Becomes(g, {Injected(g.wave, Gravity, TRUE)})
       ELSE Logged(g)
    /\ UNCHANGED <<scene, pipes, waiting, heard, came, handled>>

ToDriver(t) == t.step = "driver" /\ t.to.point \in scene.served

\* The item's handler answers well, or ill, or not at all.  The pong goes in at Guest.
Handle(t) ==
    /\ ToDriver(t) /\ Directed(t)
    /\ LET core == Surface(t.to.point, Core)
       IN  \E outcome \in {"ok", "err", "absorbed"} :
              /\ Record(t.wave, core, outcome)
              /\ Becomes(t, IF outcome = "absorbed" THEN {}
                            ELSE {Injected(Pong(t.wave, core, outcome), Guest, FALSE)})
    /\ UNCHANGED <<scene, pipes, waiting, heard, came>>

HearAnswer(t) ==
    /\ ToDriver(t) /\ ~Directed(t)
    /\ PongComes(t)

NoItem(t) ==
    /\ t.step = "driver" /\ t.to.point \notin scene.served
    /\ Logged(t)
    /\ UNCHANGED <<scene, pipes, waiting, heard, came, handled>>

-----------------------------------------------------------------------------
Made == {k \in Asks : <<k>> \in waiting \cup DOMAIN heard}

\* A core asks, by the transmitter that its item was given.
Ask(k) ==
    /\ k \notin Made /\ \E session \in Together : Made \cup {k} \subseteq session
    /\ Asker[k] \in scene.registered \cap scene.shelled \cap scene.served
    /\ LET core == Surface(Asker[k], Core)
           ping == Ping(<<k>>, core, Asked[k], core)
       IN  Expect(ping) /\ flight' = flight \cup {Injected(ping, Core, FALSE)}
    /\ UNCHANGED <<scene, pipes, heard, came, lost, handled>>

Fly(f) ==
    \/ Start(f) \/ StartFails(f) \/ TraverseToNextLayer(f) \/ PassOn(f) \/ DeliverReflected(f)
    \/ FieldRefuses(f) \/ ShellHandles(f) \/ RunPipeline(f) \/ NoRoute(f)
    \/ ToGravity(f) \/ Handle(f) \/ HearAnswer(f) \/ NoItem(f)

Pipe(x) ==
    \/ StopCore(x) \/ StopPoint(x) \/ StopAnswered(x) \/ StopFails(x)
    \/ StepFails(x) \/ StopReflect(x) \/ PipeEnds(x)

Work ==
    \/ \E f \in flight : Fly(f)
    \/ \E x \in pipes : Pipe(x)
    \/ \E id \in waiting : AskTimesOut(id)

LayersNext == Work \/ \E k \in Asks : Ask(k)

LayersSpec == LayersInit /\ [][LayersNext]_layersVars /\ WF_layersVars(Work)
-----------------------------------------------------------------------------
(* Properties.                                                             *)

\* The stops that a pipeline passes before it reflects, and the ways on which the pipelines
\* of particles ask those of others (none leads in a circle: a shorter one goes as far).
Stops(p) == {Bind[p][j] : j \in {j \in DOMAIN Bind[p] : \A i \in 1..j : Bind[p][i] # "reflect"}}
Ways ==
    {w \in UNION {[1..n -> Points] : n \in 1..Cardinality(Points)} :
        \A i \in 1..Len(w) - 1 : w[i + 1] \in Stops(w[i])}

\* A stop at the core is the particle's core, or its shell if that was asked for.
Answerer(to) == IF to.layer = Shell THEN to ELSE Surface(to.point, Core)
WayEnd(w, to) == IF Len(w) = 1 THEN Answerer(to) ELSE Surface(w[Len(w)], Core)

\* The surfaces that have to do their part before a ping that comes to the Field of `to` is
\* answered well.
Answerers(to) == {WayEnd(w, to) : w \in {w \in Ways : w[1] = to.point /\ "core" \in Stops(w[Len(w)])}}

\* A core that asks its own shell needs no Field, if no layer of the plan is between them.
Direct(k) ==
    /\ Asked[k] = Surface(Asker[k], Shell)
    /\ NextLayer(Asker[k], "fabric", Core) = Shell
AnswerersOf(k) == IF Direct(k) THEN {Asked[k]} ELSE Answerers(Asked[k])

\* Who is told that all is well is told so because every surface that its ask was for, by the
\* pipelines on its way, has handled it well: no answer of a timer, of another stop, or of a
\* pong for somebody else is taken for one (Reflection::make, PipeEx::direct, Exchanger).
AnsweredAsAsked ==
    \A id \in DOMAIN heard : Len(id) = 1 /\ heard[id] = "ok" =>
        \A s \in AnswerersOf(id[1]) :
            \E h \in handled : h.id[1] = id[1] /\ h.at = s /\ h.outcome = "ok"

\* No core and no shell handles a ping of another particle but as a stop of its own Field's
\* pipeline: what the particle is bound to cannot be passed by (TraversalPlan, visit).
ThroughField ==
    \A h \in handled : h.from # h.at.point => h.back = Surface(h.at.point, Field)

\* Every ask is answered by a pong, at once or after the timer of a stop, unless its own ping or
\* pong was dropped where the code only logs: no traversal goes round in the layers, and no
\* pipeline is left waiting (traverse_to_next_layer, PipeEx::start, inject).
AllAnswered ==
    \A k \in Asks : <<k>> \in waiting ~> <<k>> \in came \cup lost
=============================================================================
