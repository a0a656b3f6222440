# A verification development for cosmic-initiative

TLA+ models of the concurrent core of this repository, the TLC runs that check
them, and TLAPS proofs of the invariants that carry them.  Sources are named
relative to the root of the repository; `lib.rs` alone is
`src/rust/cosmic/cosmic-hyperlane/src/lib.rs`.

Contents: [the system](#1-the-system) · [the components](#2-inventory) ·
[the modules](#3-the-modules-and-the-code) · [the runs](#4-the-runs) ·
[fairness](#5-fairness) · [the proofs](#6-the-proofs) ·
[what the code does that its comments do not say](#7-disagreements) ·
[what is not modelled](#8-not-modelled) · [the plan](#9-the-plan)

## 1. The system

A *machine* (`cosmic-hyperspace/src/machine.rs`) hosts *stars*.  A star
(`star.rs`) is a task that moves *waves* (messages) between *particles* and other
stars, and hosts *drivers*, which own the particles of one kind.  Waves between
stars, and between a star and an outside client, travel on *hyperways*
(`cosmic-hyperlane`), a pair of queues ("lanes") through an *interchange* that all
of a star's hyperways hang on.  A client connects through a *gate* of the
interchange with a *HyperClient*, directly or over TCP.  A particle that is to get
a wave is looked up in a *registry*, and *provisioned* on some star if it is on none.
A component that asks a question keeps the answer's place in an *exchanger*
(`cosmic-space/src/wave/exchange/asynch.rs`).

Everything is tokio: tasks, bounded mpsc channels, oneshots, watches, broadcasts,
locks held over an await, and timeouts.  There is no crash recovery in the code: what
a process holds is gone with it, and nothing but the Postgres registry is
persistent.  What is hard is the interleaving.

```
 client code --> HyperClient ==(connection)==> gate --> Interchange --> star (hub)
                    |  relay, greeting            |       |  ^            |
                    '--> Exchanger                '- Hyperlane (x2) -.    v
                                                    per hyperway      drivers, layers
 Machine --Init--> star --> Drivers --Ready--> star --wait_ready--> Machine
```

Workspace crates: `cosmic-space`, `cosmic-hyperlane`, `cosmic-hyperlane-tcp`,
`cosmic-hyperspace`, `cosmic-registry-postgres`, `cosmic-nom`, `cosmic-macros*`,
`cosmic-cli`, `mechtron`, `mechtron-host`, `starlane`.  `starlane-core`,
`starlane-old`, `starlane-macros`, `cosmic-hyperlane-quic` and the mocks are excluded
by `src/rust/Cargo.toml` and are not part of the system.

## 2. Inventory

| component | state | operations | interacts with | hard because | correct when |
|---|---|---|---|---|---|
| **Hyperlane** (lib.rs 410-545) | call channel, queue, attached listener, transforms | Ext, Transform, Wave, ResetExt; send, tx, rx | interchange, clients | a send fails mid-drain and the lane posts calls to itself | waves conserved, handed over once, in order; no idle backlog |
| **Interchange and gates** (lib.rs 540-720, 1140-1200) | hyperways, singular_to, forwarders | Internal, Remove, Mount, Wave; enter of two gates; drop event | lanes, sessions, hub | sessions come, go and give up between two calls | mount finds its hyperway; remotes only reach the hub; waves accounted for; leavers removed |
| **HyperClient** (lib.rs 1280-1840) | endpoint, status, waves in both directions | connect, retry, relay, reset, close, greeting | gate, users, exchanger | three tasks, a connection that is replaced under them | no reordering, only the failing wave lost; comes back; final statuses final |
| **Exchanger, direct** (asynch.rs) | singles, multis, aggregators, timers | exchange, reflected, timeouts | every requester | two maps without a common lock, late and repeated replies | everybody waiting is answered, and by what they asked for |
| **Machine** (machine.rs) | call loop, aggregated status, stars | Init, WaitForReady, EndpointFactory, AwaitTermination, Terminate | stars, main | everybody waits for everybody; watches read while they change | Ready is honest; nobody waits for ever; termination lets all go |
| **Drivers** (driver/mod.rs, star.rs 770-816) | factories left, status map, drivers' runners | init0, create, AddDriver, listen, status task | DriverDriver, star loop | one status slot for all drivers, three reads of one watch | Ready means all; what is unwrapped is there; the star starts as the machine assumes |
| **Star router** (star.rs 900-1224) | call channel, adjacents, hops | FromHyperway, ToGravity, ToHyperway, Shard | lanes, layers, registry | the loop posts to itself; ripples are split and partly fail | no wave doubled or silently lost, hops bounded, the default web delivers |
| **Search, wrangling** (star.rs 1226-1296, driver/star.rs 532-838) | history, echoes, nearest stars | wrangle, search, round robin | router, exchanger | a ripple over a graph that counts its echoes | goes in no circle, finds all that is there, ends |
| **Provisioning** (star.rs 2000-2080, driver/star.rs 383-500, global.rs 168-256) | locations, selectors, shells | locate, provision, assign, create | registry, drivers | two callers for one particle, half-done assignments | where the registry sends waves there is a shell and a driver; all tasks end; turns are fair |
| **Layers** (star.rs 1323-1670, particle/traversal.rs, layer/*.rs) | traversal position, pipelines, requests | start, next, deliver, field pipelines | router, exchanger | direction and destination are decided apart; timers within timers; errors that are only logged | who is told that all is well was served by every stop; nobody passes a Field by; every asker learns what became of it |
| **Registry** (mem/registry.rs, cosmic-registry-postgres) | records, properties, access grants | register, assign, status, sequence, access, delete | provisioning | steps of several callers; recursion over grants | point registered once; access terminates |
| **TCP hyperlane** (cosmic-hyperlane-tcp) | frames, handshake, mux | handshake of both ends, mux, server | gate, HyperClient | `select!` over a read that cannot be cancelled; two full ends | what is heard is what was sent, in order, without a gap; both ends end together |
| **Mechtron host** (mechtron-host) | wasm memory, host runners | start, wave_to_host, wave_to_guest | drivers | blocking call-backs into the host that is calling | calls one at a time |

The remaining parts (types, parsers, macros, logging, authenticators, drivers that do
file I/O, command line) are in `PROJECT.json` with the reason why they are left out.

## 3. The modules and the code

`map` in `PROJECT.json` has the lines of every definition.  Every `.await` that gives
another task a chance is a step of its own; what runs between two awaits is one step.
Operators named `Mut...` are what an action would be with a plausible mistake in it:
they are no part of a specification, and show that the runs would notice.

**Hyperlane** — one lane.  `kind` says which lane of a hyperway it is; an inbound lane
has the From and Agent transforms in its call channel from the start and one
listener that stays, an outbound one has none and clients that come and go.  `Recv*`
are the arms of the task's `match`, `Deliver` and `DeliverFails` the two outcomes of
`ext_tx.send(wave).await` in the drain, `SendReset` and `Requeue` the two calls the lane
posts to itself.  `Send`, `SendTimesOut`, `RxMake`, `RxRegister`, `Read` and `Drop` are
the other tasks.  What the transforms do to a wave is the sequence of their names
(`stamp`), so `HandsOver` can say which of them a wave has passed, and how often.

**Exchanger** — `Exchange`, `Route` and `Return` are `ProtoTransmitter::direct`;
`Reflected`, `ReflectMulti` and `ReflectSingle` the three moments of
`Exchanger::reflected`; `Timeout*` the timer tasks; `Aggregate*` the collecting loop.
`multis` and `singles` are the two DashMaps; a reflector holds the shard's guard while
it waits for room, which `Guarded` says.

**Machine** — `Recv*` are the arms of the machine's loop, `Agg*` the task that folds the
stars' watches into one status, `Waiter*` the task that a WaitForReady starts, and the
star's actions what a star does that a machine can see.  A watch is its value and a
flag per receiver.  **StarBoot** is the abstract specification of a star that starts;
Machine's `Boot`, `BootFails`, `QueueWrangling` and `BecomeReady` are its steps.

**Drivers** — how a star starts its drivers, at the grain of every channel and watch
that takes part.  It implements StarBoot under the mapping `phaseBar`, which closes the
gap between the two modules: what Machine assumes of each star is what Drivers does.

**HyperClient** — the runner's `select!` branches and the loop round them, the client's
relay with its greeting, the status task, users and peer.  Connections are numbered.
The end of the inner loop leads back to `Connecting`, as the code's `break` does.  In an
`endless` situation the connections beyond the last number are counted as that one, so
`HeardInOrder`, which tells connections apart, speaks of the other situations only.

**Interchange** — the interchange's one task, forwarders, lanes (as FIFO queues) and
the sessions of both gates.  `kind` distinguishes a star's interchange
(MountInterchangeGate, neighbours that mount what was added at the start) from the
control driver's (InterchangeGate, a hyperway per session that is removed after it).

**Router** — the loops of the stars of a web.  `pending` are the calls that tasks and
relays have for a loop, in no order, since each is a task of its own; `calls` the
loop's channel; `hand` the call whose handler awaits room in a channel inside the loop
(`PushShard` for to_gravity, `PushHop` for to_hyperway); `out` what is on its way to the
interchange.  `DefaultWeb` is what Machine::init makes of its default template: each star
has a hyperway to the nexus and, by `with_machine_star`, to the machine's own star.
The actions are the arms of `HyperStar::start` and their outcomes:
`Route` is what to_hyperway does (one way, none, or `unimplemented!`), used by a
transport's first star and by those that forward it.  `arrived` and `dropped` record
what became of each wave.  The layers between a particle and gravity are one step.

**Search** — start_wrangling, the Wrangler and handle_search_request.  An asking is named
by its round and its *path*, the stars from the wrangling one to the asker: the path is
the history of its ripple.  `asking` counts the echoes that an asker waits for, and what
they said.  `Deadline` is the wrangling star's 300-second timer, which all others
follow; `GiveUp` the 5 seconds of HyperStarApi::wrangle (star.rs:580), after which another
round begins beside the old one.  The 60 seconds that start_wrangling puts around them
(star.rs:1233) never pass.

**Provision** — SmartLocator, create, provision, the StarWrangles with its round-robin
selectors, assign, and the registry in memory.  A task has a `stack`: the particles it
provisions, each the parent of the one before.  `provisions` and `assigns` are the two
pings, per task and particle, `lock` the selector's write lock that is held over the
second one, `guard` the map's guard that a wrangling round holds while it waits for
that lock, `adding` what such a round still has to add.  `wrangles` has the
discoveries of a selector in the order of their hops, and `step` its step_index: a pick
is `index % step_index`, and `Push` is add's push with the sort after it, which computes
the step_index anew.  The hops of a discovery are those of the ripple it was found with,
which nothing counts up (from_hyperway counts the transport's, star.rs:1004), so in
the code as it is they are always 0; the model has the selector for any hops.

**TcpMux** — one TCP connection, both sides of it: handshake, muxers, the server's
`serve` and its two pumps.  A frame is two units on the wire, size and body, so that a
`select!` that drops an unfinished read can lose the first of them (`TakeOut`).

**Layers** — pings and pongs between the particles of one star.  `flight` holds every task
that has a wave, as a record whose `step` says where it is: injected, about to visit a
layer, sent on to the next, at gravity, with the drivers.  `Direction`, `Destination` and
`Traversal` are the decisions of start_layer_traversal, `Start`, `StartFails` and
`TraverseToNextLayer` the LayerTraversalEngine, `PassOn` and `Deliver*` TraversalLayer's
`visit`.  `pipes` are the PipeEx tasks, with the stops that are left and whether one is
being asked; a stop's ping is named by its asker's path and the stop, as its id is fresh.  `waiting` is
the exchanger's map, `heard` what came out of it.  `scene` lets one record, shell or item
be missing.  The ways through gravity (sharding, other stars) are Router's.

`MC*` modules give the constants their values.  `*Proofs` modules hold theorems.

## 4. The runs

All runs together take some nine minutes with two workers.  `CHECK_DEADLOCK FALSE`
everywhere: every one of these systems may come to rest, with nobody left who wants
anything.  Where a run has several *situations* (`kind`, `Scenes`, `Webs`, `Situations`),
Init chooses one, and all of them are checked.

| run | instance | shows |
|---|---|---|
| HyperlaneBoth | 3 waves, 2 listeners, call channel 3, queue threshold 1, listener channel 2 | `Conserved`: each live wave is in exactly one place and is handed over at most once, whatever fails; `NoIdleBacklog`; `HandsOver`: all waves with their lane's transforms, each applied once, and those of the inbound lane in order; there also `EventuallyDelivered` |
| HyperlaneStaleReset | 2 waves, 2 listeners, roomy channels | violation of `DrainsToListener`: a reset meant for the old listener removes the new one |
| ExchangerAnswers | a ping, a counting ripple (2 of 3 replies), a timed ripple (channel of 1, 3 replies), a signal | `AnswerOwed`, `RefusedOnlyLate`, `RepliesKept`, `OrphanedOnlyByLateReply`, `EventuallyAnswered` |
| MachineBoth | 2 stars, one connecting to the other and perhaps failing; and 1 star with an awaiting caller, terminated at any moment; call channel 2, status channel 1 | `ReadyIsHonest`, `StatusSettles`, `AllServe`, `AwaitTerminationEnds` |
| DriversStart | 3 drivers, the second may fail at registration, factory or init | `ReadyMeansAll`, `UnwrapsFind`, and `StarBoots`: Drivers implements StarBoot |
| HyperClientBoth | 2 waves out, 1 in per connection, 3 connections, status channel 1; and endless connections (3 told apart) with refusals, reset, close, users who leave | `InOrderOnce`: nothing overtakes or is repeated, in either direction, whatever fails; `ComesBack` |
| InterchangeBoth | a star with 2 hyperways and a neighbour that mounts twice; a control driver with 2 entrants; 2 waves of the hub, 1 of each session, channels of 2 | `MountFinds`, `OnlyThroughHub`, `InOrderPerSender`, `Accounted`, `LeaversRemoved`, `ReachesHub` |
| RouterWebs | 3 stars, of which the last may only be a name in the registry, and the machine's own, in 6 scenes, 4 waves, call channel 2, interchange channel 1, 2 hops, 1 loss | `Accounted`: for each star it concerns a wave is in exactly one place, or given up for a reason; `HubDelivers`: a web with a hub, such as the default one, gives up none; `AllArrive` |
| SearchWebs | 4 stars in 4 webs, 2 rounds, 1 fault | `WrangledMeansAll`: a result that is accepted is complete; `NoCircles`; `WranglesAtLast` |
| ProvisionTasks | 4 stars, 4 particles in 3 generations, 2 tasks in 4 situations, two stars to take turns that are equally near, farther both, or one nearer, a slow round that finds one more, 1 message lost, timers and drivers that fail at any moment | `HomesServe`, `UnwrapsParent`, `FairTurns`, `AllEnds` |
| TcpMuxBoth | equal or different versions, 3 waves of the client, 2 of the server, buffers of one frame, channels of 1 | `HeardFromTheFirst`, `Flows`, `EndsTogether`: both sides and the server's session |
| LayersAsks | 4 particles, one of which has the Portal, Host and Guest layers and a pipeline that asks another; 5 asks in 3 sessions; one record, shell or item missing; handlers that refuse or keep silent | `AnsweredAsAsked`, `ThroughField`, `AllAnswered` |

Why the bounds are enough.  *Channels* hold 1024 calls in the code and one to three
here, so that full channels, lost requeues, timeouts and evictions happen within few
steps; no action depends on a capacity but by being full or not.  *Waves*: order and
duplication are about two waves, eviction and requeueing about a third between them.
*Listeners, sessions, connections*: a stale reset, a second mount and a replaced
connection need two; the third connection shows that what holds after one
replacement holds after the next.  *Stars of a machine*: an aggregator that reads one
star before and one after a change needs two; more add no kind of interleaving, since
stars do not see each other but through the machine.  *Webs*: routing and searching
depend on a star's own adjacents and on the path behind it.  A nexus between two stars that
are not adjacent to each other, and the machine's star that is adjacent to all and does not
forward, are all that the default template's web is made of; its further stars are like
those two.  A web with one more forwarder has two ways to one star (Search) or a loop that
panics (Router).  *Hops of a transport*: the code allows 255; with 2 one of the default web
just arrives and one that circles is given up.  *Hops of a discovery*: 0 or 1, since it
only matters which are the nearest; those that the slow round finds have 0.
*Particles*: a grandparent, a parent that both tasks need, and two children.  *Tasks*: two
that locate, two that create, and one of each, of the same particle and of parent and
child.  *Drivers*: the first is the DriverDriver, the second exercises what is passed to
it, the third that one failing driver stops what comes after.  *Waves of an exchanger*
share nothing but the two maps, each under its own key, so the run puts each kind of
ripple beside a ping (`Sessions`), not both ripples side by side.  With connections
without end HyperClientBoth has no waves of users or peer: they would be without number.

*Asks of a core*: the
five kinds (to a particle that asks another, to that other, to one's own shell, to
somebody else's, to a Field) share the exchanger's map under their own keys and the
layers without a lock, so `Together` puts two beside each other where one's stop and the
other meet at one particle, and where both come back to one core.

Named bounds of the models: `Sessions` (Exchanger), `Together` (Layers), `Outgoing`, `Incoming` and
`MaxLinks` (HyperClient; `endless` situations lift the last), `HubWaves` and `OwnWaves`
(Interchange), `MaxHops` and `MaxFaults` (Router), `MaxRounds` and `MaxFaults` (Search),
`MaxLost` (Provision), `MaxWaves` and `WireCap` (TcpMux), and the finite sets of waves,
listeners, stars, drivers, callers and tasks.

## 5. Fairness

Weak fairness per task: tokio polls a task that has been woken, so a task that can go
on does.  Timers fire.  `Driver::init` returns, and a factory that is tried every second
succeeds at last.  Nothing obliges a sender to send, a user to close, a peer to stay
or a reply to arrive.

Two places need more.  The runner of a HyperClient sits in a `select!` that chooses at
random among its ready branches; a branch that is ready again and again is
taken (strong fairness of its two groups of branches).  In Interchange waves and
sessions are bounded, every behaviour ends, and weak fairness of each group of tasks is
the same as fairness of each task.  The same is true of Search, Provision and Layers, whose
rounds, tasks, faults and asks are bounded, so one condition (`WF_vars(Go)`, `WF_vars(Work)`)
says that tasks run, timers fire and what is not lost arrives.  In Layers a traversal that
went round for ever would be a behaviour of `Work` that never ends, which is how
`AllAnswered` would notice one.  A stop's timer there runs out only after that of the ask
that led to it: it is set later, and is as long.  Router has weak
fairness of each star's loop, of the tasks that wait for its channel and of its
hyperways; TcpMux of each side's handshake, muxer and users: a user finds out that its
muxer is gone, and the interchange has waves for its client.

## 6. The proofs

TLC checks small instances; the theorems hold for every set of waves, listeners,
reflections, stars, webs, particles, tasks, callers and sessions and every capacity, from the assumptions
named in the modules (`CapAssumption`, `NameAssumption`, `FilterAssumption`;
`WaveAssumption`, `ReflectionAssumption`, `NoneAssumption`; `MachineAssumption`;
`FactoriesAssumption`; `InterchangeAssumption`; `RouterAssumption`; `SearchAssumption`;
`ProvisionAssumption`; `TcpMuxAssumption`; `ClientAssumption`; `LayersAssumption`): capacities are positive, the installed transforms fit into
the call channel, names are distinct, only waves with bounce-backs are reflected, a
machine has finitely many stars and at least one, a star's factories are distinct, the
first is the DriverDriver and its own driver is another, the hub is nobody's remote, a
transport may take two hops, a particle is deeper than its parent, what is provisioned
is registered, every plan of layers has Field, Shell and Core in it (loc.rs:44-72).

**HyperlaneProofs.**  `TypeCorrect`: `TypeOK` is inductive because it ties the program
counter to what the task holds (it requeues exactly while it has a failed wave, drains
only a queue with something in it and only to somebody).  `QueueIsBounded`: RecvWave is
the only step that adds, and it trims first, so the queue holds at most one wave more
than its threshold.  `NeverIdleWithBacklog`: every way back to `recv` passes the
test for something to drain, or has drained everything.  `WavesConserved`: its two halves
need each other.  A wave handed over is not handed over again because a queued wave is
live and a handed one is not (`ConservedInLane` needs `DeliveredOnce`), and a dropped
listener takes no live wave with it because all it was handed is done.
`HandsOverInOrder`: on an inbound lane nothing fails, so no wave goes back to the end of
the call channel; the queue is sorted by acceptance, the channel too, and all of the queue
is before all of the channel (`Sorted`), so that what is handed over, the queue's front,
is earlier than every live wave, which by `Conserved` is in one of the two.  And it has
passed each transform of its lane once (`StampInv`): those that are not in effect yet are
the channel's first calls (`Ahead`), so that a wave which is taken finds all of them; and
a wave which is taken twice is on an outbound lane, which has none.  The lemmas say what Append, Tail and Trim do to "this wave is in this sequence".
The module is also about the other end of a hyperway, HyperClient (whose names are
disjoint for that).  `ClientInOrderOnce`, towards the peer: the endpoints in the order of
their connections and then the users' queue are stages that a wave passes through
(`SentInv`); each is in order, a wave of an earlier stage is older than one of a later, and
connections yet to come have had none, which is why a wave may go into the newest endpoint.
From the peer: all that was read and not dropped is one chain (`Story`), of which a first
part has reached the relay, a second waits between runner and relay, and a last is in the
endpoint; a connection that is let go cuts the last part off, and a new one goes on with a
greeting and a greater number.

**ExchangerProofs.**  `TypeCorrect`; `AnswersAreOwed`: whoever takes the sender out of
`singles` answers with it; `OnlyLateRepliesRefused`: since the wave is registered
before it is routed, a reply that finds nobody finds that somebody else has answered;
`OrphansHaveOneCause`: the one way to an aggregator without a oneshot is the late reply
that its own timer makes possible (see section 7); `RepliesAreKept`: a reply that was
put into an aggregator's channel is in it or with the aggregator, once, and stays there
until it answers with what it holds, when the count is reached or its time is up
(`KeptInv`).  The inductive invariants add to these what each program
point knows: a reflector that is sending saw its wave in `multis`, an aggregator that
is running has its wave in `singles` or `answer` set.

Its waves in the layers of a star, for any plans and pipelines: `LayersAnswersWell` and
`LayersPassField`.  A ping has one of three ways (`GoesWell`): up from the core that asks,
which ends at that particle's own shell if no layer is between, or at gravity; to the Field
of whom it is for; and, as a stop that the Field asks, down to the shell or the core, with
the Field as the place its pong goes back to.  What lies between on a plan follows from
`PlanFacts`: from gravity the next layer towards the core is the Field, from the Field the
Shell, and from there none of the two again.  `ThroughField` is read off the last way.
Of answers the invariant says that whoever has been told, or has a pong under way that
says, that all is well, is `Fulfilled`: whatever had to answer for it has handled it well.
An asking's name tells what that is (`Owed`): a stop at a core needs the core, one at
another particle all that this one's pipeline asks.  `RunsWell` keeps for every stop that a
pipeline has behind it that it is fulfilled, so the pipeline may reflect well
(`ReflectFulfills`): a way on which particles ask each other goes first to one of its stops.

**StartupProofs.**  How a machine comes up: Machine and Drivers.  `TypeCorrect`; `ReadyNeverTooEarly`: a Ready that a machine or a
waiter reads means that every star has been Ready.  The strengthening `ReadyBacked`
follows Ready on its way: a star whose watch says so, or that the aggregator has read
so, is in `upOnce`, which only grows; the aggregator counts as many Readys as there are
stars, so (`ReadyVerdict`, by the cardinality of subsets of a finite set) it has seen
every one; and what the machine publishes, and a
waiter reads, is a verdict that was under way in the status queue.

For the drivers of a star, `StarReadyMeansAll`: the star is told Ready only when all its
drivers are, although the map that the listener reads shows the driver started last and
no other.  The next factory is only taken after a listener saw that one Ready, and
a driver that was Ready stays so; hence `InTurn` (the drivers before the last one are
Ready, those after it untouched), which needs that a driver starts once (`Once`: it
waits, then is told, then initialises itself, then has said how that ended), that
whoever initialises itself was made, registered and made known on the way (`Backed`), that
the channels hold only what concerns the driver started last (`Channels`), and that
either an Init0 is under way or a listener is (`Handing`).  A Ready that the star is told
comes from the final listener, which is started when no factory is left (`ReadyTold`).
`UnwrapsNeverFail` follows from the same invariant.  `StarBootsSafely` is the refinement
of StarBoot without its fairness: every step of the star is one of StarBoot's or
a stutter, because Ready and Fatal are each the last that the star is told (`Last`) and
StartWrangling has been sent before Ready is published (`Published`), though the status
task reads the watch three times for one decision.

**InterchangeProofs.**  `TypeCorrect`; `RemotesTalkToHub`: nobody but the hub hears
anybody but the hub.  `HubBetween` is why: the inbound transforms leave no wave of
anyone else that is not addressed to the hub, an outbound lane holds only what is
addressed to it, and its listener is the one that mounted it.  `MountsNeverFail`: a
Mount finds its hyperway.  `Mountable` says that the Internal which adds it stands
ahead of the Mount in the call channel, or has been taken; and that a Remove is in the
channel only for a session that is gone, so none can overtake a Mount that is awaited.
`WavesAccounted`: a step moves a wave from one of the places that `Accounted` lists to
another; only Send and the interchange's routing make a wave, and they count it in `sent`.
`OrderPerSender`: on the way from a sender to a session, from its inbound lane by the
call channel to the outbound lane and what the session was handed, a sender's numbers
grow (`OrderInv`, stated for each pair of stages).  A lane whose session failed may
have been turned over: then the hyperway had more than one session, or the only one has
left and does not come back, and the order is not claimed.

**RouterProofs.**  `TypeCorrect`; `HubNeverGivesUp`: in a web with a hub no router gives up
a transport and no loop panics.  A hub is adjacent to all stars of the web, and each other
star is adjacent to all of them too, as the machine's is, or has the hub for its only
forwarder.  `DefaultWebHasHub`: that is so, with the nexus as the hub, in the web that a
machine makes of the default template for any number of stars, if the nexus forwards and
the machine's star does not (kind.rs:497).  `Fit` says for every call in a channel or a task what it
may be in such a web: a transport leaves its first star with no hops and the hub with
one (`Leaves`), and comes to the hub, or to the star that it is for (`Comes`).  With
`HubLeads`, that there is exactly one way from a star of such a web to another one,
and that it is a hyperway to that one or to the hub,
neither want of a way nor a choice of ways can arise, and two hops are enough.
`WavesAccounted` holds in any web: for a wave and a star that it concerns there is one
place (a task, a channel, the loop's hand, arrived, dropped).  Each kind of step takes a
call out of one place and puts what becomes of it into one other (`Taken`, `Put`,
`Moved`), and a wave that was not sent is nowhere (`Known`).

**SearchProofs.**  `TypeCorrect`; `SearchNeverCircles`: every asking is a way through the
web, on which no star comes twice and all but the ends forward, and what is found can
be wrangled and is not the star that asks.  The invariant adds that who waits for echoes
is the wrangling star or forwards, and that partial discoveries are of the same kind.
`WrangledKnowsAll`: a star that has stopped wrangling has found everything, once per way.
The invariant (`AllTold`) speaks of a round whose own timer has not gone off: each asking
that is due is in one place, the one that sent it still waits, and an asker with some
echoes still to come has counted the ways by the stars that have echoed and no others.
What is lost, or answered for by a forwarder's timer, keeps the count of what is left
from reaching its end, so the wrangling star does not stop in such a round.

**ProvisionProofs.**  `TypeCorrect`; `HomesAreServed`: the registry, and every task,
only ever names a star on which there are a shell and a driver's assignment for the
particle.  An assignment belongs to one task and particle; its `key` does not change
while it is under way, though its asker may long have given up.  `ParentsUnwrap`: the
unwrap of a parent's star (star.rs:2048) panics in one case only, that the parent was
created again after the star it was assigned to for this task had told the registry so
(`again`).  The invariant says that a task's stack is a chain of parents that gets
shallower, so that it asks for each particle once (an answer cannot be one of an earlier
asking), and that an assignment that went well is known to the registry or in `again`.
`TurnsAreFair`: a selector's nearest stars are the first `step` of its sorted
discoveries (`Stepped`, which Push keeps: it is why sort has to count anew).  Picks that
follow each other are those at consecutive places of their round (`Turned`), and among n
consecutive numbers each remainder by n occurs once, so as many picks as there are nearest
stars hit each of these once and no other.

**TcpMuxProofs.**  `TypeCorrect`; `HeardInOrder`: what a side hears is what the other
sent, from its first wave on.  Every unit that was written, read or handed on has a place
in one stream: the invariant states, pairwise, that the units from a user's inbox back to
the other user's outbox follow each other, as long as the reader has not lost its
place, and that a reader that has lost it hands over no wave any more.

Only model-checked: all liveness, and with it the fairness part of `StarBoots` (the prover
has no rule for fairness and ENABLED).  Facts that need induction over data (what a fold
over a sequence of any length returns) are out of the prover's reach too, so the proofs
avoid recursive definitions: whom a pipeline's pipelines ask in the end is stated with ways
through the particles (`Ways`), not by recursion.

## 7. Disagreements

A run that shows the code doing other than a comment says:

* **HyperlaneStaleReset** — `ResetExt` does not say whom it resets.  A client that
  reconnects before the lane has taken the reset of its old connection is detached by
  it, and waves wait "if there is a listener" (lib.rs:473) although there is one.

The models contain these further behaviours, which no document speaks about clearly
enough to call them disagreements, or which a property states as an exception:

* *Hyperlane.*  A lane that waits for room in its own full call channel (`SendReset`);
  waves that change places when their listener fails.  The queue is trimmed before a
  wave is pushed, so it holds one more than its threshold (`QueueIsBounded`, proved).
* *Exchanger.*  A reply between the timer's removal and the aggregator's claim answers
  the ripple as if it were a ping; the aggregator's loop then gets `None` for ever
  (asynch.rs:465; asynch.rs:472 says "the multi loop will take care of the rest").
  `OrphanedOnlyByLateReply` says that this is the only way to it.
* *Machine.*  The error for a loop that ended unexpectedly is broadcast inside the
  loop, after every call (machine.rs:488), which lets callers of AwaitTermination go
  early; main.rs:88 sleeps for it.  A star may be Ready while its main loop waits for a
  machine that never will be.
* *Drivers.*  `Driver::init` is awaited inside the runner's own loop
  (driver/mod.rs:1265): an init that asks a particle of its own driver waits for a loop
  that waits for it, until the timer of that ask.
* *HyperClient.*  Its "natural end" (lib.rs:1823) leads to another connection
  (`NoMoreUsers`), and one that is Closed is reconnected before its status task stops.
  The relay that hands waves to users and exchanger expects a greeting as the first wave of
  its life only (lib.rs:1465): after a reconnect the new greeting is taken for a reply
  that nobody asked for, and the relay ends while the status says Ready (`HearEnd`).
* *Interchange.*  A cancelled `enter` whose hyperway stays (`GiveUp`).
* *Router.*  to_gravity awaits room in the channel that its own loop empties
  (star.rs:1077): `AllArrive` excepts that loop (`Jammed`).  A star with two forwarders
  panics on a transport to a star that is not adjacent, and while its status stays Ready
  all that comes to it is gone (star.rs:1222).  The only forwarder may be where the
  transport came from (star.rs:1211), and only the hop count ends its way to and fro.
  Two branches can never be taken: forward's test of is_forwarder (star.rs:1041), since
  only forwarders and destinations are chosen, and a ripple's shard for its own star
  (star.rs:1111), which is in its history.
* *Search.*  A timer that is faster drops the echoes that had come, so a forwarder that
  waits for one lost echo answers for itself alone: `WrangledMeansAll` holds because the
  wrangling star's own timer is always the first.
* *Provisioning.*  A driver that has done what it was asked to, but too late, keeps a
  shell for a particle that the registry does not have there; two tasks may assign one
  particle twice, on two stars or on one, where the second Assign replaces a live
  ShellState (star.rs:95); a particle that is created again loses its star (mem/registry.rs:87),
  and when that comes between the star's own record of it and the unwrap of a task that
  provisions a child of it, the task panics (star.rs:2048): `UnwrapsParent` does not
  exclude this, and says that it is the only way to the panic;
  the hops by which a selector prefers stars are always 0, so that it prefers none;
  a selector's `find` blocks a thread while a round that waits for the selector's lock
  holds the map's guard (driver/star.rs:665); an assignment through a selector drops
  the state that the creation carried (driver/star.rs:429).
* *TCP.*  A read that `select!` drops after it has consumed a size loses its place in the
  stream (`lost`): what follows is read as something else, and a Ping's first bytes as
  an empty frame, at which the muxer ends.  Two muxers that both write into full buffers
  wait for each other, and do not see that they should terminate (`Jam`).  The server's
  hyperway stays until a wave for its client finds the muxer gone (`EndsTogether`).
* *Layers.*  A Field without a route (field.rs:130, 166), a Shell that is not there
  (star.rs:1627) and an item that is not there (driver/mod.rs:1371) are logged and nothing
  is reflected: who asked learns by the timer alone, which is why `AllAnswered` names
  them (`lost`).  Only what fails at injection is reflected.  A pipeline's Point stops
  carry no count, so two particles whose pipelines ask each other do so without end,
  each stop in a task of its own; the instance has none.  A ping to somebody's shell
  comes by way of his Field, which asks "core": the shell takes it, since the traversal
  that the stop sends on still has the shell for its destination.  The Shell counts its
  requests in `fabric_requests` (shell.rs:84) and takes none out again: the code that
  did is in a comment (shell.rs:138-210).

## 8. Not modelled

Within the modelled components: `HyperlaneCall::Drain`, `DriversCall::Init1` and
`DriverStatus::Retrying`, which nothing uses; AddGate and Knock of the machine, which
touch only the gate map; the lookups of Drivers and the handling of waves by a
DriverRunner; `wait_for_ready` and `wait_for_greet`, which only read watches;
authenticators and greeters; entrants that share a remote, which no caller makes.
Channels of users' waves in HyperClient are unbounded, and a requester that stops
waiting for its answer is not modelled.  A broken connection is a peer whose end is
gone; TLS is external.  Of the router's calls Stub, CreateStates and Bounce, which read
or answer and move no wave, and ripples to several particles (star.rs:1880, an
"unimplemented" error); of the registry in memory what is not about locations and
statuses (properties, selects, access).  Of the layers ripples and signals, topics, the
global addressee, the direction that a DriverRunner forces when it sends OnAdded, the
Core pipeline of a command without a route, items that are routers (the mechtron
drivers), and the stops Call and Err, which are `unimplemented!` (field.rs:322, 332).

Not modelled at all:

* *Registry (Postgres), security.*  Transactions and queries of an external database;
  the access computation is a recursion over data (grants of grantors of grants), which
  is no behaviour of several steps.  Provision has the registry in memory, as the tests
  build it; starlane's main takes the Postgres one, behind the same trait.
* *Bridge, authenticators, token greeters, gate selector.*  A lookup, or a broadcast
  around HyperClient, which is modelled.
* *Mechtron host and guest.*  Every call is a blocking call into a wasm instance, whose
  behaviour is the guest's (wasmer is external).  WasmHostRunner is one loop that serves
  one call after the other.
* *Synchronous exchange.*  The exchanger of a guest, with one outstanding call.
* *Control, base, root, space, web and artifact drivers.*  Handlers that read, register
  or serve files, in one step each.
* *Types, parsers, macros, logging, command line, excluded crates, charts.*  Pure data,
  text or generated code.

## 9. The plan

Done: Hyperlane, Exchanger, Machine, Drivers with StarBoot, HyperClient, Interchange,
Router, Search, Provision, TcpMux, Layers; proofs about all of them.  Every safety
property that a run checks is a theorem too.

Open, in the order of their worth:

1. **Interchange with Hyperlane**: Interchange's `Mount` awaits a lane's call channel
   (lib.rs:615), so a lane that has blocked itself blocks the task.
2. **Access** (cosmic-registry-postgres lib.rs:831) as a pure recursive function over a
   small set of grants, against a fixed point of the grants that hold.
3. **MechtronHost**: runners, blocking calls and call-backs (mechtron-host lib.rs:665).
