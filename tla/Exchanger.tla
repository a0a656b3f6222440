----------------------------- MODULE Exchanger -----------------------------
(***************************************************************************)
(* Request and answer in cosmic-space: ProtoTransmitter::direct registers  *)
(* a directed wave with the Exchanger, routes it and waits on a oneshot.   *)
(* Reflections come back in any order, any number of times, through        *)
(* Exchanger::reflected, each call a task of its own.  A ping is answered  *)
(* by the first one; a ripple by an aggregator task that collects them     *)
(* until a count is reached or a timer has removed the wave from `multis`. *)
(*                                                                         *)
(* The two DashMaps are touched without a common lock, so looking into     *)
(* `multis`, removing from `singles` and sending on a channel are separate *)
(* steps.  A reflector holds the map's guard while it waits for room in    *)
(* the aggregator's channel, and the timer's removal waits for the guard.  *)
(***************************************************************************)
EXTENDS Naturals, Sequences

CONSTANTS
    Waves,        \* the directed waves, named by their wave id
    BounceBacks,  \* per wave: "None", "Single", "Count" or "Timer"
    Count,        \* per wave, the n of BounceBacks::Count(n)
    Reflections,  \* the reflected waves that may arrive
    Of,           \* per reflection, the wave it is the reflection_of
    Sessions,     \* bound: the sets of waves one behaviour may transmit
    TimerCap,     \* capacity of a Timer aggregator's channel (32 in the code)
    Timeout,      \* the reflection with status 408 the exchanger makes itself
    None          \* no answer yet

ASSUME WaveAssumption ==
    /\ BounceBacks \in [Waves -> {"None", "Single", "Count", "Timer"}]
    /\ Count \in [Waves -> Nat \ {0}]
    /\ TimerCap \in Nat \ {0}

\* A wave that expects no bounce back carries no reflection for anybody to make.
ASSUME ReflectionAssumption ==
    /\ Of \in [Reflections -> Waves]
    /\ \A r \in Reflections : BounceBacks[Of[r]] # "None"
    /\ Timeout \notin Reflections

\* What a oneshot can carry: ReflectedAggregate::Single or Multi.
Answers == [shape : {"Single", "Multi"}, body : Seq(Reflections \cup {Timeout})]

ASSUME NoneAssumption == None \notin Answers

VARIABLES
    pc,       \* per wave, where ProtoTransmitter::direct is
    singles,  \* the waves with a oneshot sender in Exchanger.singles
    multis,   \* the waves with a channel in Exchanger.multis
    timer,    \* per wave, its timeout task: "off", "set" or "fired"
    chan,     \* per wave, the reflections on the way to its aggregator
    agg,      \* per wave, what its aggregator has collected
    loop,     \* per wave, its aggregator: "off", "recv", "full" or "done"
    answer,   \* per wave, what was sent on its oneshot
    at        \* per reflection, how far Exchanger::reflected got with it

exchange == <<pc, timer>>
aggregator == <<chan, agg, loop>>
vars == <<exchange, singles, multis, aggregator, answer, at>>

IsMulti(w) == BounceBacks[w] \in {"Count", "Timer"}
Cap(w) == IF BounceBacks[w] = "Count" THEN Count[w] ELSE TimerCap
Single(r) == [shape |-> "Single", body |-> <<r>>]
Multi(rs) == [shape |-> "Multi", body |-> rs]

\* A reflector of w holds the guard of the multis entry.
Guarded(w) == \E r \in Reflections : Of[r] = w /\ at[r] = "sending"

\* if let Some((_, tx)) = singles.remove(id) { tx.send(..) }
MutClaimSingle(w, a) ==
    /\ w \in singles
    /\ singles' = singles \ {w}
    /\ UNCHANGED answer
ClaimSingle(w, a) ==
    /\ w \in singles
    /\ singles' = singles \ {w}
    /\ answer' = [answer EXCEPT ![w] = a]

Init ==
    /\ pc = [w \in Waves |-> "start"]
    /\ singles = {}
    /\ multis = {}
    /\ timer = [w \in Waves |-> "off"]
    /\ chan = [w \in Waves |-> <<>>]
    /\ agg = [w \in Waves |-> <<>>]
    /\ loop = [w \in Waves |-> "off"]
    /\ answer = [w \in Waves |-> None]
    /\ at = [r \in Reflections |-> "idle"]

-----------------------------------------------------------------------------
(* ProtoTransmitter::direct                                                *)

\* A wave may be transmitted beside the ones that have been.
InSession(w) == \E s \in Sessions : w \in s /\ {v \in Waves : pc[v] # "start"} \subseteq s

\* Exchanger::exchange: the oneshot, the channel, the aggregator and the timer are
\* in place before the wave is routed.
Exchange(w) ==
    /\ pc[w] = "start"
    /\ InSession(w)
    /\ BounceBacks[w] # "None"
    /\ singles' = singles \cup {w}
    /\ multis' = IF IsMulti(w) THEN multis \cup {w} ELSE multis
    /\ loop' = IF IsMulti(w) THEN [loop EXCEPT ![w] = "recv"] ELSE loop
    /\ timer' = [timer EXCEPT ![w] = "set"]
    /\ pc' = [pc EXCEPT ![w] = "registered"]
    /\ UNCHANGED <<chan, agg, answer, at>>

MutRoute(w) ==
    /\ pc[w] \in {"start", "registered"}
    /\ pc' = [pc EXCEPT ![w] = "waiting"]
    /\ UNCHANGED <<timer, singles, multis, aggregator, answer, at>>

\* router.route(directed).await; without bounce backs direct returns at once.
Route(w) ==
    /\ \/ pc[w] = "registered" /\ pc' = [pc EXCEPT ![w] = "waiting"]
       \/ /\ pc[w] = "start" /\ InSession(w) /\ BounceBacks[w] = "None"
          /\ pc' = [pc EXCEPT ![w] = "returned"]
    /\ UNCHANGED <<timer, singles, multis, aggregator, answer, at>>

\* reflected_rx.await? and the conversion: a Pong needs Single, Echoes need Multi.
Return(w) ==
    /\ pc[w] = "waiting"
    /\ answer[w] # None
    /\ pc' = [pc EXCEPT ![w] = IF (answer[w].shape = "Multi") = IsMulti(w)
                               THEN "returned" ELSE "failed"]
    /\ UNCHANGED <<timer, singles, multis, aggregator, answer, at>>

-----------------------------------------------------------------------------
(* Exchanger::reflected, one task per reflection                           *)

\* self.multis.get(id)
Reflected(r) ==
    /\ at[r] = "idle"
    /\ pc[Of[r]] \in {"waiting", "returned", "failed"}
    /\ at' = [at EXCEPT ![r] = IF Of[r] \in multis THEN "sending" ELSE "claiming"]
    /\ UNCHANGED <<exchange, singles, multis, aggregator, answer>>

\* multi.value().send(reflect).await: waits for room, and fails silently once the
\* aggregator has ended.
ReflectMulti(r) ==
    /\ at[r] = "sending"
    /\ LET w == Of[r] IN
         \/ /\ loop[w] = "done"
            /\ at' = [at EXCEPT ![r] = "dropped"]
            /\ UNCHANGED chan
         \/ /\ loop[w] # "done"
            /\ Len(chan[w]) < Cap(w)
            /\ chan' = [chan EXCEPT ![w] = Append(@, r)]
            /\ at' = [at EXCEPT ![r] = "sent"]
    /\ UNCHANGED <<exchange, singles, multis, agg, loop, answer>>

\* self.singles.remove(id), or the error "Not expecting reflected message".
ReflectSingle(r) ==
    /\ at[r] = "claiming"
    /\ \/ /\ ClaimSingle(Of[r], Single(r))
          /\ at' = [at EXCEPT ![r] = "claimed"]
       \/ /\ Of[r] \notin singles
          /\ at' = [at EXCEPT ![r] = "refused"]
          /\ UNCHANGED <<singles, answer>>
    /\ UNCHANGED <<exchange, multis, aggregator>>

-----------------------------------------------------------------------------
(* The timeout tasks                                                       *)

\* BounceBacks::Single: whoever removes the sender answers.
TimeoutSingle(w) ==
    /\ timer[w] = "set"
    /\ ~IsMulti(w)
    /\ timer' = [timer EXCEPT ![w] = "fired"]
    /\ \/ ClaimSingle(w, Single(Timeout))
       \/ w \notin singles /\ UNCHANGED <<singles, answer>>
    /\ UNCHANGED <<pc, multis, aggregator, at>>

MutTimeoutMulti(w) ==
    /\ timer[w] = "set"
    /\ IsMulti(w)
    /\ timer' = [timer EXCEPT ![w] = "fired"]
    /\ UNCHANGED <<pc, singles, multis, aggregator, answer, at>>

\* BounceBacks::Count and Timer: multis.remove(&id), which drops the channel's only
\* sender.
TimeoutMulti(w) ==
    /\ timer[w] = "set"
    /\ IsMulti(w)
    /\ ~Guarded(w)
    /\ timer' = [timer EXCEPT ![w] = "fired"]
    /\ multis' = multis \ {w}
    /\ UNCHANGED <<pc, singles, aggregator, answer, at>>

-----------------------------------------------------------------------------
(* The aggregator task of a Count or Timer wave                            *)

\* rx.recv() returned a reflection; a Count aggregator compares what it has.
Aggregate(w) ==
    /\ loop[w] = "recv"
    /\ chan[w] # <<>>
    /\ chan' = [chan EXCEPT ![w] = Tail(@)]
    /\ agg' = [agg EXCEPT ![w] = Append(@, Head(chan[w]))]
    /\ loop' = [loop EXCEPT ![w] =
                  IF BounceBacks[w] = "Count" /\ Len(agg'[w]) = Count[w]
                  THEN "full" ELSE "recv"]
    /\ UNCHANGED <<exchange, singles, multis, answer, at>>

MutAggregateFull(w) ==
    /\ loop[w] = "full"
    /\ ClaimSingle(w, Multi(agg[w]))
    /\ loop' = [loop EXCEPT ![w] = "recv"]
    /\ UNCHANGED <<exchange, multis, chan, agg, at>>

\* count == agg.len(): answer and end; with the sender gone the loop goes on.
AggregateFull(w) ==
    /\ loop[w] = "full"
    /\ \/ /\ ClaimSingle(w, Multi(agg[w]))
          /\ loop' = [loop EXCEPT ![w] = "done"]
       \/ /\ w \notin singles
          /\ loop' = [loop EXCEPT ![w] = "recv"]
          /\ UNCHANGED <<singles, answer>>
    /\ UNCHANGED <<exchange, multis, chan, agg, at>>

\* What a timed-out aggregator answers: Count gives up what it had collected.
TimeoutBody(w) == IF BounceBacks[w] = "Count" THEN <<Timeout>> ELSE agg[w]

MutAggregateClosed(w) ==
    /\ loop[w] = "recv"
    /\ w \notin multis
    /\ ClaimSingle(w, Multi(TimeoutBody(w)))
    /\ loop' = [loop EXCEPT ![w] = "done"]
    /\ UNCHANGED <<exchange, multis, chan, agg, at>>

\* rx.recv() returned None: the sender is gone and the channel is empty.  With the
\* oneshot gone too the loop receives None again and again: a step without effect.
AggregateClosed(w) ==
    /\ loop[w] = "recv"
    /\ chan[w] = <<>>
    /\ w \notin multis
    /\ ClaimSingle(w, Multi(TimeoutBody(w)))
    /\ loop' = [loop EXCEPT ![w] = "done"]
    /\ UNCHANGED <<exchange, multis, chan, agg, at>>

Aggregator(w) == Aggregate(w) \/ AggregateFull(w) \/ AggregateClosed(w)

Next ==
    \/ \E w \in Waves :
          \/ Exchange(w) \/ Route(w) \/ Return(w)
          \/ TimeoutSingle(w) \/ TimeoutMulti(w)
          \/ Aggregate(w) \/ AggregateFull(w) \/ AggregateClosed(w)
    \/ \E r \in Reflections : Reflected(r) \/ ReflectMulti(r) \/ ReflectSingle(r)

Spec == Init /\ [][Next]_vars

\* Timers fire and tasks that can run do run.  Nothing makes a reflection arrive.
Fairness ==
    /\ \A w \in Waves :
          /\ WF_vars(Route(w)) /\ WF_vars(Return(w)) /\ WF_vars(Aggregator(w))
          /\ WF_vars(TimeoutSingle(w)) /\ WF_vars(TimeoutMulti(w))
    /\ \A r \in Reflections : WF_vars(ReflectMulti(r)) /\ WF_vars(ReflectSingle(r))

FairSpec == Spec /\ Fairness

-----------------------------------------------------------------------------
\* The type of the exchanger's state; a channel never exceeds its capacity.
TypeOK ==
    /\ pc \in [Waves -> {"start", "registered", "waiting", "returned", "failed"}]
    /\ singles \subseteq Waves
    /\ multis \subseteq Waves
    /\ timer \in [Waves -> {"off", "set", "fired"}]
    /\ chan \in [Waves -> Seq(Reflections)]
    /\ \A w \in Waves : Len(chan[w]) <= Cap(w)
    /\ agg \in [Waves -> Seq(Reflections)]
    /\ loop \in [Waves -> {"off", "recv", "full", "done"}]
    /\ answer \in [Waves -> Answers \cup {None}]
    /\ at \in [Reflections ->
                 {"idle", "sending", "claiming", "sent", "dropped", "claimed", "refused"}]

\* Whoever takes the oneshot sender of a wave out of `singles` uses it: a direct that
\* waits is owed an answer by a sender in the map, or has it.  A sender removed and
\* dropped would turn into a RecvError in direct's `reflected_rx.await?`.
AnswerOwed ==
    \A w \in Waves : pc[w] \in {"registered", "waiting"} => (w \in singles <=> answer[w] = None)

\* A reflection is refused ("Not expecting reflected message") or falls into a closed
\* channel only if its wave has been answered already: no race between the maps, the
\* timers and the registration turns away a reply somebody still waits for.
RefusedOnlyLate ==
    \A r \in Reflections : at[r] \in {"refused", "dropped"} => answer[Of[r]] # None

\* A Count wave is never answered with some of its replies: it gets a 408 or exactly
\* Count of them, each a different reply to this wave; the one exception is a reply
\* so late that it was taken for the reply to a ping.
CountExact ==
    \A w \in Waves :
        BounceBacks[w] = "Count" /\ answer[w] # None /\ answer[w].shape = "Multi" =>
            LET body == answer[w].body IN
            \/ body = <<Timeout>>
            \/ /\ Len(body) = Count[w]
               /\ \A i \in DOMAIN body : at[body[i]] = "sent" /\ Of[body[i]] = w
               /\ \A i, j \in DOMAIN body : body[i] = body[j] => i = j

\* The answer to a Timer wave holds every reply that was put into its channel, however
\* the last of them raced the timer that closed it.
TimerComplete ==
    \A w \in Waves, r \in Reflections :
        /\ BounceBacks[w] = "Timer" /\ answer[w] # None /\ answer[w].shape = "Multi"
        /\ Of[r] = w /\ at[r] = "sent"
        => \E i \in DOMAIN answer[w].body : answer[w].body[i] = r

\* What a ripple is answered with is what it asked for.
RepliesKept == CountExact /\ TimerComplete

\* An aggregator is left without a oneshot to answer only in one way: a reply found
\* the wave gone from `multis` and its sender still in `singles`.
OrphanedOnlyByLateReply ==
    \A w \in Waves :
        /\ loop[w] \in {"recv", "full"}
        /\ w \notin singles
        => w \notin multis /\ answer[w] # None /\ answer[w].shape = "Single"

\* Every wave that direct has registered gets an answer, with replies or without.
EventuallyAnswered ==
    \A w \in Waves :
        pc[w] = "registered" ~> pc[w] \in {"returned", "failed"}

=============================================================================
