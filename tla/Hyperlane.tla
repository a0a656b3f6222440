----------------------------- MODULE Hyperlane -----------------------------
(***************************************************************************)
(* One Hyperlane of cosmic-hyperlane: the queue of waves between the two   *)
(* ends of a hyperway.  A task owns the lane; everybody else talks to it   *)
(* through the call channel `chan`.  At any moment at most one listener    *)
(* ("ext") is attached: the lane forwards to it, and queues while there is *)
(* none.  A listener whose receiver was dropped is discovered only when a  *)
(* send to it fails; the lane then posts ResetExt and the failed wave to   *)
(* its own call channel.                                                   *)
(*                                                                         *)
(* A hyperway has two lanes.  The inbound one has transforms, and its one  *)
(* listener, the interchange's relay task, keeps its receiver as long as   *)
(* the hyperway lives; the outbound one has none, and its listeners are    *)
(* clients, which come and go.                                             *)
(*                                                                         *)
(* Every `.await` of the task is a step of its own, because another task   *)
(* may run there.  A wave is a member of Waves; what the lane's transforms *)
(* do to it is the sequence stamp[w].  HyperlaneCall::Drain is constructed *)
(* nowhere in the repository and has no action here.                       *)
(***************************************************************************)
EXTENDS Naturals, Sequences

CONSTANTS
    Waves,     \* the waves senders may put on the lane
    Exts,      \* the listeners that may ever be attached, one per call of rx
    Greeted,   \* the listeners attached with an init_wave (the greeting)
    Transforms, \* the names of the transforms
    Filters,   \* the transforms of an inbound lane, in order of installation
    CallCap,   \* capacity of the lane's call channel (1024 in the code)
    QueueCap,  \* the queue's drop threshold (1024 in the code)
    ExtCap,    \* capacity of a listener's channel (1024 in the code)
    InitWave,  \* the greeting
    None       \* no listener, no wave

ASSUME CapAssumption ==
    /\ CallCap \in Nat \ {0}
    /\ QueueCap \in Nat \ {0}
    /\ ExtCap \in Nat \ {0}

ASSUME NameAssumption ==
    /\ None \notin Waves
    /\ None \notin Exts
    /\ InitWave \notin Waves
    /\ Greeted \subseteq Exts

\* Hyperway::new installs the transforms with try_send and ignores the result,
\* so the call channel has to have room for all of them.
ASSUME FilterAssumption ==
    /\ Filters \in Seq(Transforms)
    /\ Len(Filters) <= CallCap

VARIABLES
    kind,        \* "inbound" or "outbound": which lane of its hyperway this is
    chan,        \* the call channel, oldest call first
    pc,          \* where the lane task is
    ext,         \* the attached listener
    queue,       \* waves waiting for a listener, or being drained to it
    failed,      \* the wave a listener's channel gave back, while it is requeued
    transforms,  \* the transforms in effect
    stamp,       \* per wave, the transforms applied to it so far
    ear,         \* per listener: "unused", "made", "open" or "dropped"
    got,         \* per listener, everything put into its channel so far
    read,        \* per listener, how many of those its receiver has taken
    fate,        \* per wave, what became of it
    order,       \* history: the waves the lane accepted, in that order
    latest       \* history: the listener registered last

laneVars == <<pc, ext, queue, failed, transforms>>
aside == <<kind, order, latest>>
vars == <<chan, laneVars, stamp, ear, got, read, fate, aside>>

WaveCall(w)      == [op |-> "Wave", arg |-> w]
ExtCall(x)       == [op |-> "Ext", arg |-> x]
TransformCall(t) == [op |-> "Transform", arg |-> t]
ResetExt         == [op |-> "ResetExt", arg |-> None]

HasRoom == Len(chan) < CallCap
Buffered(x) == Len(got[x]) - read[x]
InChan(w)  == \E i \in DOMAIN chan : chan[i] = WaveCall(w)
InQueue(w) == \E i \in DOMAIN queue : queue[i] = w

-----------------------------------------------------------------------------
(* The task: one call at a time, then the queue is drained.                *)

\* Hyperway::new posts the From and Agent transforms to the inbound lane only.
Installed(k) == IF k = "inbound" THEN Filters ELSE <<>>

Init ==
    /\ kind \in {"inbound", "outbound"}
    /\ chan = [i \in 1..Len(Installed(kind)) |-> TransformCall(Installed(kind)[i])]
    /\ pc = "recv"
    /\ ext = None
    /\ queue = <<>>
    /\ failed = None
    /\ transforms = <<>>
    /\ stamp = [w \in Waves |-> <<>>]
    /\ ear = [x \in Exts |-> "unused"]
    /\ got = [x \in Exts |-> <<>>]
    /\ read = [x \in Exts |-> 0]
    /\ fate = [w \in Waves |-> "new"]
    /\ order = <<>>
    /\ latest = None

\* After every call the task looks whether there is something to drain and
\* somebody to drain it to.
MutAfterCall(q, e) == "recv"
AfterCall(q, e) == IF q # <<>> /\ e # None THEN "drain" ELSE "recv"

\* while queue.len() > 1024 { queue.remove(0) }: the oldest waves go first, and
\* what stays is the newest QueueCap of them.
Trim(q) == IF Len(q) > QueueCap THEN SubSeq(q, Len(q) - QueueCap + 1, Len(q)) ELSE q

Take(op) ==
    /\ pc = "recv"
    /\ chan # <<>>
    /\ Head(chan).op = op
    /\ chan' = Tail(chan)

RecvExt ==
    /\ Take("Ext")
    /\ ext' = Head(chan).arg
    /\ pc' = AfterCall(queue, ext')
    /\ UNCHANGED <<queue, failed, transforms, stamp, ear, got, read, fate, aside>>

RecvTransform ==
    /\ Take("Transform")
    /\ transforms' = Append(transforms, Head(chan).arg)
    /\ pc' = AfterCall(queue, ext)
    /\ UNCHANGED <<ext, queue, failed, stamp, ear, got, read, fate, aside>>

\* wave = transform.filter(wave), for every transform in order.
Stamped(w) == stamp[w] \o transforms

RecvWave ==
    /\ Take("Wave")
    /\ LET w    == Head(chan).arg
           kept == Trim(queue)
       IN  /\ queue' = Append(kept, w)
           /\ stamp' = [stamp EXCEPT ![w] = Stamped(w)]
           /\ fate' = [v \in Waves |->
                         IF \E i \in 1..(Len(queue) - Len(kept)) : queue[i] = v
                         THEN "evicted" ELSE fate[v]]
    /\ pc' = AfterCall(queue', ext)
    /\ UNCHANGED <<ext, failed, transforms, ear, got, read, aside>>

RecvResetExt ==
    /\ Take("ResetExt")
    /\ ext' = None
    /\ pc' = AfterCall(queue, ext')
    /\ UNCHANGED <<queue, failed, transforms, stamp, ear, got, read, fate, aside>>

\* ext_tx.send(wave).await returned Ok: there was room and the receiver is alive.
MutDeliver ==
    /\ pc = "drain"
    /\ ear[ext] # "dropped"
    /\ Buffered(ext) < ExtCap
    /\ got' = [got EXCEPT ![ext] = Append(@, queue[Len(queue)])]
    /\ fate' = [fate EXCEPT ![queue[Len(queue)]] = "done"]
    /\ queue' = SubSeq(queue, 1, Len(queue) - 1)
    /\ pc' = IF queue' = <<>> THEN "recv" ELSE "drain"
    /\ UNCHANGED <<chan, ext, failed, transforms, stamp, ear, read, aside>>

Deliver ==
    /\ pc = "drain"
    /\ ear[ext] # "dropped"
    /\ Buffered(ext) < ExtCap
    /\ got' = [got EXCEPT ![ext] = Append(@, Head(queue))]
    /\ fate' = [fate EXCEPT ![Head(queue)] = "done"]
    /\ queue' = Tail(queue)
    /\ pc' = IF Tail(queue) = <<>> THEN "recv" ELSE "drain"
    /\ UNCHANGED <<chan, ext, failed, transforms, stamp, ear, read, aside>>

\* ext_tx.send(wave).await returned Err: the receiver is gone and the wave comes
\* back.  The drain iterator has already taken it off the queue.
MutDeliverFails ==
    /\ pc = "drain"
    /\ ear[ext] = "dropped"
    /\ failed' = Head(queue)
    /\ pc' = "reset"
    /\ UNCHANGED <<chan, ext, queue, transforms, stamp, ear, got, read, fate, aside>>

DeliverFails ==
    /\ pc = "drain"
    /\ ear[ext] = "dropped"
    /\ failed' = Head(queue)
    /\ queue' = Tail(queue)
    /\ pc' = "reset"
    /\ UNCHANGED <<chan, ext, transforms, stamp, ear, got, read, fate, aside>>

\* tx.send(HyperlaneCall::ResetExt).await: the lane waits for room in the channel
\* that it alone empties.
SendReset ==
    /\ pc = "reset"
    /\ HasRoom
    /\ chan' = Append(chan, ResetExt)
    /\ pc' = "requeue"
    /\ UNCHANGED <<ext, queue, failed, transforms, stamp, ear, got, read, fate, aside>>

\* tx.try_send(HyperlaneCall::Wave(err.0)): with the channel full the wave is lost.
Requeue ==
    /\ pc = "requeue"
    /\ failed' = None
    /\ \/ /\ HasRoom
          /\ chan' = Append(chan, WaveCall(failed))
          /\ UNCHANGED fate
       \/ /\ ~HasRoom
          /\ fate' = [fate EXCEPT ![failed] = "lost"]
          /\ UNCHANGED chan
    /\ pc' = IF queue = <<>> THEN "recv" ELSE "drain"
    /\ UNCHANGED <<ext, queue, transforms, stamp, ear, got, read, aside>>

Task ==
    \/ RecvExt \/ RecvTransform \/ RecvWave \/ RecvResetExt
    \/ Deliver \/ DeliverFails \/ SendReset \/ Requeue

-----------------------------------------------------------------------------
(* The other tasks.                                                        *)

\* Hyperlane::send, and the forwarding task of Hyperlane::tx.
Send(w) ==
    /\ fate[w] = "new"
    /\ HasRoom
    /\ chan' = Append(chan, WaveCall(w))
    /\ fate' = [fate EXCEPT ![w] = "live"]
    /\ order' = Append(order, w)
    /\ UNCHANGED <<laneVars, stamp, ear, got, read, kind, latest>>

\* Hyperlane::send gives up after five seconds without room.
SendTimesOut(w) ==
    /\ fate[w] = "new"
    /\ ~HasRoom
    /\ fate' = [fate EXCEPT ![w] = "rejected"]
    /\ UNCHANGED <<chan, laneVars, stamp, ear, got, read, aside>>

\* Hyperlane::rx makes the listener's channel and puts the init_wave in it.  The
\* interchange calls it once per inbound lane, with no init_wave ...
RxMake(x) ==
    /\ ear[x] = "unused"
    /\ kind = "inbound" => \A y \in Exts : ear[y] = "unused"
    /\ ear' = [ear EXCEPT ![x] = "made"]
    /\ got' = [got EXCEPT ![x] = IF kind = "outbound" /\ x \in Greeted
                                 THEN <<InitWave>> ELSE <<>>]
    /\ UNCHANGED <<chan, laneVars, stamp, read, fate, aside>>

\* ... and then hands the sending half to the lane.
RxRegister(x) ==
    /\ ear[x] = "made"
    /\ HasRoom
    /\ chan' = Append(chan, ExtCall(x))
    /\ ear' = [ear EXCEPT ![x] = "open"]
    /\ latest' = x
    /\ UNCHANGED <<laneVars, stamp, got, read, fate, kind, order>>

\* The listener takes a wave from its channel.
Read(x) ==
    /\ ear[x] = "open"
    /\ Buffered(x) > 0
    /\ read' = [read EXCEPT ![x] = @ + 1]
    /\ UNCHANGED <<chan, laneVars, stamp, ear, got, fate, aside>>

\* The listener's receiver is dropped; what it had not taken is gone.
Drop(x) ==
    /\ kind = "outbound"
    /\ ear[x] = "open"
    /\ ear' = [ear EXCEPT ![x] = "dropped"]
    /\ fate' = [w \in Waves |->
                  IF \E i \in (read[x] + 1)..Len(got[x]) : got[x][i] = w
                  THEN "lost" ELSE fate[w]]
    /\ UNCHANGED <<chan, laneVars, stamp, got, read, aside>>

Environment ==
    \/ \E w \in Waves : Send(w) \/ SendTimesOut(w)
    \/ \E x \in Exts : RxMake(x) \/ RxRegister(x) \/ Read(x) \/ Drop(x)

Next == Task \/ Environment

Spec == Init /\ [][Next]_vars

\* tokio runs every task that can make progress: the lane's own, the one inside
\* Hyperlane::rx and the one that reads a listener's channel.  Nothing obliges
\* anybody to send.
Fairness ==
    /\ WF_vars(Task)
    /\ \A x \in Exts : WF_vars(RxMake(x)) /\ WF_vars(RxRegister(x)) /\ WF_vars(Read(x))

FairSpec == Spec /\ Fairness

-----------------------------------------------------------------------------
Calls ==
    {WaveCall(w) : w \in Waves} \cup {ExtCall(x) : x \in Exts}
      \cup {TransformCall(t) : t \in Transforms} \cup {ResetExt}

\* The type of the lane's state: the calls in the channel are well formed, the
\* channel never exceeds its capacity, and the program counter says whether a
\* failed wave is held and whether there is a listener being drained to.
TypeOK ==
    /\ kind \in {"inbound", "outbound"}
    /\ chan \in Seq(Calls)
    /\ Len(chan) <= CallCap
    /\ pc \in {"recv", "drain", "reset", "requeue"}
    /\ ext \in Exts \cup {None}
    /\ queue \in Seq(Waves)
    /\ failed \in Waves \cup {None}
    /\ transforms \in Seq(Transforms)
    /\ stamp \in [Waves -> Seq(Transforms)]
    /\ ear \in [Exts -> {"unused", "made", "open", "dropped"}]
    /\ got \in [Exts -> Seq(Waves \cup {InitWave})]
    /\ read \in [Exts -> Nat]
    /\ \A x \in Exts : read[x] <= Len(got[x])
    /\ \A x \in Exts : ear[x] \in {"unused", "made"} => read[x] = 0
    /\ order \in Seq(Waves)
    /\ latest \in Exts \cup {None}
    /\ fate \in [Waves -> {"new", "live", "done", "evicted", "lost", "rejected"}]
    /\ (failed # None) <=> (pc \in {"reset", "requeue"})
    /\ pc # "recv" => ext # None
    /\ pc = "drain" => queue # <<>>

\* The queue holds at most one wave more than its drop threshold: RecvWave drops
\* down to QueueCap (`while queue.len() > 1024`) before it pushes, never after.
QueueBounded == Len(queue) <= QueueCap + 1

\* A lane waiting for its next call has nothing queued for an attached listener:
\* whatever sequence of calls, failures and requeues came before, no backlog is
\* left behind that only the arrival of another call would move.
NoIdleBacklog == pc = "recv" /\ ext # None => queue = <<>>

\* No wave is ever in two places, and none vanishes silently: a live wave is in the
\* call channel, in the queue or in the task's hands, in exactly one of them and
\* once, however often listeners fail under it and it is requeued.
ConservedInLane ==
    /\ \A w \in Waves : fate[w] = "live" <=> InChan(w) \/ InQueue(w) \/ failed = w
    /\ \A w \in Waves : ~(InChan(w) /\ InQueue(w))
    /\ failed # None => ~InChan(failed) /\ ~InQueue(failed)
    /\ \A i, j \in DOMAIN chan : chan[i] = chan[j] /\ chan[i].op = "Wave" => i = j
    /\ \A i, j \in DOMAIN queue : queue[i] = queue[j] => i = j

\* A wave reaches at most one listener, and that one once: a wave still in the lane
\* was never handed over, and no wave was handed over twice.
DeliveredOnce ==
    /\ \A x \in Exts : \A i \in DOMAIN got[x] :
          got[x][i] # InitWave => fate[got[x][i]] \in {"done", "lost"}
    /\ \A x, y \in Exts : \A i \in DOMAIN got[x], j \in DOMAIN got[y] :
          got[x][i] = got[y][j] /\ got[x][i] # InitWave => x = y /\ i = j

\* What the lane owes the waves put on it, whatever listeners come, go and fail:
\* each is in one place of the lane, and is handed over at most once.
Conserved == ConservedInLane /\ DeliveredOnce

\* An inbound lane hands its waves over in the order in which it accepted them:
\* nothing accepted earlier is still waiting when a wave is handed over.
HandedOverInOrder ==
    \A i, j \in DOMAIN order :
        kind = "inbound" /\ i < j /\ fate[order[j]] = "done" => fate[order[i]] # "live"

\* Every wave that is handed over has passed all transforms of its lane, each once and in
\* their order: they are calls in the channel that the waves use, and a wave may come to
\* the queue more than once.
HandedOverStamped == \A w \in Waves : fate[w] = "done" => stamp[w] = Installed(kind)

\* What the far end of a lane may count on: an inbound wave comes after those that were
\* accepted before it, and every wave as the lane's transforms make it (for an inbound
\* lane From and Agent, by which the interchange knows whose wave it is).
HandsOver == HandedOverInOrder /\ HandedOverStamped

\* Every wave an inbound lane has accepted is eventually handed to the interchange
\* or dropped as the oldest of an overfull queue; with an outbound lane's listeners
\* coming and going there is no such promise.
EventuallyDelivered ==
    \A w \in Waves :
        kind = "inbound" /\ fate[w] = "live" ~> fate[w] \in {"done", "evicted"}

\* A wave on the lane is drained to the listener attached last, as long as that
\* listener keeps its receiver.
DrainsToListener ==
    \A w \in Waves, x \in Exts :
        fate[w] = "live" /\ latest = x /\ ear[x] = "open"
          ~> fate[w] # "live" \/ latest # x \/ ear[x] # "open"
=============================================================================
