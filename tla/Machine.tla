------------------------------ MODULE Machine ------------------------------
(***************************************************************************)
(* A machine of cosmic-hyperspace while it starts, runs and stops.  The    *)
(* machine hosts the stars, each a task with a main loop and a status      *)
(* watch; an aggregating task folds the stars' statuses into the status of *)
(* the machine; the machine's own loop serves MachineCalls one at a time.  *)
(* A star that is Ready has its main loop wait for the whole machine to be *)
(* Ready before it looks for other stars ("wrangling").                    *)
(*                                                                         *)
(* A watch channel is its last value and, per receiver, a flag that says   *)
(* whether the value was set since the receiver last saw a change          *)
(* (`fresh` for the aggregator, `wfresh` for the tasks of WaitForReady).   *)
(* What a star does until its drivers are up is left to it (see module     *)
(* Drivers): it publishes Pending or Init any number of times, and then    *)
(* either Fatal, if it is one of Failing, or Ready.  "Pending" stands for  *)
(* Pending and Unknown, which the aggregator treats alike.  Gates and      *)
(* knocks are left out; nothing in the repository makes a star Panic.      *)
(***************************************************************************)
EXTENDS Naturals, Sequences, FiniteSets

CONSTANTS
    Stars,      \* the stars a machine may have
    Connectors, \* the stars that ask for an endpoint to another star
    Failing,    \* the stars one of whose drivers may fail to start
    Callers,    \* tasks that call await_termination
    MayStop,    \* whether anybody calls terminate
    CallCap,    \* capacity of the machine's call channel (1024 in the code)
    StatusCap   \* capacity of its status channel (128 in the code)

ASSUME MachineAssumption ==
    /\ IsFiniteSet(Stars)
    /\ Stars # {}
    /\ Connectors \subseteq Stars
    /\ Failing \subseteq Stars
    /\ Stars \cap Callers = {}
    /\ MayStop \in BOOLEAN
    /\ CallCap \in Nat \ {0}
    /\ StatusCap \in Nat \ {0}

\* start sends Init to the machine's own channel before it empties it: the calls
\* that can be made by then (nowhere near 1024 in the code) have to leave room.
ASSUME EarlyCallsAssumption ==
    /\ IsFiniteSet(Callers)
    /\ Cardinality(Connectors) + Cardinality(Callers) + (IF MayStop THEN 1 ELSE 0) < CallCap

VARIABLES
    pc,       \* the machine's loop: "start", "run" or "stopped"
    chan,     \* its call channel
    asked,    \* whether terminate was called: "no", "never" will be, "sent", or "lost" for want of room
    phase,    \* per star, how far its drivers are: "off", "boot", "queued", "up" or "failed";
              \* "absent" is a star the machine's template does not have
    star,     \* per star, the value of its status watch
    fresh,    \* per star, whether the aggregator has yet to see a change of that watch
    loop,     \* per star, its main loop: "idle", "blocked", "serving" or "wrangled"
    connect,  \* per star, the task that connects it: "start", "asked" or "done"
    agg,      \* the aggregator: where it is and what it has read
    statusQ,  \* statuses on their way to the machine's status watch
    status,   \* the machine's status watch
    waiter,   \* per star, the task its WaitForReady call started
    wfresh,   \* per star, whether that task has yet to see a change of status
    sub,      \* per caller, what the broadcast channel holds for it
    result,   \* per caller, what await_termination returned
    upOnce    \* history: the stars that have published Ready

starVars == <<phase, star, fresh, upOnce>>
aggVars  == <<agg, statusQ>>
endVars  == <<sub, result>>
vars == <<pc, chan, asked, starVars, loop, connect, aggVars, status, waiter, wfresh, endVars>>

Call(op, arg) == [op |-> op, arg |-> arg]
HasRoom == Len(chan) < CallCap
Unread  == "unread"
Members == {s \in Stars : phase[s] # "absent"}

\* Any of Stars may make up the machine, but for none at all; any of Connectors connect,
\* any of Callers call, and terminate is called or not.
Init ==
    /\ pc = "start"
    /\ chan = <<>>
    /\ asked \in (IF MayStop THEN {"no", "never"} ELSE {"never"})
    /\ phase \in [Stars -> {"off", "absent"}]
    /\ Members # {}
    /\ star = [s \in Stars |-> "Pending"]
    /\ fresh = [s \in Stars |-> FALSE]
    /\ loop = [s \in Stars |-> "idle"]
    /\ connect \in [Stars -> {"start", "done"}]
    /\ \A s \in Stars : connect[s] = "start" => s \in Connectors \cap Members
    /\ agg = [at |-> "read", seen |-> [s \in Stars |-> Unread]]
    /\ statusQ = <<>>
    /\ status = "Init"
    /\ waiter = [s \in Stars |-> "none"]
    /\ wfresh = [s \in Stars |-> FALSE]
    /\ sub \in [Callers -> {"none", "closed"}]
    /\ result = [c \in Callers |-> "none"]
    /\ upOnce = {}

-----------------------------------------------------------------------------
(* The machine's loop.                                                     *)

\* start sends Init to its own channel before it receives anything from it.
Start ==
    /\ pc = "start"
    /\ HasRoom
    /\ chan' = Append(chan, Call("Init", "machine"))
    /\ pc' = "run"
    /\ UNCHANGED <<asked, starVars, loop, connect, aggVars, status, waiter, wfresh, endVars>>

Take(op) ==
    /\ pc = "run"
    /\ chan # <<>>
    /\ Head(chan).op = op
    /\ chan' = Tail(chan)

\* After every call but Terminate the loop broadcasts an error to whoever awaits
\* the termination.  The channel holds one message: a second one unread is a lag.
Broadcast(msg, subs) ==
    [c \in Callers |->
       CASE subs[c] = "open"           -> msg
         [] subs[c] \in {"ok", "err"}  -> "lagged"
         [] OTHER                      -> subs[c]]

\* init0: every star is sent Init, and all are waited for.
RecvInit ==
    /\ Take("Init")
    /\ phase' = [s \in Stars |-> IF s \in Members THEN "boot" ELSE "absent"]
    /\ sub' = Broadcast("err", sub)
    /\ UNCHANGED <<pc, asked, star, fresh, upOnce, loop, connect, aggVars, status, waiter, wfresh, result>>

\* The call starts a task of its own, so that the loop goes on.
RecvWaitForReady ==
    /\ Take("WaitForReady")
    /\ waiter' = [waiter EXCEPT ![Head(chan).arg] = "look"]
    /\ sub' = Broadcast("err", sub)
    /\ UNCHANGED <<pc, asked, starVars, loop, connect, aggVars, status, wfresh, result>>

RecvEndpointFactory ==
    /\ Take("EndpointFactory")
    /\ connect' = [connect EXCEPT ![Head(chan).arg] = "done"]
    /\ sub' = Broadcast("err", sub)
    /\ UNCHANGED <<pc, asked, starVars, loop, aggVars, status, waiter, wfresh, result>>

\* The caller is handed a receiver, and the error of this very call is broadcast.
RecvAwaitTermination ==
    /\ Take("AwaitTermination")
    /\ sub' = Broadcast("err", [sub EXCEPT ![Head(chan).arg] = "open"])
    /\ UNCHANGED <<pc, asked, starVars, loop, connect, aggVars, status, waiter, wfresh, result>>

\* Terminate ends the loop.  The calls still in the channel are dropped with it,
\* and so are the channels that were to return their results.
MutRecvTerminate ==
    /\ Take("Terminate")
    /\ pc' = "stopped"
    /\ sub' = Broadcast("ok", sub)
    /\ UNCHANGED <<asked, starVars, loop, connect, aggVars, status, waiter, wfresh, result>>

RecvTerminate ==
    /\ pc = "run"
    /\ chan # <<>>
    /\ Head(chan).op = "Terminate"
    /\ pc' = "stopped"
    /\ chan' = <<>>
    /\ sub' = [c \in Callers |-> IF sub[c] = "queued" THEN "gone" ELSE Broadcast("ok", sub)[c]]
    /\ waiter' = [s \in Stars |-> IF waiter[s] = "queued" THEN "dropped" ELSE waiter[s]]
    /\ connect' = [s \in Stars |-> IF connect[s] = "asked" THEN "refused" ELSE connect[s]]
    /\ UNCHANGED <<asked, starVars, loop, aggVars, status, wfresh, result>>

Loop ==
    \/ Start \/ RecvInit \/ RecvWaitForReady \/ RecvEndpointFactory
    \/ RecvAwaitTermination \/ RecvTerminate

-----------------------------------------------------------------------------
(* The stars.                                                              *)

Publish(s, value) ==
    /\ star' = [star EXCEPT ![s] = value]
    /\ fresh' = [fresh EXCEPT ![s] = TRUE]

\* The drivers of the star are being started, one after the other.
Boot(s) ==
    /\ phase[s] = "boot"
    /\ \E value \in {"Pending", "Init"} : Publish(s, value)
    /\ UNCHANGED <<pc, chan, asked, phase, upOnce, loop, connect, aggVars, status, waiter, wfresh, endVars>>

BootFails(s) ==
    /\ phase[s] = "boot"
    /\ s \in Failing
    /\ phase' = [phase EXCEPT ![s] = "failed"]
    /\ Publish(s, "Fatal")
    /\ UNCHANGED <<pc, chan, asked, upOnce, loop, connect, aggVars, status, waiter, wfresh, endVars>>

\* The drivers are Ready: the star's own loop is sent StartWrangling first ...
QueueWrangling(s) ==
    /\ phase[s] = "boot"
    /\ phase' = [phase EXCEPT ![s] = "queued"]
    /\ UNCHANGED <<pc, chan, asked, star, fresh, upOnce, loop, connect, aggVars, status, waiter, wfresh, endVars>>

\* ... and then the star is Ready.
BecomeReady(s) ==
    /\ phase[s] = "queued"
    /\ phase' = [phase EXCEPT ![s] = "up"]
    /\ Publish(s, "Ready")
    /\ upOnce' = upOnce \cup {s}
    /\ UNCHANGED <<pc, chan, asked, loop, connect, aggVars, status, waiter, wfresh, endVars>>

\* start_wrangling: the star's main loop calls wait_ready and takes no other call
\* until it returns.  With the machine's loop gone the call returns at once.
StartWrangling(s) ==
    /\ phase[s] \in {"queued", "up"}
    /\ loop[s] = "idle"
    /\ \/ /\ pc # "stopped"
          /\ HasRoom
          /\ chan' = Append(chan, Call("WaitForReady", s))
          /\ waiter' = [waiter EXCEPT ![s] = "queued"]
          /\ loop' = [loop EXCEPT ![s] = "blocked"]
       \/ /\ pc = "stopped"
          /\ loop' = [loop EXCEPT ![s] = "serving"]
          /\ UNCHANGED <<chan, waiter>>
    /\ UNCHANGED <<pc, asked, starVars, connect, aggVars, status, wfresh, endVars>>

\* wait_ready returns when it is answered, and also when the answer's sender is dropped.
MutWaitReadyReturns(s) ==
    /\ loop[s] = "blocked"
    /\ waiter[s] = "released"
    /\ loop' = [loop EXCEPT ![s] = "serving"]
    /\ UNCHANGED <<pc, chan, asked, starVars, connect, aggVars, status, waiter, wfresh, endVars>>

WaitReadyReturns(s) ==
    /\ loop[s] = "blocked"
    /\ waiter[s] \in {"released", "dropped"}
    /\ loop' = [loop EXCEPT ![s] = "serving"]
    /\ UNCHANGED <<pc, chan, asked, starVars, connect, aggVars, status, waiter, wfresh, endVars>>

\* wrangle has collected the discoveries of the other stars: Ready once more.
Wrangled(s) ==
    /\ loop[s] = "serving"
    /\ loop' = [loop EXCEPT ![s] = "wrangled"]
    /\ Publish(s, "Ready")
    /\ upOnce' = upOnce \cup {s}
    /\ UNCHANGED <<pc, chan, asked, phase, connect, aggVars, status, waiter, wfresh, endVars>>

\* The star's connecting task asks the machine for an endpoint factory; if the
\* machine's loop is gone the star is Fatal.
Connect(s) ==
    /\ connect[s] = "start"
    /\ \/ /\ pc # "stopped"
          /\ HasRoom
          /\ chan' = Append(chan, Call("EndpointFactory", s))
          /\ connect' = [connect EXCEPT ![s] = "asked"]
       \/ /\ pc = "stopped"
          /\ connect' = [connect EXCEPT ![s] = "refused"]
          /\ UNCHANGED chan
    /\ UNCHANGED <<pc, asked, starVars, loop, aggVars, status, waiter, wfresh, endVars>>

ConnectFails(s) ==
    /\ connect[s] = "refused"
    /\ connect' = [connect EXCEPT ![s] = "done"]
    /\ Publish(s, "Fatal")
    /\ UNCHANGED <<pc, chan, asked, phase, upOnce, loop, aggVars, status, waiter, wfresh, endVars>>

StarStep(s) ==
    \/ Boot(s) \/ BootFails(s) \/ QueueWrangling(s) \/ BecomeReady(s)
    \/ StartWrangling(s) \/ WaitReadyReturns(s) \/ Wrangled(s)
    \/ Connect(s) \/ ConnectFails(s)

-----------------------------------------------------------------------------
(* The aggregator and the machine's status.                                *)

\* It reads the stars' watches one after the other, while the stars run on.
AggRead(s) ==
    /\ agg.at = "read"
    /\ s \in Members
    /\ agg.seen[s] = Unread
    /\ agg' = LET seen == [agg.seen EXCEPT ![s] = star[s]]
              IN  [at   |-> IF \E t \in Members : seen[t] = Unread THEN "read" ELSE "report",
                   seen |-> seen]
    /\ UNCHANGED <<pc, chan, asked, starVars, loop, connect, statusQ, status, waiter, wfresh, endVars>>

Count(seen, value) == Cardinality({s \in Stars : seen[s] = value})

\* The verdict on what was read; "none" if nothing is to be said.
MutVerdict(seen) ==
    IF Count(seen, "Ready") > 0 THEN "Ready"
    ELSE IF Count(seen, "Fatal") > 0 THEN "Fatal"
    ELSE IF Count(seen, "Panic") > 0 THEN "Panic"
    ELSE IF Count(seen, "Init") > 0 THEN "Init" ELSE "none"
Verdict(seen) ==
    IF Count(seen, "Ready") = Cardinality(Members) THEN "Ready"
    ELSE IF Count(seen, "Fatal") > 0 THEN "Fatal"
    ELSE IF Count(seen, "Panic") > 0 THEN "Panic"
    ELSE IF Count(seen, "Init") > 0 THEN "Init" ELSE "none"

AggReport ==
    /\ agg.at = "report"
    /\ IF Verdict(agg.seen) = "none"
       THEN UNCHANGED statusQ
       ELSE /\ Len(statusQ) < StatusCap
            /\ statusQ' = Append(statusQ, Verdict(agg.seen))
    /\ agg' = [agg EXCEPT !.at = "wait"]
    /\ UNCHANGED <<pc, chan, asked, starVars, loop, connect, status, waiter, wfresh, endVars>>

\* select_all over the changes: one change is seen, the others stay to be seen.
MutAggWake(s) ==
    /\ agg.at = "wait"
    /\ fresh[s]
    /\ fresh' = [t \in Stars |-> FALSE]
    /\ agg' = [at |-> "read", seen |-> [t \in Stars |-> IF t = s THEN Unread ELSE agg.seen[t]]]
    /\ UNCHANGED <<pc, chan, asked, phase, star, upOnce, loop, connect, statusQ, status, waiter, wfresh, endVars>>

AggWake(s) ==
    /\ agg.at = "wait"
    /\ fresh[s]
    /\ fresh' = [fresh EXCEPT ![s] = FALSE]
    /\ agg' = [at |-> "read", seen |-> [t \in Stars |-> Unread]]
    /\ UNCHANGED <<pc, chan, asked, phase, star, upOnce, loop, connect, statusQ, status, waiter, wfresh, endVars>>

\* The task between the status channel and the watch.
RelayStatus ==
    /\ statusQ # <<>>
    /\ status' = Head(statusQ)
    /\ statusQ' = Tail(statusQ)
    /\ wfresh' = [s \in Stars |-> TRUE]
    /\ UNCHANGED <<pc, chan, asked, starVars, loop, connect, agg, waiter, endVars>>

\* The task of a WaitForReady call: look at the watch, or wait until it changes.
\* Its receiver is a clone of one that never saw a change.
WaiterLooks(s) ==
    /\ waiter[s] = "look"
    /\ waiter' = [waiter EXCEPT ![s] = IF status = "Ready" THEN "released" ELSE "wait"]
    /\ UNCHANGED <<pc, chan, asked, starVars, loop, connect, aggVars, status, wfresh, endVars>>

WaiterWakes(s) ==
    /\ waiter[s] = "wait"
    /\ wfresh[s]
    /\ wfresh' = [wfresh EXCEPT ![s] = FALSE]
    /\ waiter' = [waiter EXCEPT ![s] = "look"]
    /\ UNCHANGED <<pc, chan, asked, starVars, loop, connect, aggVars, status, endVars>>

StatusStep ==
    \/ AggReport \/ RelayStatus
    \/ \E s \in Stars : AggRead(s) \/ AggWake(s) \/ WaiterLooks(s) \/ WaiterWakes(s)

-----------------------------------------------------------------------------
(* Termination.                                                            *)

\* terminate uses try_send and ignores its result.
Terminate ==
    /\ asked = "no"
    /\ \/ /\ pc # "stopped" /\ HasRoom
          /\ chan' = Append(chan, Call("Terminate", "machine"))
          /\ asked' = "sent"
       \/ /\ ~(pc # "stopped" /\ HasRoom)
          /\ asked' = "lost"
          /\ UNCHANGED chan
    /\ UNCHANGED <<pc, starVars, loop, connect, aggVars, status, waiter, wfresh, endVars>>

CallAwaitTermination(c) ==
    /\ sub[c] = "none"
    /\ \/ /\ pc # "stopped"
          /\ HasRoom
          /\ chan' = Append(chan, Call("AwaitTermination", c))
          /\ sub' = [sub EXCEPT ![c] = "queued"]
       \/ /\ pc = "stopped"
          /\ sub' = [sub EXCEPT ![c] = "gone"]
          /\ UNCHANGED chan
    /\ UNCHANGED <<pc, asked, starVars, loop, connect, aggVars, status, waiter, wfresh, result>>

\* The broadcast is received: Ok only if Ok is the one message that was sent since.
AwaitTerminationReturns(c) ==
    /\ result[c] = "none"
    /\ sub[c] \in {"ok", "err", "lagged", "gone"}
    /\ result' = [result EXCEPT ![c] = IF sub[c] = "ok" THEN "ok" ELSE "err"]
    /\ sub' = [sub EXCEPT ![c] = "closed"]
    /\ UNCHANGED <<pc, chan, asked, starVars, loop, connect, aggVars, status, waiter, wfresh>>

Termination ==
    Terminate \/ \E c \in Callers : CallAwaitTermination(c) \/ AwaitTerminationReturns(c)

Next == Loop \/ StatusStep \/ Termination \/ \E s \in Stars : StarStep(s)

Spec == Init /\ [][Next]_vars

\* Every task is run by tokio while it can go on, and starting the drivers of a star
\* comes to an end.  Nobody has to call terminate, and wrangling may fail for ever.
Fairness ==
    /\ WF_vars(Loop)
    /\ WF_vars(AggReport \/ \E s \in Stars : AggRead(s) \/ AggWake(s))
    /\ WF_vars(RelayStatus)
    /\ \A s \in Stars :
          /\ WF_vars(BootFails(s) \/ QueueWrangling(s))
          /\ WF_vars(BecomeReady(s))
          /\ WF_vars(StartWrangling(s) \/ WaitReadyReturns(s))
          /\ WF_vars(Connect(s) \/ ConnectFails(s))
          /\ WF_vars(WaiterLooks(s) \/ WaiterWakes(s))
    /\ \A c \in Callers : WF_vars(AwaitTerminationReturns(c))

FairSpec == Spec /\ Fairness

-----------------------------------------------------------------------------
Calls ==
    {Call("Init", "machine"), Call("Terminate", "machine")}
      \cup {Call(op, s) : op \in {"WaitForReady", "EndpointFactory"}, s \in Stars}
      \cup {Call("AwaitTermination", c) : c \in Callers}
StarStatus == {"Pending", "Init", "Ready", "Fatal", "Panic"}
MachineStatus == {"Init", "Ready", "Panic", "Fatal"}

\* The types; both channels stay within their capacities, a star's loop is blocked
\* only while its WaitForReady call is under way, and a stopped machine holds no call.
TypeOK ==
    /\ pc \in {"start", "run", "stopped"}
    /\ chan \in Seq(Calls)
    /\ Len(chan) <= CallCap
    /\ pc = "stopped" => chan = <<>>
    /\ asked \in {"never", "no", "sent", "lost"}
    /\ phase \in [Stars -> {"absent", "off", "boot", "queued", "up", "failed"}]
    /\ star \in [Stars -> StarStatus]
    /\ fresh \in [Stars -> BOOLEAN]
    /\ loop \in [Stars -> {"idle", "blocked", "serving", "wrangled"}]
    /\ connect \in [Stars -> {"start", "asked", "refused", "done"}]
    /\ agg \in [at : {"read", "report", "wait"}, seen : [Stars -> StarStatus \cup {Unread}]]
    /\ statusQ \in Seq(MachineStatus)
    /\ Len(statusQ) <= StatusCap
    /\ status \in MachineStatus
    /\ waiter \in [Stars -> {"none", "queued", "look", "wait", "released", "dropped"}]
    /\ wfresh \in [Stars -> BOOLEAN]
    /\ sub \in [Callers -> {"none", "queued", "open", "ok", "err", "lagged", "gone", "closed"}]
    /\ result \in [Callers -> {"none", "ok", "err"}]
    /\ upOnce \subseteq Stars
    /\ \A s \in Stars : loop[s] = "blocked" => waiter[s] # "none"

\* The machine says Ready, and lets anybody who waits for it go on, only when every
\* star has been Ready, although the aggregator reads their statuses at different
\* moments and what it says is under way while they change.
ReadyIsHonest ==
    /\ status = "Ready" => upOnce = Members
    /\ \A i \in DOMAIN statusQ : statusQ[i] = "Ready" => upOnce = Members
    /\ \A s \in Stars : waiter[s] = "released" => upOnce = Members

\* No change of a star is lost between the aggregator's reads and its waiting: in
\* the end the machine's status is the verdict on what the stars' statuses are.
StatusSettles == <>[](Verdict(star) \in {status, "none"})

\* Nobody waits for everybody for ever: every star's loop comes back from waiting for
\* the machine, which waits for every star, unless a star turns Fatal.
AllServe ==
    \A s \in Stars :
        phase[s] = "queued" ~> loop[s] \in {"serving", "wrangled"} \/ \E t \in Stars : star[t] = "Fatal"

\* await_termination returns, also to a caller whose call was still in the channel
\* when the machine stopped.
AwaitTerminationEnds ==
    \A c \in Callers : sub[c] \notin {"none", "closed"} ~> result[c] # "none"
=============================================================================
