---------------------------- MODULE StartupProofs ----------------------------
(* Theorems about how a machine comes up: Machine, and Drivers for each of  *)
(* its stars.                                                               *)
(*                                                                          *)
(* Machine, for any number of stars and callers and any capacities.  The    *)
(* aggregator reads the stars one after the other while they go on, and its *)
(* verdict travels through a channel and a watch; what carries the proof is *)
(* that `upOnce` only grows, so that whatever was Ready once when it was    *)
(* read is still accounted for when it is used.                             *)
(*                                                                          *)
(* Drivers, for any factories in any number.  The map of statuses shows the *)
(* driver started last and no other; what carries the proof is that the     *)
(* next factory is only taken after that one was seen Ready, which a driver *)
(* stays, so that at any time the drivers before the last are Ready and     *)
(* those after it untouched.                                                *)
EXTENDS Machine, Drivers, FiniteSetTheorems, SequenceTheorems, TLAPS

-----------------------------------------------------------------------------
(* The machine.                                                            *)

\* A broadcast leaves every caller in a state a caller may be in.
LEMMA BroadcastType ==
    ASSUME NEW SubStates, {"ok", "err", "lagged"} \subseteq SubStates,
           NEW subs \in [Callers -> SubStates], NEW msg \in {"ok", "err"}
    PROVE  Broadcast(msg, subs) \in [Callers -> SubStates]
  BY DEF Broadcast

\* What the aggregator concludes is a status of the machine, or nothing.
LEMMA VerdictType ==
    ASSUME NEW seen
    PROVE  Verdict(seen) \in MachineStatus \cup {"none"}
  BY DEF Verdict, MachineStatus

\* The aggregator says Ready only if it read Ready from every star of the machine.
LEMMA ReadyVerdict ==
    ASSUME NEW seen, Verdict(seen) = "Ready",
           \A s \in Stars : seen[s] = "Ready" => s \in Members
    PROVE  \A s \in Members : seen[s] = "Ready"
  <1> DEFINE R == {s \in Stars : seen[s] = "Ready"}
  <1>1. Cardinality(R) = Cardinality(Members)
    BY DEF Verdict, Count
  <1>2. R \subseteq Members /\ Members \subseteq Stars /\ IsFiniteSet(Stars)
    BY MachineAssumption DEF Members
  <1>3. R = Members
    <2> HIDE DEF R
    <2>1. IsFiniteSet(Members)
      BY <1>2, FS_Subset
    <2> QED
      BY <1>1, <1>2, <2>1, FS_Subset
  <1> QED
    BY <1>3

\* The stars that make up the machine stay the same.
LEMMA MembersStay == TypeOK /\ [Next]_vars => Members' = Members
  <1> SUFFICES ASSUME TypeOK, [Next]_vars PROVE Members' = Members
    OBVIOUS
  <1> SUFFICES \A t \in Stars : phase'[t] = "absent" <=> phase[t] = "absent"
    BY DEF Members
  <1>1. CASE RecvInit
    BY <1>1 DEF TypeOK, RecvInit, Members
  <1>2. ASSUME NEW s \in Stars, StarStep(s)
        PROVE  \A t \in Stars : phase'[t] = "absent" <=> phase[t] = "absent"
    <2>1. \/ phase' = phase
          \/ /\ phase[s] \in {"boot", "queued"}
             /\ \E p \in {"failed", "queued", "up"} : phase' = [phase EXCEPT ![s] = p]
      BY <1>2 DEF StarStep, Boot, BootFails, QueueWrangling, BecomeReady, StartWrangling,
                  WaitReadyReturns, Wrangled, Connect, ConnectFails, starVars
    <2> QED
      BY <2>1 DEF TypeOK
  <1>3. CASE Start \/ RecvWaitForReady \/ RecvEndpointFactory \/ RecvAwaitTermination \/ RecvTerminate
    BY <1>3 DEF Start, RecvWaitForReady, RecvEndpointFactory, RecvAwaitTermination,
                RecvTerminate, starVars
  <1>4. CASE StatusStep
    BY <1>4 DEF StatusStep, AggReport, AggRead, AggWake, RelayStatus, WaiterLooks,
                WaiterWakes, starVars
  <1>5. CASE Termination
    BY <1>5 DEF Termination, Terminate, CallAwaitTermination, AwaitTerminationReturns, starVars
  <1>6. CASE UNCHANGED vars
    BY <1>6 DEF vars, starVars
  <1> QED
    BY <1>1, <1>2, <1>3, <1>4, <1>5, <1>6 DEF Next, Loop

\* A call put into a channel with room leaves the channel well typed.
LEMMA AppendCall ==
    ASSUME NEW c \in Calls, TypeOK, HasRoom
    PROVE  /\ Append(chan, c) \in Seq(Calls)
           /\ Len(Append(chan, c)) <= CallCap
  BY MachineAssumption DEF TypeOK, HasRoom

\* Taking the first call does too.
LEMMA TakeCall ==
    ASSUME NEW op, TypeOK, Take(op)
    PROVE  pc = "run" /\ chan' \in Seq(Calls) /\ Len(chan') <= CallCap
  BY MachineAssumption DEF TypeOK, Take

\* The machine starts well typed.
LEMMA InitTypeOK == Init => TypeOK
  BY MachineAssumption DEF Init, TypeOK, StarStatus, MachineStatus

\* Every step of the machine, its stars and its callers keeps the types.
LEMMA NextTypeOK == TypeOK /\ [Next]_vars => TypeOK'
  <1> SUFFICES ASSUME TypeOK, [Next]_vars PROVE TypeOK'
    OBVIOUS
  <1> DEFINE SubStates == {"none", "queued", "open", "ok", "err", "lagged", "gone", "closed"}
  <1>sub. ASSUME NEW subs \in [Callers -> SubStates], NEW msg \in {"ok", "err"}
          PROVE  Broadcast(msg, subs) \in [Callers -> SubStates]
    BY BroadcastType
  <1>own. sub \in [Callers -> SubStates]
    BY DEF TypeOK
  <1>chan. chan \in Seq(Calls) /\ Len(chan) <= CallCap /\ (pc = "stopped" => chan = <<>>)
    BY DEF TypeOK
  <1>1. CASE Start
    <2>1. Call("Init", "machine") \in Calls
      BY DEF Calls
    <2>2. chan' \in Seq(Calls) /\ Len(chan') <= CallCap /\ (pc = "stopped" => chan' = <<>>)
      BY <1>1, <1>chan, <2>1, AppendCall DEF Start
    <2> QED
      BY <1>1, <2>2 DEF TypeOK, Start, starVars, aggVars, endVars
  <1>2. CASE RecvInit
    BY <1>2, <1>own, <1>sub, TakeCall DEF TypeOK, RecvInit, aggVars
  <1>3. CASE RecvWaitForReady
    <2>1. /\ pc = "run" /\ chan' \in Seq(Calls) /\ Len(chan') <= CallCap
          /\ sub' \in [Callers -> SubStates]
      BY <1>3, <1>own, <1>sub, TakeCall DEF RecvWaitForReady
    <2>2. /\ waiter' \in [Stars -> {"none", "queued", "look", "wait", "released", "dropped"}]
          /\ \A s \in Stars : loop'[s] = "blocked" => waiter'[s] # "none"
      BY <1>3 DEF TypeOK, RecvWaitForReady
    <2> QED
      BY <1>3, <2>1, <2>2 DEF TypeOK, RecvWaitForReady, starVars, aggVars
  <1>4. CASE RecvEndpointFactory
    BY <1>4, <1>own, <1>sub, TakeCall DEF TypeOK, RecvEndpointFactory, starVars, aggVars
  <1>5. CASE RecvAwaitTermination
    <2>1. [sub EXCEPT ![Head(chan).arg] = "open"] \in [Callers -> SubStates]
      BY <1>own
    <2>2. sub' \in [Callers -> SubStates]
      BY <1>5, <2>1, <1>sub DEF RecvAwaitTermination
    <2> QED
      BY <1>5, <2>2, TakeCall DEF TypeOK, RecvAwaitTermination, starVars, aggVars
  <1>6. CASE RecvTerminate
    <2>1. Broadcast("ok", sub) \in [Callers -> SubStates]
      BY <1>own, <1>sub
    <2>2. sub' \in [Callers -> SubStates]
      BY <1>6, <1>own, <2>1 DEF RecvTerminate
    <2>3. chan' \in Seq(Calls) /\ Len(chan') <= CallCap
      BY <1>6, MachineAssumption DEF RecvTerminate
    <2> QED
      BY <1>6, <2>2, <2>3 DEF TypeOK, RecvTerminate, starVars, aggVars
  <1>7. ASSUME NEW s \in Stars, Boot(s) \/ BootFails(s) \/ QueueWrangling(s) \/ BecomeReady(s)
        PROVE  TypeOK'
    <2>1. CASE Boot(s)
      BY <2>1 DEF TypeOK, Boot, Publish, StarStatus, aggVars, endVars
    <2>2. CASE BootFails(s)
      BY <2>2 DEF TypeOK, BootFails, Publish, StarStatus, aggVars, endVars
    <2>3. CASE QueueWrangling(s)
      BY <2>3 DEF TypeOK, QueueWrangling, aggVars, endVars
    <2>4. CASE BecomeReady(s)
      BY <2>4 DEF TypeOK, BecomeReady, Publish, StarStatus, aggVars, endVars
    <2> QED
      BY <1>7, <2>1, <2>2, <2>3, <2>4
  <1>8. ASSUME NEW s \in Stars, StartWrangling(s) PROVE TypeOK'
    <2>1. Call("WaitForReady", s) \in Calls
      BY DEF Calls
    <2>2. chan' \in Seq(Calls) /\ Len(chan') <= CallCap /\ (pc = "stopped" => chan' = <<>>)
      <3>1. CASE pc = "stopped"
        BY <1>8, <3>1 DEF TypeOK, StartWrangling
      <3>2. CASE pc # "stopped"
        <4>1. HasRoom /\ chan' = Append(chan, Call("WaitForReady", s)) /\ pc' = pc
          BY <1>8, <3>2 DEF StartWrangling
        <4> QED
          BY <2>1, <3>2, <4>1, AppendCall
      <3> QED
        BY <3>1, <3>2
    <2>3. /\ loop' \in [Stars -> {"idle", "blocked", "serving", "wrangled"}]
          /\ waiter' \in [Stars -> {"none", "queued", "look", "wait", "released", "dropped"}]
          /\ \A t \in Stars : loop'[t] = "blocked" => waiter'[t] # "none"
      <3>1. \/ /\ waiter' = [waiter EXCEPT ![s] = "queued"]
               /\ loop' = [loop EXCEPT ![s] = "blocked"]
            \/ /\ loop' = [loop EXCEPT ![s] = "serving"]
               /\ waiter' = waiter
        BY <1>8 DEF StartWrangling
      <3>2. /\ loop \in [Stars -> {"idle", "blocked", "serving", "wrangled"}]
            /\ waiter \in [Stars -> {"none", "queued", "look", "wait", "released", "dropped"}]
            /\ \A t \in Stars : loop[t] = "blocked" => waiter[t] # "none"
        BY DEF TypeOK
      <3>3. CASE loop' = [loop EXCEPT ![s] = "serving"] /\ waiter' = waiter
        BY <3>2, <3>3
      <3>4. CASE loop' = [loop EXCEPT ![s] = "blocked"] /\ waiter' = [waiter EXCEPT ![s] = "queued"]
        BY <3>2, <3>4
      <3> QED
        BY <3>1, <3>3, <3>4
    <2>4. UNCHANGED <<pc, asked, starVars, connect, aggVars, status, wfresh, endVars>>
      BY <1>8 DEF StartWrangling
    <2> QED
      BY <2>2, <2>3, <2>4 DEF TypeOK, starVars, aggVars, endVars
  <1>9. ASSUME NEW s \in Stars, WaitReadyReturns(s) \/ Wrangled(s) PROVE TypeOK'
    <2>1. CASE WaitReadyReturns(s)
      BY <2>1 DEF TypeOK, WaitReadyReturns, starVars, aggVars, endVars
    <2>2. CASE Wrangled(s)
      BY <2>2 DEF TypeOK, Wrangled, Publish, StarStatus, aggVars, endVars
    <2> QED
      BY <1>9, <2>1, <2>2
  <1>10. ASSUME NEW s \in Stars, Connect(s) PROVE TypeOK'
    <2>1. Call("EndpointFactory", s) \in Calls
      BY DEF Calls
    <2>2. chan' \in Seq(Calls) /\ Len(chan') <= CallCap /\ (pc = "stopped" => chan' = <<>>)
      BY <1>10, <1>chan, <2>1, AppendCall DEF Connect
    <2> QED
      BY <1>10, <2>2 DEF TypeOK, Connect, starVars, aggVars, endVars
  <1>11. ASSUME NEW s \in Stars, ConnectFails(s) PROVE TypeOK'
    BY <1>11 DEF TypeOK, ConnectFails, Publish, StarStatus, starVars, aggVars, endVars
  <1>12. ASSUME NEW s \in Stars, AggRead(s) PROVE TypeOK'
    BY <1>12 DEF TypeOK, AggRead, starVars, endVars
  <1>13. CASE AggReport
    <2>1. statusQ' \in Seq(MachineStatus) /\ Len(statusQ') <= StatusCap
      <3>1. CASE Verdict(agg.seen) = "none"
        BY <1>13, <3>1 DEF TypeOK, AggReport
      <3>2. CASE Verdict(agg.seen) # "none"
        <4>1. Verdict(agg.seen) \in MachineStatus
          BY <3>2, VerdictType
        <4>2. statusQ' = Append(statusQ, Verdict(agg.seen)) /\ Len(statusQ) < StatusCap
          BY <1>13, <3>2 DEF AggReport
        <4> QED
          BY <4>1, <4>2, MachineAssumption DEF TypeOK
      <3> QED
        BY <3>1, <3>2
    <2> QED
      BY <1>13, <2>1 DEF TypeOK, AggReport, starVars, endVars
  <1>14. ASSUME NEW s \in Stars, AggWake(s) PROVE TypeOK'
    BY <1>14 DEF TypeOK, AggWake, endVars
  <1>15. CASE RelayStatus
    <2>1. /\ status' \in MachineStatus
          /\ statusQ' \in Seq(MachineStatus)
          /\ Len(statusQ') <= StatusCap
      BY <1>15, MachineAssumption DEF TypeOK, RelayStatus
    <2> QED
      BY <1>15, <2>1 DEF TypeOK, RelayStatus, starVars, endVars
  <1>16. ASSUME NEW s \in Stars, WaiterLooks(s) \/ WaiterWakes(s) PROVE TypeOK'
    <2>1. CASE WaiterLooks(s)
      BY <2>1 DEF TypeOK, WaiterLooks, starVars, aggVars, endVars
    <2>2. CASE WaiterWakes(s)
      BY <2>2 DEF TypeOK, WaiterWakes, starVars, aggVars, endVars
    <2> QED
      BY <1>16, <2>1, <2>2
  <1>17. CASE Terminate
    <2>1. Call("Terminate", "machine") \in Calls
      BY DEF Calls
    <2>2. chan' \in Seq(Calls) /\ Len(chan') <= CallCap /\ (pc = "stopped" => chan' = <<>>)
      BY <1>17, <1>chan, <2>1, AppendCall DEF Terminate
    <2> QED
      BY <1>17, <2>2 DEF TypeOK, Terminate, starVars, aggVars, endVars
  <1>18. ASSUME NEW c \in Callers, CallAwaitTermination(c) PROVE TypeOK'
    <2>1. Call("AwaitTermination", c) \in Calls
      BY DEF Calls
    <2>2. chan' \in Seq(Calls) /\ Len(chan') <= CallCap /\ (pc = "stopped" => chan' = <<>>)
      BY <1>18, <1>chan, <2>1, AppendCall DEF CallAwaitTermination
    <2> QED
      BY <1>18, <2>2 DEF TypeOK, CallAwaitTermination, starVars, aggVars, endVars
  <1>19. ASSUME NEW c \in Callers, AwaitTerminationReturns(c) PROVE TypeOK'
    BY <1>19 DEF TypeOK, AwaitTerminationReturns, starVars, aggVars
  <1>20. CASE UNCHANGED vars
    BY <1>20 DEF TypeOK, vars, starVars, aggVars, endVars
  <1> QED
    BY <1>1, <1>2, <1>3, <1>4, <1>5, <1>6, <1>7, <1>8, <1>9, <1>10, <1>11, <1>12, <1>13,
       <1>14, <1>15, <1>16, <1>17, <1>18, <1>19, <1>20
       DEF Next, Loop, StatusStep, Termination, StarStep

\* The machine's channels stay within their capacities, and a machine that has
\* stopped holds no call, however stars, callers and terminate interleave.
THEOREM TypeCorrect == Spec => []TypeOK
  BY InitTypeOK, NextTypeOK, PTL DEF Spec

-----------------------------------------------------------------------------
\* Ready, wherever it is met on its way from a star to those who wait, is backed by
\* the stars that have been Ready: on a star's watch and among what the aggregator
\* has read it is that star, further on it is all of them.
ReadyBacked ==
    /\ upOnce \subseteq Members
    /\ \A s \in Stars : loop[s] # "idle" => s \in Members
    /\ \A s \in Stars : star[s] = "Ready" => s \in upOnce
    /\ \A s \in Stars : agg.seen[s] = "Ready" => s \in upOnce
    /\ ReadyIsHonest

LEMMA InitReadyBacked == Init => ReadyBacked
  BY DEF Init, ReadyBacked, ReadyIsHonest, Unread

LEMMA NextReadyBacked == TypeOK /\ ReadyBacked /\ [Next]_vars => ReadyBacked'
  <1> SUFFICES ASSUME TypeOK, ReadyBacked, [Next]_vars PROVE ReadyBacked'
    OBVIOUS
  <1> USE DEF ReadyBacked, ReadyIsHonest
  <1>0. Members' = Members
    BY MembersStay
  <1>1. CASE Loop
    BY <1>0, <1>1 DEF TypeOK, Loop, Start, RecvInit, RecvWaitForReady, RecvEndpointFactory,
                RecvAwaitTermination, RecvTerminate, starVars, aggVars
  <1>2. ASSUME NEW s \in Stars, StarStep(s) PROVE ReadyBacked'
    <2>1. CASE Boot(s) \/ BootFails(s) \/ ConnectFails(s)
      BY <1>0, <1>2, <2>1 DEF TypeOK, Boot, BootFails, ConnectFails, Publish, aggVars
    <2>2. CASE BecomeReady(s) \/ Wrangled(s)
      <3>1. /\ star' = [star EXCEPT ![s] = "Ready"]
            /\ upOnce' = upOnce \cup {s}
            /\ UNCHANGED <<aggVars, status, waiter>>
        BY <2>2 DEF BecomeReady, Wrangled, Publish
      <3>2. upOnce \subseteq upOnce' /\ upOnce' \subseteq Members
        BY <2>2, <3>1 DEF TypeOK, BecomeReady, Wrangled, Members
      <3>3. upOnce = Members => upOnce' = Members
        BY <3>2
      <3>4. \A t \in Stars : star'[t] = "Ready" => t \in upOnce'
        BY <3>1 DEF TypeOK
      <3>5. \A t \in Stars : loop'[t] # "idle" => t \in Members
        BY <2>2 DEF TypeOK, BecomeReady, Wrangled
      <3> QED
        BY <1>0, <3>1, <3>2, <3>3, <3>4, <3>5 DEF aggVars
    <2>3. CASE QueueWrangling(s) \/ WaitReadyReturns(s) \/ Connect(s)
      <3>1. \A t \in Stars : loop'[t] # "idle" => loop[t] # "idle"
        BY <2>3 DEF TypeOK, QueueWrangling, WaitReadyReturns, Connect
      <3> QED
        BY <1>0, <1>2, <2>3, <3>1 DEF TypeOK, QueueWrangling, WaitReadyReturns, Connect, starVars, aggVars
    <2>4. CASE StartWrangling(s)
      <3>1. s \in Members
        BY <2>4 DEF StartWrangling, Members
      <3>2. \A t \in Stars : loop'[t] # "idle" => t \in Members
        BY <2>4, <3>1 DEF TypeOK, StartWrangling
      <3>3. \A t \in Stars : waiter'[t] = "released" => waiter[t] = "released"
        BY <2>4 DEF TypeOK, StartWrangling
      <3> QED
        BY <1>0, <2>4, <3>2, <3>3 DEF StartWrangling, starVars, aggVars
    <2> QED
      BY <1>0, <1>2, <2>1, <2>2, <2>3, <2>4 DEF StarStep
  <1>3. ASSUME NEW s \in Stars, AggRead(s) PROVE ReadyBacked'
    BY <1>0, <1>3 DEF TypeOK, AggRead, starVars
  <1>4. CASE AggReport
    <2>1. \A i \in DOMAIN statusQ' : statusQ'[i] = "Ready" => upOnce = Members
      <3>1. Verdict(agg.seen) = "Ready" => upOnce = Members
        <4>1. \A s \in Stars : agg.seen[s] = "Ready" => s \in Members
          OBVIOUS
        <4>2. Members \subseteq Stars
          BY DEF Members
        <4> QED
          BY <4>1, <4>2, ReadyVerdict
      <3>2. CASE UNCHANGED statusQ
        BY <3>2
      <3>3. CASE statusQ' = Append(statusQ, Verdict(agg.seen))
        BY <3>1, <3>3, VerdictType DEF TypeOK
      <3> QED
        BY <1>0, <1>4, <3>2, <3>3 DEF AggReport
    <2> QED
      BY <1>0, <1>4, <2>1 DEF TypeOK, AggReport, starVars
  <1>5. ASSUME NEW s \in Stars, AggWake(s) PROVE ReadyBacked'
    BY <1>0, <1>5 DEF TypeOK, AggWake, Unread
  <1>6. CASE RelayStatus
    <2>1. Head(statusQ) = statusQ[1] /\ 1 \in DOMAIN statusQ
      BY <1>0, <1>6 DEF TypeOK, RelayStatus
    <2>2. \A i \in DOMAIN Tail(statusQ) : i + 1 \in DOMAIN statusQ
                                          /\ Tail(statusQ)[i] = statusQ[i + 1]
      BY <1>0, <1>6 DEF TypeOK, RelayStatus
    <2> QED
      BY <1>0, <1>6, <2>1, <2>2 DEF TypeOK, RelayStatus, starVars
  <1>7. ASSUME NEW s \in Stars, WaiterLooks(s) \/ WaiterWakes(s) PROVE ReadyBacked'
    BY <1>0, <1>7 DEF TypeOK, WaiterLooks, WaiterWakes, starVars, aggVars
  <1>8. CASE Termination
    BY <1>0, <1>8 DEF TypeOK, Termination, Terminate, CallAwaitTermination,
                AwaitTerminationReturns, starVars, aggVars
  <1>9. CASE UNCHANGED vars
    BY <1>0, <1>9 DEF vars, starVars, aggVars
  <1> QED
    BY <1>1, <1>2, <1>3, <1>4, <1>5, <1>6, <1>7, <1>8, <1>9 DEF Next, StatusStep

\* When the machine says Ready, and when it lets a star go on that waited for it,
\* every star has been Ready: the unsynchronised reads of the aggregator, and the
\* queue between its verdict and the watch, never make the machine Ready too early.
THEOREM ReadyNeverTooEarly == Spec => []ReadyIsHonest
  <1>1. Init => TypeOK /\ ReadyBacked
    BY InitTypeOK, InitReadyBacked
  <1>2. (TypeOK /\ ReadyBacked) /\ [Next]_vars => (TypeOK /\ ReadyBacked)'
    BY NextTypeOK, NextReadyBacked
  <1>3. ReadyBacked => ReadyIsHonest
    BY DEF ReadyBacked
  <1> QED
    BY <1>1, <1>2, <1>3, PTL DEF Spec

-----------------------------------------------------------------------------
(* The drivers of a star.                                                  *)

\* How many factories were taken, and the drivers they are for.
TakenNumber == Len(Factories) - Len(left)
Taken == {Factories[i] : i \in 1..TakenNumber}

\* What is left are the last factories; the driver in the map is the one taken last.
Lined ==
    /\ Len(left) <= Len(Factories)
    /\ left = SubSeq(Factories, TakenNumber + 1, Len(Factories))
    /\ entry = IF TakenNumber = 0 THEN None ELSE Factories[TakenNumber]

Words == {<<>>, <<"Init">>, <<"Ready">>, <<"Fatal">>, <<"Init", "Ready">>, <<"Init", "Fatal">>}
Said(d, word) == driverQ[d] \in {<<word>>, <<"Init", word>>}

InitIsSent == callQ = <<InitCall>> \/ callQ = <<AddCall(DriverDriver), InitCall>>
InFront(d) == callQ # <<>> /\ Head(callQ) = AddCall(d)
InChan(d) == d # DriverDriver /\ callQ = <<AddCall(d)>>
InDriver(d) == runnerQ[DriverDriver] = <<AddCall(d)>>

\* The channels hold what concerns the driver taken last, and nothing else.
Channels ==
    /\ \/ callQ = <<>> \/ callQ = <<InitCall>>
       \/ (entry # None /\ callQ = <<AddCall(entry)>>)
       \/ (entry = DriverDriver /\ callQ = <<AddCall(DriverDriver), InitCall>>)
    /\ \A d \in DriverSet :
          \/ runnerQ[d] = <<>> \/ runnerQ[d] = <<OnAdded>>
          \/ (d = DriverDriver /\ entry \notin {None, DriverDriver} /\ runnerQ[d] = <<AddCall(entry)>>)

\* Before its maker has handed it over and the DriverDriver has had it initialise itself.
Waits(d) ==
    \/ maker[d] \in {"none", "make"}
    \/ (d = DriverDriver /\ maker[d] = "add")
    \/ InChan(d)
    \/ InDriver(d)

\* A driver starts once: it waits, then it is told to initialise itself, then it does,
\* then it has said how that ended, and then it has that status for good.
Once(d) ==
    /\ driverQ[d] \in Words
    /\ driver[d] # "Unknown"
    /\ Waits(d) => /\ runner[d] = "idle"
                   /\ runnerQ[d] # <<OnAdded>>
                   /\ driverQ[d] = <<>>
                   /\ driver[d] = "Pending" \/ (driver[d] = "Fatal" /\ maker[d] = "none")
    /\ runnerQ[d] = <<OnAdded>> => runner[d] = "idle" /\ driverQ[d] = <<>> /\ driver[d] = "Pending"
    /\ runner[d] = "init" => driverQ[d] \in {<<>>, <<"Init">>} /\ driver[d] \in {"Pending", "Init"}
    /\ Said(d, "Ready") \/ Said(d, "Fatal") => driver[d] \in {"Pending", "Init"}
    /\ driver[d] \in {"Ready", "Fatal"} => driverQ[d] = <<>>
    /\ driver[d] = "Fatal" \/ Said(d, "Fatal") => d \in FailingDrivers

\* A driver that initialises itself, or has, was made, registered and made known; the
\* DriverDriver may have yet to be registered, but before anything else is done.
Initialises(d) == runnerQ[d] = <<OnAdded>> \/ runner[d] = "init" \/ Said(d, "Ready") \/ driver[d] = "Ready"

Backed(d) ==
    /\ InFront(d) => maker[d] \in {"add", "done"}
    /\ InDriver(d) => maker[d] \in {"add", "done"} /\ d \in registered /\ ~InChan(d)
    /\ Initialises(d) => maker[d] \in {"add", "done"} /\ (IF d = DriverDriver THEN maker[d] = "done" ELSE d \in known)
    /\ Initialises(d) \/ (d = DriverDriver /\ maker[d] = "add") => d \in registered \/ (d = DriverDriver /\ InFront(d))

\* One driver after the other: those before the last one are Ready, those after it untouched.
InTurn ==
    /\ \A d \in DriverSet \ Taken :
          maker[d] = "none" /\ runnerQ[d] = <<>> /\ driver[d] = "Pending"
    /\ \A d \in Taken : d # entry => driver[d] = "Ready"

\* Either Init0 is on its way or a listener looks after the driver taken last.
Handing ==
    /\ InitIsSent => listener.at = "none" /\ (entry # None => driver[entry] = "Ready")
    /\ listener.at # "none" => entry # None
    /\ listener.final => left = <<>> /\ callQ = <<>> /\ entry # None /\ driver[entry] = "Ready"
    /\ listener.at = "tell" => /\ listener.read \in {"Ready", "Fatal"} => driver[entry] = listener.read
                               /\ listener.final => listener.read = "Ready"

\* That the star is told Ready is the final listener's doing, ...
ReadyTold ==
    \/ "Ready" \in {told, starStatus, task.act, task.previous}
    \/ \E i \in DOMAIN toldQ : toldQ[i] = "Ready"
    => listener.final

\* ... and after Fatal no listener tells it anything.
FatalTold ==
    \/ "Fatal" \in {told, starStatus, task.act}
    \/ \E i \in DOMAIN toldQ : toldQ[i] = "Fatal"
    => FailingDrivers # {} /\ listener.at = "none" /\ ~InitIsSent /\ ~listener.final

\* Ready and Fatal are the last the star is told.
Last ==
    /\ \A i, j \in DOMAIN toldQ : i < j => toldQ[i] # "Fatal" /\ (toldQ[i] = "Ready" => toldQ[j] = "Ready")
    /\ told = "Fatal" => toldQ = <<>>
    /\ told = "Ready" => \A i \in DOMAIN toldQ : toldQ[i] = "Ready"

\* So they are the last it publishes, and before Ready it has sent StartWrangling.
Published ==
    /\ task.at \in {"act", "publish"} /\ task.act \in {"Ready", "Fatal"} => told = task.act
    /\ task.at = "publish" => task.act = "Ready" /\ wrangles > 0
    /\ starStatus \in {"Ready", "Fatal"} => told = starStatus /\ (task.at \in {"act", "publish"} => task.act = starStatus)
    /\ starStatus = "Ready" => wrangles > 0
    /\ wrangles > 0 => starStatus = "Ready" \/ task.at = "publish"


-----------------------------------------------------------------------------
(* Types, and the factories in their order.                                *)

\* There is a DriverDriver: the first of the factories.
LEMMA First ==
    /\ DriverDriver \in DriverSet /\ None \notin DriverSet
    /\ Len(Factories) \in Nat \ {0} /\ Factories \in Seq(DriverSet)
    /\ DriverDriver = Factories[1]
    /\ \A i \in 1..Len(Factories) : Factories[i] \in DriverSet
    /\ DriverSet = {Factories[i] : i \in 1..Len(Factories)}
  <1>1. Factories \in Seq(DriverSet) /\ Factories # <<>> /\ None \notin DriverSet
    BY FactoriesAssumption
  <1> QED
    BY <1>1 DEF DriverDriver, DriverSet

Given == {InitCall} \cup {AddCall(d) : d \in DriverSet}
Run == {OnAdded} \cup {AddCall(d) : d \in DriverSet}

\* The variables of each task.
BootType ==
    /\ left \in Seq(DriverSet)
    /\ callQ \in Seq(Given)
    /\ maker \in [DriverSet -> {"none", "make", "add", "done"}]
    /\ registered \subseteq DriverSet

RunType ==
    /\ runner \in [DriverSet -> {"idle", "init"}]
    /\ runnerQ \in [DriverSet -> Seq(Run)]
    /\ known \subseteq DriverSet

WatchType ==
    /\ driverQ \in [DriverSet -> Seq(Values)]
    /\ driver \in [DriverSet -> Values]
    /\ entry \in DriverSet \cup {None}

TellType ==
    /\ listener \in [at : {"none", "look", "tell", "wait"}, final : BOOLEAN, read : Values]
    /\ toldQ \in Seq(Values)

TopType ==
    /\ told \in Values
    /\ task \in [at : {"compare", "assign", "match", "act", "publish", "wait"},
                 previous : Values, act : Values]
    /\ starStatus \in Values
    /\ wrangles \in Nat

FreshType == entryFresh \in BOOLEAN /\ toldFresh \in BOOLEAN

Looks == listener.at # "none" => entry # None

LEMMA Types ==
    DriversTypeOK <=> BootType /\ RunType /\ WatchType /\ TellType /\ TopType /\ FreshType /\ Looks
  BY DEF DriversTypeOK, BootType, RunType, WatchType, TellType, TopType, FreshType, Looks, Given, Run

LEMMA TypesNext ==
    DriversTypeOK' <=> BootType' /\ RunType' /\ WatchType' /\ TellType' /\ TopType' /\ FreshType' /\ Looks'
  BY Types, PTL

\* What the first of a queue is, and what is left behind it.
LEMMA Queue ==
    ASSUME NEW S, NEW q \in Seq(S), q # <<>>
    PROVE  Head(q) \in S /\ Tail(q) \in Seq(S)
  OBVIOUS

LEMMA InitDriversType == DriversInit => DriversTypeOK
  <1> SUFFICES ASSUME DriversInit PROVE DriversTypeOK
    OBVIOUS
  <1>1. BootType
    BY First DEF DriversInit, BootType, Given
  <1>2. RunType
    BY DEF DriversInit, RunType
  <1>v. "Pending" \in Values /\ "Unknown" \in Values
    BY DEF Values
  <1>3. WatchType
    BY <1>v DEF DriversInit, WatchType
  <1>4. TellType /\ TopType
    BY <1>v DEF DriversInit, TellType, TopType
  <1>5. Looks /\ FreshType
    BY DEF DriversInit, Looks, FreshType
  <1> QED
    BY <1>1, <1>2, <1>3, <1>4, <1>5, Types

LEMMA NextFresh == DriversTypeOK /\ [DriversNext]_driversVars => FreshType'
  <1> SUFFICES ASSUME DriversTypeOK, [DriversNext]_driversVars PROVE FreshType'
    OBVIOUS
  <1>1. FreshType
    BY Types
  <1>2. CASE DriversTask \/ RunAddDriver \/ Listener
    BY <1>1, <1>2 DEF DriversTask, InitNext, InitDone, AddDriver, RunAddDriver, Listener, Look, TellReady,
                      TellStatus, ListenerWakes, boot, run, watch, tell, top, FreshType
  <1>3. ASSUME NEW d \in DriverSet, DriverStep(d) PROVE FreshType'
    BY <1>1, <1>3 DEF DriverStep, Make, Added, RunOnAdded, RunInit, RelayDriver,
                      boot, run, watch, tell, top, FreshType
  <1>4. CASE RelayTold \/ StatusTask \/ UNCHANGED driversVars
    BY <1>1, <1>4 DEF RelayTold, StatusTask, Compare, Assign, Match, ActReady, ActPublish, TaskWakes,
                      driversVars, boot, run, watch, tell, top, FreshType
  <1> QED
    BY <1>2, <1>3, <1>4 DEF DriversNext

LEMMA NextDriversType == DriversTypeOK /\ Lined /\ [DriversNext]_driversVars => DriversTypeOK'
  <1> SUFFICES ASSUME DriversTypeOK, Lined, [DriversNext]_driversVars
               PROVE  /\ BootType' /\ RunType' /\ WatchType' /\ TellType' /\ TopType'
                      /\ listener'.at # "none" => entry' # None
    BY NextFresh, TypesNext DEF Looks
  <1>t. /\ BootType /\ RunType /\ WatchType /\ TellType /\ TopType
        /\ listener.at # "none" => entry # None
    BY Types DEF Looks
  <1>d. DriverDriver \in DriverSet /\ None \notin DriverSet
    BY First
  <1>c. callQ # <<>> => Head(callQ) \in Given /\ Tail(callQ) \in Seq(Given)
    BY <1>t, Queue DEF BootType
  <1>a. callQ # <<>> /\ Head(callQ).op = "AddDriver" => Head(callQ).arg \in DriverSet
    BY <1>c DEF AddCall, InitCall, Given
  <1>1. CASE InitNext
    <2>1. Head(left) \in DriverSet /\ Tail(left) \in Seq(DriverSet)
      BY <1>1, <1>t, Queue DEF InitNext, BootType
    <2>2. BootType'
      BY <1>1, <1>t, <1>c, <2>1 DEF InitNext, BootType
    <2>3. RunType' /\ TopType'
      BY <1>1, <1>t DEF InitNext, RunType, TopType, run, top
    <2>4. WatchType' /\ entry' # None
      BY <1>1, <1>t, <1>d, <2>1 DEF InitNext, WatchType, Values
    <2>5. TellType'
      BY <1>1, <1>t DEF InitNext, TellType, Listen, Values
    <2> QED
      BY <2>2, <2>3, <2>4, <2>5
  <1>2. CASE InitDone
    <2>0. entry # None
      <3>1. left = <<>> /\ Len(left) = 0
        BY <1>2 DEF InitDone
      <3>2. Len(Factories) \in Nat \ {0} /\ \A i \in 1..Len(Factories) : Factories[i] \in DriverSet
        BY First
      <3>3. TakenNumber = Len(Factories) /\ entry = Factories[Len(Factories)]
        BY <3>1, <3>2 DEF Lined, TakenNumber
      <3> QED
        BY <1>d, <3>2, <3>3
    <2>1. BootType'
      BY <1>2, <1>t, <1>c DEF InitDone, BootType
    <2>2. RunType' /\ WatchType' /\ TopType' /\ entry' # None
      BY <1>2, <1>t, <2>0 DEF InitDone, RunType, WatchType, TopType, run, watch, top
    <2>3. TellType'
      BY <1>2, <1>t DEF InitDone, TellType, Listen, Values
    <2> QED
      BY <2>1, <2>2, <2>3
  <1>3. CASE AddDriver
    <2>1. BootType'
      BY <1>3, <1>t, <1>c, <1>a DEF AddDriver, BootType
    <2>2. RunType'
      <3>1. AddCall(Head(callQ).arg) \in Run
        BY <1>3, <1>a DEF AddDriver, Run
      <3> HIDE DEF Run
      <3>2. runnerQ' \in [DriverSet -> Seq(Run)]
        BY <1>3, <1>t, <1>d, <3>1 DEF AddDriver, RunType
      <3> QED
        BY <1>3, <1>t, <3>2 DEF AddDriver, RunType
    <2>3. WatchType' /\ TellType' /\ TopType' /\ listener' = listener /\ entry' = entry
      BY <1>3, <1>t DEF AddDriver, WatchType, TellType, TopType, watch, tell, top
    <2> QED
      BY <1>t, <2>1, <2>2, <2>3
  <1>4. CASE RunAddDriver
    <2> DEFINE q == runnerQ[DriverDriver]
    <2>1. q \in Seq(Run) /\ q # <<>> /\ Head(q) \in Run /\ Tail(q) \in Seq(Run)
      BY <1>4, <1>t, <1>d, Queue DEF RunAddDriver, RunType
    <2>2. Head(q).arg \in DriverSet /\ OnAdded \in Run
      BY <1>4, <2>1 DEF RunAddDriver, Run, AddCall, OnAdded
    <2>3. RunType'
      <3>1. known' \subseteq DriverSet /\ runner' = runner
        BY <1>4, <1>t, <2>2 DEF RunAddDriver, RunType
      <3>2. runnerQ' = [d \in DriverSet |->
                          CASE d = DriverDriver -> Tail(q)
                            [] d = Head(q).arg  -> Append(runnerQ[d], OnAdded)
                            [] OTHER            -> runnerQ[d]]
        BY <1>4 DEF RunAddDriver
      <3>3. ASSUME NEW d \in DriverSet PROVE runnerQ'[d] \in Seq(Run)
        <4> HIDE DEF q
        <4>1. runnerQ'[d] \in {Tail(q), Append(runnerQ[d], OnAdded), runnerQ[d]}
          BY <3>2
        <4>2. runnerQ[d] \in Seq(Run)
          BY <1>t DEF RunType
        <4> HIDE DEF Run
        <4>3. Append(runnerQ[d], OnAdded) \in Seq(Run)
          BY <2>2, <4>2
        <4> QED
          BY <2>1, <4>1, <4>2, <4>3
      <3>4. runnerQ' \in [DriverSet -> Seq(Run)]
        BY <3>2, <3>3
      <3> QED
        BY <1>t, <3>1, <3>4 DEF RunType
    <2>4. BootType' /\ WatchType' /\ TellType' /\ TopType' /\ listener' = listener /\ entry' = entry
      BY <1>4, <1>t DEF RunAddDriver, BootType, WatchType, TellType, TopType, boot, watch, tell, top
    <2> QED
      BY <1>t, <2>3, <2>4
  <1>5. ASSUME NEW d \in DriverSet, Make(d) \/ Added(d) PROVE BootType' /\ RunType' /\ WatchType'
    <2>1. AddCall(d) \in Given /\ OnAdded \in Run
      BY DEF Given, Run
    <2>2. CASE Make(d)
      <3>0. "Fatal" \in Values
        BY DEF Values
      <3>1. maker' \in [DriverSet -> {"none", "make", "add", "done"}]
        BY <1>t, <2>2 DEF Make, BootType
      <3>3. callQ' = callQ \/ callQ' = Append(callQ, AddCall(d))
        BY <2>2 DEF Make
      <3>4. callQ' \in Seq(Given)
        BY <1>t, <2>1, <3>3 DEF BootType
      <3>5. driverQ' = driverQ \/ driverQ' = [driverQ EXCEPT ![d] = Append(@, "Fatal")]
        BY <2>2 DEF Make
      <3>2. driverQ' \in [DriverSet -> Seq(Values)]
        BY <1>t, <3>0, <3>5 DEF WatchType
      <3> QED
        BY <1>t, <2>2, <3>1, <3>2, <3>4 DEF Make, BootType, RunType, WatchType, run
    <2>3. CASE Added(d)
      <3>1. runnerQ' \in [DriverSet -> Seq(Run)]
        BY <1>t, <2>1, <2>3 DEF Added, RunType
      <3>2. maker' \in [DriverSet -> {"none", "make", "add", "done"}]
        BY <1>t, <2>3 DEF Added, BootType
      <3> QED
        BY <1>t, <2>3, <3>1, <3>2 DEF Added, BootType, RunType, WatchType, watch
    <2> QED
      BY <1>5, <2>2, <2>3
  <1>6. ASSUME NEW d \in DriverSet, RunOnAdded(d) \/ RunInit(d) \/ RelayDriver(d)
        PROVE  BootType' /\ RunType' /\ WatchType'
    <2>1. "Init" \in Values /\ "Ready" \in Values /\ "Fatal" \in Values
      BY DEF Values
    <2>2. CASE RunOnAdded(d)
      <3>1. Tail(runnerQ[d]) \in Seq(Run)
        BY <1>t, <2>2, Queue DEF RunOnAdded, RunType
      <3>2. runnerQ' \in [DriverSet -> Seq(Run)] /\ runner' \in [DriverSet -> {"idle", "init"}]
        BY <1>t, <2>2, <3>1 DEF RunOnAdded, RunType
      <3>3. PICK said \in {<<>>, <<"Init">>} : driverQ' = [driverQ EXCEPT ![d] = @ \o said]
        BY <2>2 DEF RunOnAdded
      <3>4. said \in Seq(Values)
        <4>1. <<>> \in Seq(Values) /\ <<"Init">> \in Seq(Values)
          BY <2>1
        <4> QED
          BY <4>1
      <3>5. driverQ' \in [DriverSet -> Seq(Values)]
        BY <1>t, <3>3, <3>4 DEF WatchType
      <3> QED
        BY <1>t, <2>2, <3>2, <3>5 DEF RunOnAdded, BootType, RunType, WatchType, boot
    <2>3. CASE RunInit(d)
      <3>1. PICK said \in {"Ready", "Fatal"} : driverQ' = [driverQ EXCEPT ![d] = Append(@, said)]
        BY <2>3 DEF RunInit
      <3>2. driverQ' \in [DriverSet -> Seq(Values)]
        BY <1>t, <2>1, <3>1 DEF WatchType
      <3>3. runner' \in [DriverSet -> {"idle", "init"}]
        BY <1>t, <2>3 DEF RunInit, RunType
      <3> QED
        BY <1>t, <2>3, <3>2, <3>3 DEF RunInit, BootType, RunType, WatchType, boot
    <2>4. CASE RelayDriver(d)
      <3>1. Head(driverQ[d]) \in Values /\ Tail(driverQ[d]) \in Seq(Values)
        BY <1>t, <2>4, Queue DEF RelayDriver, WatchType
      <3>2. driverQ' \in [DriverSet -> Seq(Values)] /\ driver' \in [DriverSet -> Values]
        BY <1>t, <2>4, <3>1 DEF RelayDriver, WatchType
      <3> QED
        BY <1>t, <2>4, <3>2 DEF RelayDriver, BootType, RunType, WatchType, boot, run
    <2> QED
      BY <1>6, <2>2, <2>3, <2>4
  <1>7. ASSUME NEW d \in DriverSet, DriverStep(d)
        PROVE  TellType' /\ TopType' /\ listener' = listener /\ entry' = entry
    BY <1>t, <1>7 DEF DriverStep, Make, Added, RunOnAdded, RunInit, RelayDriver, TellType, TopType, tell, top, watch
  <1>8. CASE Listener
    <2>1. TellType'
      <3>1. CASE Look
        <4>1. driver[entry] \in Values
          BY <1>t, <3>1 DEF Look, WatchType
        <4> QED
          BY <1>t, <3>1, <4>1 DEF Look, TellType
      <3>2. CASE TellReady \/ ListenerWakes
        BY <1>t, <3>2 DEF TellReady, ListenerWakes, TellType, watch
      <3>3. CASE TellStatus
        <4>1. Summary(listener.read) \in Values
          BY <1>t DEF TellType, Summary, Values
        <4> QED
          BY <1>t, <3>3, <4>1 DEF TellStatus, TellType
      <3> QED
        BY <1>8, <3>1, <3>2, <3>3 DEF Listener
    <2>2. BootType'
      <3>1. InitCall \in Given
        BY DEF Given
      <3>2. CASE TellReady
        BY <1>t, <3>1, <3>2 DEF TellReady, BootType
      <3>3. CASE Look \/ TellStatus \/ ListenerWakes
        BY <1>t, <3>3 DEF Look, TellStatus, ListenerWakes, BootType, boot
      <3> QED
        BY <1>8, <3>2, <3>3 DEF Listener
    <2>3. RunType' /\ WatchType' /\ TopType'
      BY <1>8, <1>t DEF Listener, Look, TellReady, TellStatus, ListenerWakes, RunType, WatchType, TopType,
                        run, watch, top
    <2>4. listener.at # "none" /\ entry' = entry
      BY <1>8 DEF Listener, Look, TellReady, TellStatus, ListenerWakes, watch
    <2> QED
      BY <1>t, <2>1, <2>2, <2>3, <2>4
  <1>9. CASE RelayTold \/ StatusTask \/ UNCHANGED driversVars
    <2>1. BootType' /\ RunType' /\ WatchType'
      BY <1>9, <1>t DEF RelayTold, StatusTask, Compare, Assign, Match, ActReady, ActPublish, TaskWakes,
                        BootType, RunType, WatchType, driversVars, boot, run, watch
    <2>2. ASSUME RelayTold PROVE TellType' /\ TopType' /\ listener' = listener /\ entry' = entry
      <3>1. Head(toldQ) \in Values /\ Tail(toldQ) \in Seq(Values)
        BY <1>t, <2>2, Queue DEF RelayTold, TellType
      <3>2. TellType' /\ listener' = listener /\ entry' = entry
        BY <1>t, <2>2, <3>1 DEF RelayTold, TellType, watch
      <3>3. TopType'
        BY <1>t, <2>2, <3>1 DEF RelayTold, TopType
      <3> QED
        BY <3>2, <3>3
    <2>3. ASSUME StatusTask \/ UNCHANGED driversVars
          PROVE TellType' /\ TopType' /\ listener' = listener /\ entry' = entry
      <3>1. TellType' /\ listener' = listener /\ entry' = entry
        BY <1>t, <2>3 DEF StatusTask, Compare, Assign, Match, ActReady, ActPublish, TaskWakes,
                          TellType, driversVars, tell, watch
      <3>2. ASSUME Compare \/ Assign \/ Match PROVE TopType'
        <4>1. /\ task' \in [at : {"compare", "assign", "match", "act", "publish", "wait"},
                            previous : Values, act : Values]
              /\ told' = told /\ starStatus' = starStatus /\ wrangles' = wrangles
          BY <1>t, <3>2 DEF Compare, Assign, Match, TopType
        <4> QED
          BY <1>t, <4>1 DEF TopType
      <3>3. ASSUME ActReady \/ ActPublish \/ TaskWakes PROVE TopType'
        <4>1. CASE ActReady
          BY <1>t, <4>1 DEF ActReady, TopType
        <4>2. CASE ActPublish
          BY <1>t, <4>2 DEF ActPublish, TopType
        <4>3. CASE TaskWakes
          BY <1>t, <4>3 DEF TaskWakes, TopType
        <4> QED
          BY <3>3, <4>1, <4>2, <4>3
      <3>4. ASSUME UNCHANGED driversVars PROVE TopType'
        <4>1. top' = top
          BY <3>4 DEF driversVars
        <4> QED
          BY <1>t, <4>1 DEF top, TopType
      <3> QED
        BY <2>3, <3>1, <3>2, <3>3, <3>4 DEF StatusTask
    <2> QED
      BY <1>9, <1>t, <2>1, <2>2, <2>3
  <1> QED
    BY <1>1, <1>2, <1>3, <1>4, <1>5, <1>6, <1>7, <1>8, <1>9, <1>t DEF DriversNext, DriversTask, DriverStep

\* What follows the first of the factories from a place on.
LEMMA Behind ==
    ASSUME NEW S, NEW q \in Seq(S), NEW k \in Nat, k < Len(q)
    PROVE  LET r == SubSeq(q, k + 1, Len(q))
           IN  Head(r) = q[k + 1] /\ Tail(r) = SubSeq(q, k + 2, Len(q))
  <1> DEFINE r == SubSeq(q, k + 1, Len(q))
             t == SubSeq(q, k + 2, Len(q))
  <1>n. PICK n \in Nat : n = Len(q)
    OBVIOUS
  <1>1. r \in Seq(S) /\ Len(r) = n - k /\ \A i \in 1..n - k : r[i] = q[k + i]
    <2>1. \A i \in k + 1..n : q[i] \in S
      BY <1>n
    <2>2. k + 1 \in Nat /\ k + 1 <= n /\ k + 1 >= 1
      BY <1>n
    <2> QED
      BY <1>n, <2>1, <2>2
  <1>2. t \in Seq(S) /\ Len(t) = n - k - 1 /\ \A i \in 1..n - k - 1 : t[i] = q[k + 1 + i]
    <2>1. \A i \in k + 2..n : q[i] \in S
      BY <1>n
    <2>2. k + 2 \in Nat /\ k + 2 <= n + 1 /\ k + 2 >= 1
      BY <1>n
    <2> QED
      BY <1>n, <2>1, <2>2
  <1> HIDE DEF r, t
  <1>3. n - k \in Nat \ {0} /\ r # <<>>
    BY <1>n, <1>1
  <1>4. Head(r) = q[k + 1]
    <2>1. Head(r) = r[1] /\ 1 \in 1..n - k
      BY <1>1, <1>3
    <2> QED
      BY <1>1, <2>1
  <1>5. Tail(r) \in Seq(S) /\ Len(Tail(r)) = n - k - 1 /\ \A i \in 1..n - k - 1 : Tail(r)[i] = r[i + 1]
    BY <1>1, <1>3
  <1>6. ASSUME NEW i \in 1..n - k - 1 PROVE Tail(r)[i] = t[i]
    <2>1. i + 1 \in 1..n - k /\ k + (i + 1) = k + 1 + i
      BY <1>3
    <2> QED
      BY <1>1, <1>2, <1>5, <2>1
  <1>7. Tail(r) = t
    BY <1>2, <1>5, <1>6, SeqEqual
  <1> QED
    BY <1>4, <1>7 DEF r, t

\* The drivers taken are the first ones, and those left come after them.
LEMMA Lining ==
    ASSUME DriversTypeOK, Lined
    PROVE  /\ TakenNumber \in 0..Len(Factories)
           /\ Taken \subseteq DriverSet
           /\ left = <<>> => Taken = DriverSet /\ entry # None
           /\ left # <<>> => /\ TakenNumber < Len(Factories)
                             /\ Head(left) = Factories[TakenNumber + 1]
                             /\ Tail(left) = SubSeq(Factories, TakenNumber + 2, Len(Factories))
                             /\ Head(left) \in DriverSet \ Taken
           /\ entry = None => Taken = {} /\ (left # <<>> => Head(left) = DriverDriver)
           /\ entry # None => entry \in Taken /\ DriverDriver \in Taken
  <1>n. PICK n \in Nat \ {0} : n = Len(Factories)
    BY First
  <1>f. /\ Factories \in Seq(DriverSet) /\ None \notin DriverSet /\ DriverDriver = Factories[1]
        /\ \A i \in 1..n : Factories[i] \in DriverSet
        /\ DriverSet = {Factories[i] : i \in 1..n}
    BY <1>n, First
  <1>g. \A i, j \in 1..n : Factories[i] = Factories[j] => i = j
    <2>1. DOMAIN Factories = 1..n
      BY <1>n, <1>f
    <2> QED
      BY <2>1, FactoriesAssumption
  <1>1. PICK l \in Nat : l = Len(left) /\ left \in Seq(DriverSet) /\ (left = <<>> <=> l = 0) /\ l <= n
    <2>1. left \in Seq(DriverSet)
      BY Types DEF BootType
    <2>2. Len(left) <= n
      BY <1>n DEF Lined
    <2> QED
      BY <2>1, <2>2
  <1>2. PICK k \in 0..n : k = TakenNumber /\ k = n - l
    <2>1. n - l \in 0..n
      BY <1>1
    <2>2. TakenNumber = n - l
      BY <1>n, <1>1 DEF TakenNumber
    <2> QED
      BY <2>1, <2>2
  <1>s. Taken = {Factories[i] : i \in 1..k}
    BY <1>2 DEF Taken
  <1>e. entry = IF k = 0 THEN None ELSE Factories[k]
    BY <1>2 DEF Lined
  <1>3. Taken \subseteq DriverSet
    <2>1. \A i \in 1..k : i \in 1..n
      BY <1>2
    <2> QED
      BY <1>s, <1>f, <2>1
  <1>4. left = <<>> => Taken = DriverSet /\ entry # None
    <2>1. left = <<>> => k = n
      BY <1>1, <1>2
    <2>2. n \in 1..n /\ Factories[n] # None
      BY <1>f
    <2> QED
      BY <1>s, <1>e, <1>f, <2>1, <2>2
  <1>5. ASSUME left # <<>>
        PROVE  /\ TakenNumber < Len(Factories)
               /\ Head(left) = Factories[TakenNumber + 1]
               /\ Tail(left) = SubSeq(Factories, TakenNumber + 2, Len(Factories))
               /\ Head(left) \in DriverSet \ Taken
    <2>1. k < n /\ k \in Nat
      BY <1>1, <1>2, <1>5
    <2>2. left = SubSeq(Factories, k + 1, n)
      BY <1>n, <1>2 DEF Lined
    <2>3. Head(left) = Factories[k + 1] /\ Tail(left) = SubSeq(Factories, k + 2, n)
      BY <1>n, <1>f, <2>1, <2>2, Behind
    <2>4. k + 1 \in 1..n /\ \A i \in 1..k : i \in 1..n /\ i # k + 1
      BY <2>1
    <2>5. Head(left) \in DriverSet /\ Head(left) \notin Taken
      BY <1>s, <1>f, <1>g, <2>3, <2>4
    <2> QED
      BY <1>n, <1>2, <2>1, <2>3, <2>5
  <1>6. entry = None => k = 0
    <2>1. k # 0 => k \in 1..n
      BY <1>2
    <2> QED
      BY <1>e, <1>f, <2>1
  <1>7. k = 0 => Taken = {}
    BY <1>s
  <1>8. k = 0 /\ left # <<>> => Head(left) = DriverDriver
    BY <1>2, <1>5, <1>f
  <1>9. entry # None => entry \in Taken /\ DriverDriver \in Taken
    <2>1. k # 0 => k \in 1..k /\ 1 \in 1..k
      BY <1>2
    <2> QED
      BY <1>s, <1>e, <1>f, <2>1
  <1> QED
    BY <1>n, <1>2, <1>3, <1>4, <1>5, <1>6, <1>7, <1>8, <1>9

\* Taking the next factory keeps them in line.
LEMMA TakesNext ==
    ASSUME DriversTypeOK, Lined, InitNext
    PROVE  Lined' /\ Taken' = Taken \cup {Head(left)} /\ entry' = Head(left)
  <1>n. PICK n \in Nat : n = Len(Factories)
    BY First
  <1>1. PICK k \in Nat : /\ k = TakenNumber /\ k < n
                         /\ Head(left) = Factories[k + 1]
                         /\ Tail(left) = SubSeq(Factories, k + 2, n)
    <2>1. /\ TakenNumber \in 0..n /\ TakenNumber < n
          /\ Head(left) = Factories[TakenNumber + 1]
          /\ Tail(left) = SubSeq(Factories, TakenNumber + 2, n)
      BY <1>n, Lining DEF InitNext
    <2>2. TakenNumber \in Nat
      BY <2>1
    <2> QED
      BY <2>1, <2>2
  <1>2. left \in Seq(DriverSet) /\ left # <<>> /\ left' = Tail(left) /\ entry' = Head(left)
    BY DEF InitNext, DriversTypeOK
  <1>3. PICK l \in Nat : l + 1 = Len(left) /\ l = Len(left')
    BY <1>2
  <1>4. TakenNumber' = k + 1 /\ l + 1 <= n
    <2>1. k = n - (l + 1)
      BY <1>n, <1>1, <1>3 DEF TakenNumber
    <2>2. TakenNumber' = n - l
      BY <1>n, <1>3 DEF TakenNumber
    <2> QED
      BY <2>1, <2>2
  <1>5. Taken' = Taken \cup {Factories[k + 1]}
    <2>1. Taken' = {Factories[i] : i \in 1..k + 1} /\ Taken = {Factories[i] : i \in 1..k}
      BY <1>1, <1>4 DEF Taken
    <2>2. 1..k + 1 = (1..k) \cup {k + 1}
      BY <1>1
    <2> QED
      BY <2>1, <2>2
  <1>6. Lined'
    <2>1. Len(left') <= Len(Factories)
      BY <1>n, <1>3, <1>4
    <2>2. k + 1 + 1 = k + 2 /\ k + 1 # 0
      BY <1>1
    <2> QED
      BY <1>n, <1>1, <1>2, <1>4, <2>1, <2>2 DEF Lined
  <1> QED
    BY <1>1, <1>2, <1>5, <1>6

\* Every other step leaves the factories alone.
LEMMA Stays ==
    ASSUME UNCHANGED <<left, entry>>
    PROVE  Taken' = Taken /\ (Lined => Lined')
  BY DEF Taken, Lined, TakenNumber

LEMMA NextLined == DriversTypeOK /\ Lined /\ [DriversNext]_driversVars => Lined'
  <1> SUFFICES ASSUME DriversTypeOK, Lined, [DriversNext]_driversVars PROVE Lined'
    OBVIOUS
  <1>1. CASE InitNext
    BY <1>1, TakesNext
  <1>2. CASE UNCHANGED <<left, entry>>
    BY <1>2, Stays
  <1>3. [DriversNext]_driversVars => InitNext \/ UNCHANGED <<left, entry>>
    BY DEF DriversNext, DriversTask, InitDone, AddDriver, RunAddDriver, DriverStep, Make, Added,
           RunOnAdded, RunInit, RelayDriver, Listener, Look, TellReady, TellStatus, ListenerWakes,
           RelayTold, StatusTask, Compare, Assign, Match, ActReady, ActPublish, TaskWakes,
           driversVars, boot, watch
  <1> QED
    BY <1>1, <1>2, <1>3

LEMMA InitLined == DriversInit => Lined
  <1>n. PICK n \in Nat : n = Len(Factories) /\ Factories \in Seq(DriverSet)
    BY First
  <1>1. n - n = 0 /\ Factories = SubSeq(Factories, 1, n)
    BY <1>n
  <1> QED
    BY <1>n, <1>1 DEF DriversInit, Lined, TakenNumber

-----------------------------------------------------------------------------
(* The drivers are started one after the other.                            *)

Core ==
    /\ DriversTypeOK /\ Lined /\ Channels
    /\ \A d \in DriverSet : Once(d) /\ Backed(d)
    /\ InTurn /\ Handing

\* The calls can be told apart.
LEMMA CallsApart ==
    /\ \A d : AddCall(d) # InitCall /\ AddCall(d) # OnAdded /\ AddCall(d).op = "AddDriver" /\ AddCall(d).arg = d
    /\ \A d, e : AddCall(d) = AddCall(e) => d = e
    /\ InitCall.op = "Init0" /\ OnAdded.op = "OnAdded"
  BY DEF AddCall, InitCall, OnAdded

\* Short queues.
LEMMA Short ==
    ASSUME NEW x, NEW y
    PROVE  /\ <<x>> # <<>> /\ Head(<<x>>) = x /\ Tail(<<x>>) = <<>> /\ Append(<<>>, x) = <<x>>
           /\ <<x, y>> # <<>> /\ Head(<<x, y>>) = x /\ Tail(<<x, y>>) = <<y>> /\ Append(<<x>>, y) = <<x, y>>
           /\ <<x, y>> # <<x>> /\ <<x, y>> # <<y>> /\ (<<x>> = <<y>> => x = y)
  <1>1. Len(<<x, y>>) = 2 /\ Len(<<x>>) = 1 /\ Len(<<y>>) = 1
    OBVIOUS
  <1>2. <<x>>[1] = x /\ <<y>>[1] = y
    OBVIOUS
  <1>3. <<x>> # <<>> /\ <<x, y>> # <<>>
    OBVIOUS
  <1>6. Head(<<x>>) = x /\ Head(<<x, y>>) = x
    OBVIOUS
  <1>7. Tail(<<x>>) = <<>>
    OBVIOUS
  <1>8. Tail(<<x, y>>) = <<y>>
    OBVIOUS
  <1>9. Append(<<>>, x) = <<x>>
    OBVIOUS
  <1>10. Append(<<x>>, y) = <<x, y>>
    <2> DEFINE a == Append(<<x>>, y)
               b == <<x, y>>
    <2>1. <<x>> \in Seq({x, y}) /\ Len(<<x>>) = 1 /\ <<x>>[1] = x /\ y \in {x, y}
      OBVIOUS
    <2>2. a \in Seq({x, y}) /\ Len(a) = 2 /\ a[2] = y /\ a[1] = x
      <3> HIDE DEF b
      <3> QED
        BY <2>1
    <2>3. b \in Seq({x, y}) /\ Len(b) = 2 /\ b[1] = x /\ b[2] = y
      OBVIOUS
    <2> HIDE DEF a, b
    <2>4. \A i \in 1..Len(a) : i = 1 \/ i = 2
      BY <2>2
    <2>5. \A i \in 1..Len(a) : a[i] = b[i]
      BY <2>2, <2>3, <2>4
    <2>6. a = b
      BY <2>2, <2>3, <2>5, SeqEqual
    <2> QED
      BY <2>6 DEF a, b
  <1>4. <<x, y>> # <<x>> /\ <<x, y>> # <<y>>
    BY <1>1
  <1>5. <<x>> = <<y>> => x = y
    BY <1>2
  <1> QED
    BY <1>3, <1>4, <1>5, <1>6, <1>7, <1>8, <1>9, <1>10

LEMMA Lengths ==
    ASSUME NEW x, NEW y, NEW z
    PROVE  <<x>> # <<y, z>> /\ <<x>> # <<>> /\ <<y, z>> # <<>>
  <1>1. Len(<<x>>) = 1 /\ Len(<<y, z>>) = 2
    OBVIOUS
  <1> QED
    BY <1>1

LEMMA Apart ==
    /\ <<"Init">> # <<"Ready">> /\ <<"Init">> # <<"Fatal">> /\ <<"Ready">> # <<"Fatal">>
    /\ <<"Init", "Ready">> # <<"Init", "Fatal">>
  <1>1. <<"Init">>[1] = "Init" /\ <<"Ready">>[1] = "Ready" /\ <<"Fatal">>[1] = "Fatal"
    OBVIOUS
  <1>2. <<"Init", "Ready">>[2] = "Ready" /\ <<"Init", "Fatal">>[2] = "Fatal"
    OBVIOUS
  <1> QED
    BY <1>1, <1>2

\* A Ready driver has nothing more to do.
LEMMA ReadyIsQuiet ==
    ASSUME Core, NEW d \in DriverSet, driver[d] = "Ready"
    PROVE  /\ runner[d] = "idle" /\ runnerQ[d] # <<OnAdded>> /\ driverQ[d] = <<>>
           /\ maker[d] \in {"add", "done"} /\ ~InChan(d) /\ ~InDriver(d)
           /\ d = DriverDriver => maker[d] = "done"
           /\ d # DriverDriver => d \in known
           /\ d \in registered \/ (d = DriverDriver /\ InFront(d))
  <1>1. Once(d) /\ Backed(d) /\ runner[d] \in {"idle", "init"}
    BY DEF Core, DriversTypeOK
  <1> QED
    BY <1>1 DEF Once, Backed, Waits, Initialises

\* A driver that a step does not concern.
LEMMA Untouched ==
    ASSUME NEW x, Once(x), Backed(x),
           /\ maker'[x] = maker[x] /\ runner'[x] = runner[x] /\ runnerQ'[x] = runnerQ[x]
           /\ driverQ'[x] = driverQ[x] /\ driver'[x] = driver[x],
           InFront(x)' => InFront(x), InChan(x)' => InChan(x), InDriver(x)' => InDriver(x),
           registered \subseteq registered', known \subseteq known',
           x = DriverDriver /\ InFront(x) => InFront(x)' \/ x \in registered'
    PROVE  Once(x)' /\ Backed(x)'
  <1>1. Once(x)'
    BY DEF Once, Waits, Said
  <1>2. Initialises(x)' <=> Initialises(x)
    BY DEF Initialises, Said
  <1>3. Backed(x)'
    BY <1>2 DEF Backed
  <1> QED
    BY <1>1, <1>3

\* A driver that is being started is the one taken last, and Init0 is not under way.
LEMMA OneAtATime ==
    ASSUME Core, NEW d \in DriverSet, driver[d] # "Ready",
           \/ maker[d] # "none" \/ runnerQ[d] # <<>> \/ runner[d] = "init" \/ driverQ[d] # <<>>
    PROVE  /\ d \in Taken /\ entry # None /\ DriverDriver \in Taken
           /\ ~InitIsSent /\ ~listener.final
           /\ d = entry
           /\ d # DriverDriver => driver[DriverDriver] = "Ready"
  <1>1. Once(d) /\ Backed(d) /\ runner[d] \in {"idle", "init"}
    BY DEF Core, DriversTypeOK
  <1>2. d \in Taken
    BY <1>1 DEF Core, InTurn, Once, Waits
  <1>3. d = entry
    BY <1>2 DEF Core, InTurn
  <1>4. entry # None /\ DriverDriver \in Taken
    BY <1>2, Lining DEF Core
  <1> QED
    BY <1>2, <1>3, <1>4 DEF Core, InTurn, Handing

\* When Init0 is taken nothing else is in the channel.
LEMMA InitInFront ==
    ASSUME Channels, callQ # <<>>, Head(callQ) = InitCall
    PROVE  callQ = <<InitCall>>
  <1>1. Head(<<AddCall(entry)>>) # InitCall /\ Head(<<AddCall(DriverDriver), InitCall>>) # InitCall
    BY CallsApart, Short
  <1> QED
    BY <1>1 DEF Channels

LEMMA CoreInitNext == Core /\ InitNext => Core'
  <1> SUFFICES ASSUME Core, InitNext PROVE Core'
    OBVIOUS
  <1>d. PICK d : d = Head(left)
    OBVIOUS
  <1>t. DriversTypeOK /\ Lined /\ (DriversTypeOK /\ Lined /\ InitNext => DriversTypeOK') /\ \A x \in DriverSet : Once(x) /\ Backed(x)
    BY NextDriversType DEF Core, DriversNext, DriversTask
  <1>1. /\ d \in DriverSet \ Taken /\ Taken' = Taken \cup {d} /\ entry' = d /\ Lined'
        /\ d # None /\ entry # d /\ DriverDriver \in DriverSet
        /\ entry = None => Taken = {} /\ d = DriverDriver
        /\ entry # None => entry \in Taken /\ DriverDriver \in Taken
        /\ Taken \subseteq DriverSet
    <2>1. left # <<>>
      BY DEF InitNext
    <2> QED
      BY <1>d, <1>t, <2>1, Lining, TakesNext, First
  <1>2. callQ = <<InitCall>> /\ callQ' = <<>>
    <2>1. callQ # <<>> /\ Head(callQ) = InitCall /\ callQ' = Tail(callQ)
      BY DEF InitNext
    <2> QED
      BY <2>1, InitInFront, Short DEF Core
  <1>3. /\ \A x \in Taken : x # entry => driver[x] = "Ready"
        /\ entry # None => driver[entry] = "Ready"
        /\ maker[d] = "none" /\ runnerQ[d] = <<>> /\ driver[d] = "Pending"
        /\ \A x \in DriverSet \ Taken : maker[x] = "none" /\ runnerQ[x] = <<>> /\ driver[x] = "Pending"
    BY <1>1, <1>2 DEF Core, InTurn, Handing, InitIsSent
  <1>4. /\ \/ maker' = [maker EXCEPT ![d] = "make"] /\ driver' = driver
           \/ d \in FailingDrivers /\ driver' = [driver EXCEPT ![d] = "Fatal"] /\ maker' = maker
        /\ runner' = runner /\ runnerQ' = runnerQ /\ known' = known /\ registered' = registered
        /\ driverQ' = driverQ /\ listener' = Listen(FALSE) /\ left' = Tail(left)
    BY <1>d DEF InitNext, run
  <1>5. /\ maker \in [DriverSet -> {"none", "make", "add", "done"}] /\ driver \in [DriverSet -> Values]
        /\ runnerQ \in [DriverSet -> Seq(Run)]
    BY <1>t, Types DEF BootType, RunType, WatchType
  <1>6. /\ \/ maker'[d] = "make" /\ driver'[d] = "Pending"
           \/ maker'[d] = "none" /\ driver'[d] = "Fatal" /\ d \in FailingDrivers
        /\ \A x \in DriverSet : x # d => maker'[x] = maker[x] /\ driver'[x] = driver[x]
    <2>1. CASE maker' = [maker EXCEPT ![d] = "make"] /\ driver' = driver
      BY <1>1, <1>3, <1>5, <2>1
    <2>2. CASE d \in FailingDrivers /\ driver' = [driver EXCEPT ![d] = "Fatal"] /\ maker' = maker
      BY <1>1, <1>3, <1>5, <2>2
    <2> QED
      BY <1>4, <2>1, <2>2
  <1>7. \A x \in DriverSet : runnerQ[x] = <<>> \/ runnerQ[x] = <<OnAdded>>
    <2>1. ASSUME entry # None PROVE runnerQ[DriverDriver] # <<AddCall(entry)>>
      <3>1. entry \in DriverSet /\ driver[entry] = "Ready"
        BY <1>1, <1>3, <2>1
      <3>2. ~InDriver(entry)
        BY <3>1, ReadyIsQuiet
      <3> QED
        BY <3>2 DEF InDriver
    <2> QED
      BY <2>1 DEF Core, Channels
  <1>8. Channels'
    BY <1>2, <1>4, <1>7 DEF Channels
  <1>9. ASSUME NEW x \in DriverSet PROVE Once(x)' /\ Backed(x)'
    <2>1. Once(x) /\ Backed(x) /\ runner[x] \in {"idle", "init"}
      BY <1>t DEF DriversTypeOK
    <2>2. ~InFront(x)' /\ ~InChan(x)' /\ ~InDriver(x)' /\ ~InDriver(x) /\ ~InFront(x)
      BY <1>1, <1>2, <1>4, <1>7, CallsApart, Short DEF InChan, InDriver, InFront
    <2>3. CASE x = d
      <3>1. runner[d] = "idle" /\ driverQ[d] = <<>>
        BY <1>3, <2>1, <2>3 DEF Once, Waits
      <3>2. Once(d)'
        BY <1>3, <1>4, <1>6, <2>2, <2>3, <3>1, Short DEF Once, Waits, Said, Words
      <3>3. Backed(d)'
        BY <1>3, <1>4, <1>6, <2>2, <2>3, <3>1, Short DEF Backed, Said, Initialises
      <3> QED
        BY <2>3, <3>2, <3>3
    <2>4. CASE x # d
      BY <1>4, <1>6, <2>1, <2>2, <2>4, Untouched
    <2> QED
      BY <2>3, <2>4
  <1>10. InTurn'
    BY <1>1, <1>3, <1>4, <1>6 DEF InTurn
  <1>11. Handing'
    BY <1>1, <1>2, <1>4, Short DEF Handing, Listen, InitIsSent
  <1> QED
    BY <1>t, <1>1, <1>8, <1>9, <1>10, <1>11 DEF Core

LEMMA CoreInitDone == Core /\ InitDone => Core'
  <1> SUFFICES ASSUME Core, InitDone PROVE Core'
    OBVIOUS
  <1>t. DriversTypeOK /\ Lined /\ DriversTypeOK' /\ \A x \in DriverSet : Once(x) /\ Backed(x)
    BY NextDriversType DEF Core, DriversNext, DriversTask
  <1>1. callQ = <<InitCall>> /\ callQ' = <<>>
    <2>1. callQ # <<>> /\ Head(callQ) = InitCall /\ callQ' = Tail(callQ)
      BY DEF InitDone
    <2> QED
      BY <2>1, InitInFront, Short DEF Core
  <1>2. /\ left = <<>> /\ left' = left /\ entry' = entry /\ maker' = maker /\ runner' = runner /\ runnerQ' = runnerQ
        /\ driverQ' = driverQ /\ driver' = driver /\ registered' = registered /\ known' = known
        /\ listener' = Listen(TRUE)
    BY DEF InitDone, run, watch
  <1>3. Lined' /\ Taken' = Taken /\ entry # None
    BY <1>2, <1>t, Stays, Lining
  <1>4. Channels'
    BY <1>1, <1>2 DEF Core, Channels
  <1>5. ASSUME NEW x \in DriverSet PROVE Once(x)' /\ Backed(x)'
    <2>1. ~InFront(x) /\ ~InFront(x)' /\ ~InChan(x)' /\ (InDriver(x)' => InDriver(x))
      BY <1>1, <1>2, CallsApart, Short DEF InFront, InChan, InDriver
    <2> QED
      BY <1>t, <1>2, <2>1, Untouched
  <1>6. InTurn'
    BY <1>2, <1>3 DEF Core, InTurn
  <1>7. Handing'
    BY <1>1, <1>2, <1>3, Short DEF Core, Handing, Listen, InitIsSent
  <1> QED
    BY <1>t, <1>3, <1>4, <1>5, <1>6, <1>7 DEF Core

LEMMA CoreAddDriver == Core /\ AddDriver => Core'
  <1> SUFFICES ASSUME Core, AddDriver PROVE Core'
    OBVIOUS
  <1>d. PICK d : d = Head(callQ).arg
    OBVIOUS
  <1>t. /\ DriversTypeOK /\ Lined /\ DriversTypeOK' /\ \A x \in DriverSet : Once(x) /\ Backed(x)
        /\ runnerQ \in [DriverSet -> Seq(Run)] /\ DriverDriver \in DriverSet
    BY NextDriversType, Types, First DEF Core, DriversNext, DriversTask, RunType
  <1>1. /\ entry \in DriverSet /\ d = entry
        /\ \/ callQ = <<AddCall(d)>> /\ callQ' = <<>>
           \/ d = DriverDriver /\ callQ = <<AddCall(d), InitCall>> /\ callQ' = <<InitCall>>
    <2>1. callQ # <<>> /\ Head(callQ).op = "AddDriver" /\ callQ' = Tail(callQ)
      BY DEF AddDriver
    <2>2. \/ callQ = <<AddCall(entry)>> /\ entry # None
          \/ entry = DriverDriver /\ callQ = <<AddCall(DriverDriver), InitCall>>
      BY <2>1, CallsApart, Short DEF Core, Channels
    <2>3. d = entry
      BY <1>d, <2>2, CallsApart, Short
    <2>4. entry \in DriverSet
      BY <1>t, <2>2 DEF DriversTypeOK
    <2>5. CASE callQ = <<AddCall(entry)>>
      <3>1. callQ' = <<>>
        BY <2>1, <2>5, Short
      <3> QED
        BY <2>3, <2>4, <2>5, <3>1
    <2>6. CASE entry = DriverDriver /\ callQ = <<AddCall(DriverDriver), InitCall>>
      <3>1. callQ' = <<InitCall>>
        BY <2>1, <2>6, Short
      <3> QED
        BY <2>3, <2>4, <2>6, <3>1
    <2> QED
      BY <2>2, <2>5, <2>6
  <1>2. /\ left' = left /\ entry' = entry /\ maker' = maker /\ runner' = runner
        /\ driverQ' = driverQ /\ driver' = driver /\ registered' = registered \cup {d} /\ known' = known
        /\ listener' = listener
        /\ runnerQ' = IF d = DriverDriver THEN runnerQ
                      ELSE [runnerQ EXCEPT ![DriverDriver] = Append(@, AddCall(d))]
    BY <1>d DEF AddDriver, watch, tell
  <1>3. Lined' /\ Taken' = Taken
    BY <1>2, <1>t, Stays
  <1>4. InFront(d) /\ (InitIsSent' => InitIsSent) /\ ~listener.final
    BY <1>1, Short DEF InFront, InitIsSent, Core, Handing
  <1>5. InTurn'
    <2>1. ASSUME NEW x \in DriverSet \ Taken PROVE runnerQ'[x] = runnerQ[x]
      <3>1. DriverDriver \in Taken
        BY <1>t, <1>1, Lining, First
      <3> QED
        BY <1>t, <1>2, <2>1, <3>1
    <2> QED
      BY <1>2, <1>3, <2>1 DEF Core, InTurn
  <1>6. Handing'
    BY <1>1, <1>2, <1>4, Short DEF Core, Handing
  <1>7. CASE d = DriverDriver
    <2>1. runnerQ' = runnerQ
      BY <1>2, <1>7
    <2>2. Channels'
      BY <1>1, <1>2, <1>7, <2>1 DEF Core, Channels
    <2>3. ASSUME NEW x \in DriverSet PROVE Once(x)' /\ Backed(x)'
      <3>1. ~InFront(x)' /\ ~InChan(x)' /\ (InDriver(x)' => InDriver(x))
        BY <1>1, <2>1, CallsApart, Short DEF InFront, InChan, InDriver
      <3>2. x = DriverDriver => x \in registered'
        BY <1>2, <1>7
      <3> QED
        BY <1>t, <1>2, <2>1, <3>1, <3>2, Untouched
    <2> QED
      BY <1>t, <1>3, <1>5, <1>6, <2>2, <2>3 DEF Core
  <1>8. CASE d # DriverDriver
    <2>1. callQ = <<AddCall(d)>> /\ callQ' = <<>> /\ InChan(d)
      BY <1>1, <1>8 DEF InChan
    <2>2. DriverDriver \in Taken /\ driver[DriverDriver] = "Ready"
      BY <1>t, <1>1, <1>8, Lining, First DEF Core, InTurn
    <2>3. runnerQ[DriverDriver] = <<>>
      <3>1. runnerQ[DriverDriver] # <<OnAdded>>
        BY <1>t, <2>2, ReadyIsQuiet
      <3>2. ~InDriver(d)
        BY <1>t, <1>1, <2>1 DEF Backed
      <3> QED
        BY <1>t, <1>1, <3>1, <3>2 DEF Core, Channels, InDriver
    <2>4. runnerQ'[DriverDriver] = <<AddCall(d)>> /\ \A x \in DriverSet : x # DriverDriver => runnerQ'[x] = runnerQ[x]
      BY <1>t, <1>2, <1>8, <2>3, Short
    <2>5. Channels'
      <3>1. \A x \in DriverSet : x # DriverDriver => runnerQ'[x] = <<>> \/ runnerQ'[x] = <<OnAdded>>
        BY <2>4 DEF Core, Channels
      <3>0. entry' = d /\ d \in DriverSet /\ None \notin DriverSet
        BY <1>t, <1>1, <1>2, First
      <3>2. entry' \notin {None, DriverDriver} /\ runnerQ'[DriverDriver] = <<AddCall(entry')>>
        BY <1>8, <2>4, <3>0
      <3> QED
        BY <2>1, <3>1, <3>2 DEF Channels
    <2>6. ASSUME NEW x \in DriverSet PROVE Once(x)' /\ Backed(x)'
      <3>1. Once(x) /\ Backed(x)
        BY <1>t
      <3>2. ~InFront(x)' /\ ~InChan(x)' /\ (InDriver(x)' <=> x = d) /\ (InFront(x) => x = d)
        BY <2>1, <2>4, CallsApart, Short DEF InFront, InChan, InDriver
      <3>3. CASE x = d
        <4>1. runnerQ'[d] = runnerQ[d] /\ d \in registered'
          BY <1>1, <1>2, <1>8, <2>4
        <4>2. maker[d] \in {"add", "done"}
          BY <1>4, <3>1, <3>3 DEF Backed
        <4>3. /\ runner[d] = "idle" /\ runnerQ[d] # <<OnAdded>> /\ driverQ[d] = <<>> /\ driver[d] = "Pending"
          BY <2>1, <3>1, <3>3, <4>2 DEF Once, Waits
        <4>4. Once(d)'
          BY <1>2, <3>1, <3>3, <4>1, <4>3, Short DEF Once, Said
        <4>5. ~Initialises(d)'
          BY <1>2, <4>1, <4>3, Short DEF Initialises, Said
        <4>6. Backed(d)'
          BY <1>2, <1>8, <3>2, <3>3, <4>1, <4>2, <4>5 DEF Backed
        <4> QED
          BY <3>3, <4>4, <4>6
      <3>4. CASE x = DriverDriver
        <4>1. runnerQ[x] # <<OnAdded>> /\ runnerQ'[x] # <<OnAdded>>
          BY <2>3, <2>4, <3>4, CallsApart, Short
        <4>2. Once(x)'
          BY <1>2, <1>8, <3>1, <3>2, <3>4, <4>1 DEF Once, Waits, Said
        <4>3. Initialises(x)' <=> Initialises(x)
          BY <1>2, <4>1 DEF Initialises, Said
        <4>4. Backed(x)'
          BY <1>2, <1>8, <3>1, <3>2, <3>4, <4>3 DEF Backed
        <4> QED
          BY <4>2, <4>4
      <3>5. CASE x # d /\ x # DriverDriver
        BY <1>2, <2>4, <3>1, <3>2, <3>5, Untouched
      <3> QED
        BY <3>3, <3>4, <3>5
    <2> QED
      BY <1>t, <1>3, <1>5, <1>6, <2>5, <2>6 DEF Core
  <1> QED
    BY <1>7, <1>8

LEMMA CoreRunAddDriver == Core /\ RunAddDriver => Core'
  <1> SUFFICES ASSUME Core, RunAddDriver PROVE Core'
    OBVIOUS
  <1>t. /\ DriversTypeOK /\ Lined /\ DriversTypeOK' /\ \A x \in DriverSet : Once(x) /\ Backed(x)
        /\ runnerQ \in [DriverSet -> Seq(Run)] /\ DriverDriver \in DriverSet
    BY NextDriversType, Types, First DEF Core, DriversNext, RunType
  <1>d. PICK d : d = entry
    OBVIOUS
  <1>1. /\ d \in DriverSet /\ d # DriverDriver /\ runnerQ[DriverDriver] = <<AddCall(d)>> /\ InDriver(d)
        /\ runner[DriverDriver] = "idle"
    <2>1. runnerQ[DriverDriver] # <<>> /\ Head(runnerQ[DriverDriver]).op = "AddDriver"
          /\ runner[DriverDriver] = "idle"
      BY DEF RunAddDriver
    <2>2. runnerQ[DriverDriver] # <<OnAdded>>
      BY <2>1, CallsApart, Short
    <2>3. entry \notin {None, DriverDriver} /\ runnerQ[DriverDriver] = <<AddCall(entry)>>
      BY <1>t, <2>1, <2>2 DEF Core, Channels
    <2> QED
      BY <1>t, <1>d, <2>1, <2>3 DEF DriversTypeOK, InDriver
  <1>2. /\ left' = left /\ entry' = entry /\ maker' = maker /\ runner' = runner /\ callQ' = callQ
        /\ driverQ' = driverQ /\ driver' = driver /\ registered' = registered
        /\ listener' = listener
    BY DEF RunAddDriver, boot, watch, tell
  <1>3. Once(d) /\ Backed(d)
    BY <1>t, <1>1
  <1>4. /\ maker[d] \in {"add", "done"} /\ d \in registered /\ ~InChan(d)
        /\ runner[d] = "idle" /\ runnerQ[d] # <<OnAdded>> /\ driverQ[d] = <<>> /\ driver[d] = "Pending"
    BY <1>1, <1>3 DEF Once, Backed, Waits
  <1>5. runnerQ[d] = <<>>
    BY <1>1, <1>4 DEF Core, Channels
  <1>6. /\ runnerQ'[DriverDriver] = <<>> /\ runnerQ'[d] = <<OnAdded>>
        /\ \A x \in DriverSet : x \notin {d, DriverDriver} => runnerQ'[x] = runnerQ[x]
        /\ known' = known \cup {d}
    <2>1. Head(runnerQ[DriverDriver]).arg = d /\ Tail(runnerQ[DriverDriver]) = <<>>
      BY <1>1, CallsApart, Short
    <2>2. Append(runnerQ[d], OnAdded) = <<OnAdded>>
      BY <1>5, Short
    <2>3. /\ runnerQ' = [x \in DriverSet |->
                         CASE x = DriverDriver -> Tail(runnerQ[DriverDriver])
                           [] x = Head(runnerQ[DriverDriver]).arg  -> Append(runnerQ[x], OnAdded)
                           [] OTHER            -> runnerQ[x]]
          /\ known' = known \cup {Head(runnerQ[DriverDriver]).arg}
      BY DEF RunAddDriver
    <2> QED
      BY <1>t, <1>1, <2>1, <2>2, <2>3
  <1>7. Lined' /\ Taken' = Taken
    BY <1>2, <1>t, Stays
  <1>8. Channels'
    BY <1>1, <1>2, <1>6 DEF Core, Channels
  <1>9. d \in Taken /\ DriverDriver \in Taken
    BY <1>t, <1>1, <1>d, Lining, First
  <1>10. InTurn'
    BY <1>2, <1>6, <1>7, <1>9 DEF Core, InTurn
  <1>11. Handing'
    BY <1>2 DEF Core, Handing, InitIsSent
  <1>12. ASSUME NEW x \in DriverSet PROVE Once(x)' /\ Backed(x)'
    <2>1. Once(x) /\ Backed(x)
      BY <1>t
    <2>2. ~InDriver(x)' /\ (InChan(x)' <=> InChan(x)) /\ (InFront(x)' <=> InFront(x))
      BY <1>2, <1>6, Short DEF InDriver, InChan, InFront
    <2>3. CASE x = d
      <3>1. Once(d)'
        BY <1>1, <1>2, <1>3, <1>4, <1>6, <2>2, <2>3, Short DEF Once, Waits, Said
      <3>2. Backed(d)'
        BY <1>1, <1>2, <1>4, <1>6, <2>2, <2>3 DEF Backed
      <3> QED
        BY <2>3, <3>1, <3>2
    <2>4. CASE x = DriverDriver
      <3>1. runnerQ[x] # <<OnAdded>> /\ runnerQ'[x] # <<OnAdded>> /\ known \subseteq known'
        BY <1>1, <1>6, <2>4, CallsApart, Short
      <3>2. Once(x)'
        BY <1>2, <2>1, <2>2, <2>4, <3>1 DEF Once, Waits, Said
      <3>3. Initialises(x)' <=> Initialises(x)
        BY <1>2, <3>1 DEF Initialises, Said
      <3>4. Backed(x)'
        BY <1>2, <2>1, <2>2, <2>4, <3>1, <3>3 DEF Backed
      <3> QED
        BY <3>2, <3>4
    <2>5. CASE x # d /\ x # DriverDriver
      BY <1>2, <1>6, <2>1, <2>2, <2>5, Untouched
    <2> QED
      BY <2>3, <2>4, <2>5
  <1> QED
    BY <1>t, <1>7, <1>8, <1>10, <1>11, <1>12 DEF Core

\* While its driver is made, nothing is in the channel.
LEMMA NoCalls ==
    ASSUME Core, NEW d \in DriverSet, maker[d] = "make"
    PROVE  /\ d = entry /\ d \in Taken /\ entry # None /\ callQ = <<>> /\ ~listener.final
           /\ runner[d] = "idle" /\ runnerQ[d] # <<OnAdded>> /\ driverQ[d] = <<>> /\ driver[d] = "Pending"
           /\ ~InDriver(d)
  <1>1. Once(d) /\ Backed(d)
    BY DEF Core
  <1>2. runner[d] = "idle" /\ runnerQ[d] # <<OnAdded>> /\ driverQ[d] = <<>> /\ driver[d] = "Pending"
    BY <1>1 DEF Once, Waits
  <1>3. d = entry /\ d \in Taken /\ entry # None /\ ~InitIsSent /\ ~listener.final
    BY <1>2, OneAtATime
  <1>4. callQ # <<AddCall(entry)>>
    <2>1. callQ = <<AddCall(entry)>> => InFront(d)
      BY <1>3, Short DEF InFront
    <2> QED
      BY <1>1, <2>1 DEF Backed
  <1>5. callQ = <<>>
    BY <1>3, <1>4 DEF Core, Channels, InitIsSent
  <1> QED
    BY <1>1, <1>2, <1>3, <1>5 DEF Backed

LEMMA CoreMake == ASSUME Core, NEW d \in DriverSet, Make(d) PROVE Core'
  <1>t. /\ DriversTypeOK /\ Lined /\ DriversTypeOK' /\ \A x \in DriverSet : Once(x) /\ Backed(x)
        /\ maker \in [DriverSet -> {"none", "make", "add", "done"}]
        /\ driverQ \in [DriverSet -> Seq(Values)] /\ DriverDriver \in DriverSet
    BY NextDriversType, Types, First DEF Core, DriversNext, DriverStep, BootType, WatchType
  <1>1. /\ d = entry /\ d \in Taken /\ entry # None /\ callQ = <<>> /\ ~listener.final /\ ~InDriver(d)
        /\ runner[d] = "idle" /\ runnerQ[d] # <<OnAdded>> /\ driverQ[d] = <<>> /\ driver[d] = "Pending"
    BY NoCalls DEF Make
  <1>2. /\ left' = left /\ entry' = entry /\ runner' = runner /\ runnerQ' = runnerQ /\ known' = known
        /\ driver' = driver /\ registered' = registered /\ listener' = listener
    BY DEF Make, run, tell
  <1>3. Lined' /\ Taken' = Taken /\ Once(d) /\ Backed(d)
    BY <1>2, <1>t, Stays
  <1>4. \/ maker'[d] = "add" /\ callQ' = <<AddCall(d)>> /\ driverQ' = driverQ
        \/ d \in FailingDrivers /\ maker'[d] = "done" /\ callQ' = <<>> /\ driverQ'[d] = <<"Fatal">>
    <2>1. CASE maker' = [maker EXCEPT ![d] = "add"] /\ callQ' = Append(callQ, AddCall(d)) /\ driverQ' = driverQ
      BY <1>t, <1>1, <2>1, Short
    <2>2. CASE d \in FailingDrivers /\ maker' = [maker EXCEPT ![d] = "done"]
               /\ driverQ' = [driverQ EXCEPT ![d] = Append(@, "Fatal")] /\ callQ' = callQ
      BY <1>t, <1>1, <2>2, Short
    <2> QED
      BY <2>1, <2>2 DEF Make
  <1>5. \A x \in DriverSet : x # d => maker'[x] = maker[x] /\ driverQ'[x] = driverQ[x]
    <2>1. maker' = [maker EXCEPT ![d] = "add"] \/ maker' = [maker EXCEPT ![d] = "done"]
      BY DEF Make
    <2>2. driverQ' = driverQ \/ driverQ' = [driverQ EXCEPT ![d] = Append(@, "Fatal")]
      BY DEF Make
    <2> QED
      BY <1>t, <2>1, <2>2
  <1>6. Channels'
    BY <1>1, <1>2, <1>4 DEF Core, Channels
  <1>7. InTurn'
    BY <1>1, <1>2, <1>3, <1>5 DEF Core, InTurn
  <1>8. Handing'
    <2>1. ~InitIsSent'
      <3>1. /\ <<AddCall(d)>> # <<InitCall>> /\ <<AddCall(d)>> # <<AddCall(DriverDriver), InitCall>>
            /\ <<>> # <<InitCall>> /\ <<>> # <<AddCall(DriverDriver), InitCall>>
        BY CallsApart, Short, Lengths
      <3>2. callQ' = <<>> \/ callQ' = <<AddCall(d)>>
        BY <1>4
      <3> QED
        BY <3>1, <3>2 DEF InitIsSent
    <2> QED
      BY <1>1, <1>2, <2>1 DEF Core, Handing
  <1>9. ASSUME NEW x \in DriverSet, x # d PROVE Once(x)' /\ Backed(x)'
    <2>1. AddCall(d) # AddCall(x) /\ <<AddCall(d)>> # <<AddCall(x)>>
      BY <1>9, CallsApart, Short
    <2>2. callQ' = <<>> \/ (callQ' = <<AddCall(d)>> /\ Head(callQ') = AddCall(d))
      BY <1>4, Short
    <2>3. ~InFront(x) /\ ~InFront(x)' /\ ~InChan(x)' /\ (InDriver(x)' => InDriver(x))
      BY <1>1, <1>2, <2>1, <2>2, Lengths DEF InFront, InChan, InDriver
    <2> QED
      BY <1>t, <1>2, <1>5, <1>9, <2>3, Untouched
  <1>10. Once(d)' /\ Backed(d)'
    <2>1. ~InDriver(d)' /\ driver'[d] = "Pending" /\ runner'[d] = "idle" /\ runnerQ'[d] # <<OnAdded>>
      BY <1>1, <1>2 DEF InDriver
    <2>2. CASE maker'[d] = "add" /\ callQ' = <<AddCall(d)>> /\ driverQ' = driverQ
      <3>1. InFront(d)'
        BY <2>2, Short DEF InFront
      <3>2. Once(d)'
        BY <1>1, <1>3, <2>1, <2>2, Short DEF Once, Waits, Said, Words
      <3>3. ~Initialises(d)'
        BY <1>1, <2>1, <2>2, Lengths DEF Initialises, Said
      <3> QED
        BY <2>1, <2>2, <3>1, <3>2, <3>3 DEF Backed
    <2>3. CASE d \in FailingDrivers /\ maker'[d] = "done" /\ callQ' = <<>> /\ driverQ'[d] = <<"Fatal">>
      <3>1. ~InFront(d)' /\ ~InChan(d)'
        BY <2>3, Short DEF InFront, InChan
      <3>2. Once(d)'
        BY <2>1, <2>3, <3>1, Short DEF Once, Waits, Said, Words
      <3>3. ~Initialises(d)'
        BY <2>1, <2>3, Apart, Lengths DEF Initialises, Said
      <3> QED
        BY <2>1, <2>3, <3>1, <3>2, <3>3 DEF Backed
    <2> QED
      BY <1>4, <2>2, <2>3
  <1> QED
    BY <1>t, <1>3, <1>6, <1>7, <1>8, <1>9, <1>10 DEF Core

LEMMA CoreAdded == ASSUME Core, NEW d \in DriverSet, Added(d) PROVE Core'
  <1>t. /\ DriversTypeOK /\ Lined /\ DriversTypeOK' /\ \A x \in DriverSet : Once(x) /\ Backed(x)
        /\ maker \in [DriverSet -> {"none", "make", "add", "done"}]
        /\ runnerQ \in [DriverSet -> Seq(Run)] /\ DriverDriver \in DriverSet
    BY NextDriversType, Types, First DEF Core, DriversNext, DriverStep, BootType, RunType
  <1>1. maker[d] = "add" /\ d \in Taken /\ Once(d) /\ Backed(d)
    BY <1>t DEF Added, Core, InTurn
  <1>2. /\ left' = left /\ entry' = entry /\ runner' = runner /\ known' = known /\ callQ' = callQ
        /\ driver' = driver /\ driverQ' = driverQ /\ registered' = registered /\ listener' = listener
        /\ maker' = [maker EXCEPT ![d] = "done"]
        /\ runnerQ' = IF d = DriverDriver THEN [runnerQ EXCEPT ![d] = Append(@, OnAdded)] ELSE runnerQ
    BY DEF Added, watch, tell
  <1>3. Lined' /\ Taken' = Taken
    BY <1>2, <1>t, Stays
  <1>4. maker'[d] = "done" /\ \A x \in DriverSet : x # d => maker'[x] = maker[x] /\ runnerQ'[x] = runnerQ[x]
    BY <1>t, <1>2
  <1>5. Handing'
    BY <1>2 DEF Core, Handing, InitIsSent
  <1>6. InTurn'
    BY <1>1, <1>2, <1>3, <1>4 DEF Core, InTurn
  <1>7. CASE d # DriverDriver
    <2>1. runnerQ' = runnerQ
      BY <1>2, <1>7
    <2>2. Channels'
      BY <1>2, <2>1 DEF Core, Channels
    <2>3. ASSUME NEW x \in DriverSet PROVE Once(x)' /\ Backed(x)'
      <3>1. (InFront(x)' <=> InFront(x)) /\ (InChan(x)' <=> InChan(x)) /\ (InDriver(x)' <=> InDriver(x))
        BY <1>2, <2>1 DEF InFront, InChan, InDriver
      <3>2. CASE x = d
        <4>1. Once(d)'
          BY <1>1, <1>2, <1>4, <1>7, <2>1, <3>1, <3>2 DEF Once, Waits, Said
        <4>2. Initialises(d)' <=> Initialises(d)
          BY <1>2, <2>1 DEF Initialises, Said
        <4>3. Backed(d)'
          BY <1>1, <1>2, <1>4, <1>7, <3>1, <3>2, <4>2 DEF Backed
        <4> QED
          BY <3>2, <4>1, <4>3
      <3>3. CASE x # d
        BY <1>t, <1>2, <1>4, <3>1, <3>3, Untouched
      <3> QED
        BY <3>2, <3>3
    <2> QED
      BY <1>t, <1>3, <1>5, <1>6, <2>2, <2>3 DEF Core
  <1>8. CASE d = DriverDriver
    <2>1. /\ runner[d] = "idle" /\ runnerQ[d] # <<OnAdded>> /\ driverQ[d] = <<>> /\ driver[d] = "Pending"
      BY <1>1, <1>8 DEF Once, Waits
    <2>2. d = entry
      BY <1>1, <2>1, OneAtATime
    <2>3. runnerQ[d] = <<>>
      BY <1>8, <2>1, <2>2 DEF Core, Channels
    <2>4. runnerQ'[d] = <<OnAdded>>
      BY <1>t, <1>2, <1>8, <2>3, Short
    <2>5. Channels'
      BY <1>2, <1>4, <1>8, <2>4 DEF Core, Channels
    <2>6. ASSUME NEW x \in DriverSet PROVE Once(x)' /\ Backed(x)'
      <3>1. (InFront(x)' <=> InFront(x)) /\ (InChan(x)' <=> InChan(x)) /\ ~InDriver(x)'
        BY <1>2, <1>8, <2>4, CallsApart, Short DEF InFront, InChan, InDriver
      <3>2. CASE x = d
        <4>1. Once(d)'
          BY <1>1, <1>2, <1>4, <1>8, <2>1, <2>4, <3>1, <3>2, Short DEF Once, Waits, Said, InChan
        <4>2. Backed(d)'
          BY <1>1, <1>2, <1>4, <1>8, <3>1, <3>2 DEF Backed
        <4> QED
          BY <3>2, <4>1, <4>2
      <3>3. CASE x # d
        BY <1>t, <1>2, <1>4, <1>8, <3>1, <3>3, Untouched
      <3> QED
        BY <3>2, <3>3
    <2> QED
      BY <1>t, <1>3, <1>5, <1>6, <2>5, <2>6 DEF Core
  <1> QED
    BY <1>7, <1>8

LEMMA CoreRunOnAdded == ASSUME Core, NEW d \in DriverSet, RunOnAdded(d) PROVE Core'
  <1>t. /\ DriversTypeOK /\ Lined /\ DriversTypeOK' /\ \A x \in DriverSet : Once(x) /\ Backed(x)
        /\ runner \in [DriverSet -> {"idle", "init"}] /\ driverQ \in [DriverSet -> Seq(Values)]
        /\ runnerQ \in [DriverSet -> Seq(Run)] /\ DriverDriver \in DriverSet
    BY NextDriversType, Types, First DEF Core, DriversNext, DriverStep, WatchType, RunType
  <1>1. runnerQ[d] = <<OnAdded>> /\ Tail(runnerQ[d]) = <<>>
    <2>1. runnerQ[d] # <<>> /\ Head(runnerQ[d]) = OnAdded
      BY DEF RunOnAdded
    <2>2. runnerQ[d] = <<OnAdded>>
      BY <2>1, CallsApart, Short DEF Core, Channels
    <2> QED
      BY <2>2, Short
  <1>2. /\ left' = left /\ entry' = entry /\ maker' = maker /\ known' = known /\ callQ' = callQ
        /\ driver' = driver /\ registered' = registered /\ listener' = listener
        /\ runner' = [runner EXCEPT ![d] = "init"]
        /\ runnerQ' = [runnerQ EXCEPT ![d] = Tail(@)]
    BY DEF RunOnAdded, boot, tell
  <1>3. Once(d) /\ Backed(d) /\ runner[d] = "idle" /\ driverQ[d] = <<>> /\ driver[d] = "Pending"
    BY <1>t, <1>1 DEF Once
  <1>4. d = entry /\ d \in Taken /\ ~listener.final
    BY <1>1, <1>3, Short, OneAtATime
  <1>5. /\ driverQ'[d] \in {<<>>, <<"Init">>}
        /\ \A x \in DriverSet : x # d => driverQ'[x] = driverQ[x]
    <2>1. PICK said \in {<<>>, <<"Init">>} : driverQ' = [driverQ EXCEPT ![d] = @ \o said]
      BY DEF RunOnAdded
    <2>2. driverQ'[d] = <<>> \o said /\ <<>> \o said = said
      BY <1>t, <1>3, <2>1
    <2> QED
      BY <1>t, <2>1, <2>2
  <1>6. /\ runner'[d] = "init" /\ runnerQ'[d] = <<>>
        /\ \A x \in DriverSet : x # d => runner'[x] = runner[x] /\ runnerQ'[x] = runnerQ[x]
    BY <1>t, <1>1, <1>2
  <1>7. Lined' /\ Taken' = Taken
    BY <1>2, <1>t, Stays
  <1>8. Channels'
    BY <1>2, <1>6 DEF Core, Channels
  <1>9. InTurn'
    BY <1>2, <1>4, <1>6, <1>7 DEF Core, InTurn
  <1>10. Handing'
    BY <1>2 DEF Core, Handing, InitIsSent
  <1>11. ASSUME NEW x \in DriverSet PROVE Once(x)' /\ Backed(x)'
    <2>1. (InFront(x)' <=> InFront(x)) /\ (InChan(x)' <=> InChan(x)) /\ (InDriver(x)' => InDriver(x))
      BY <1>t, <1>2, <1>6, Short DEF InFront, InChan, InDriver
    <2>2. CASE x = d
      <3>1. ~Waits(d)
        BY <1>1, <1>3 DEF Once
      <3>2. ~Waits(d)'
        BY <1>2, <2>1, <2>2, <3>1 DEF Waits
      <3>6. ~Said(d, "Ready")' /\ ~Said(d, "Fatal")'
        <4>1. CASE driverQ'[d] = <<>>
          BY <4>1, Lengths DEF Said
        <4>2. CASE driverQ'[d] = <<"Init">>
          BY <4>2, Lengths, Apart DEF Said
        <4> QED
          BY <1>5, <4>1, <4>2
      <3>7. driverQ'[d] \in Words /\ runnerQ'[d] # <<OnAdded>>
        BY <1>5, <1>6, Lengths DEF Words
      <3>3. Once(d)'
        BY <1>2, <1>3, <1>5, <1>6, <3>2, <3>6, <3>7 DEF Once
      <3>4. Initialises(d)
        BY <1>1 DEF Initialises
      <3>5. Backed(d)'
        BY <1>2, <1>3, <2>1, <2>2, <3>4 DEF Backed
      <3> QED
        BY <2>2, <3>3, <3>5
    <2>3. CASE x # d
      BY <1>t, <1>2, <1>5, <1>6, <2>1, <2>3, Untouched
    <2> QED
      BY <2>2, <2>3
  <1> QED
    BY <1>t, <1>7, <1>8, <1>9, <1>10, <1>11 DEF Core

\* The driver that runs or has something to say is the one taken last.
LEMMA CoreRunInit == ASSUME Core, NEW d \in DriverSet, RunInit(d) PROVE Core'
  <1>t. /\ DriversTypeOK /\ Lined /\ DriversTypeOK' /\ \A x \in DriverSet : Once(x) /\ Backed(x)
        /\ runner \in [DriverSet -> {"idle", "init"}] /\ driverQ \in [DriverSet -> Seq(Values)]
    BY NextDriversType, Types DEF Core, DriversNext, DriverStep, WatchType, RunType
  <1>1. /\ left' = left /\ entry' = entry /\ maker' = maker /\ known' = known /\ callQ' = callQ
        /\ driver' = driver /\ registered' = registered /\ listener' = listener /\ runnerQ' = runnerQ
        /\ runner' = [runner EXCEPT ![d] = "idle"]
    BY DEF RunInit, boot, tell
  <1>2. /\ runner[d] = "init" /\ runnerQ[d] # <<OnAdded>> /\ ~Waits(d) /\ Once(d) /\ Backed(d)
        /\ driverQ[d] \in {<<>>, <<"Init">>} /\ driver[d] \in {"Pending", "Init"}
    BY <1>t DEF Once, RunInit
  <1>3. PICK v \in {"Ready", "Fatal"} : /\ driverQ' = [driverQ EXCEPT ![d] = Append(@, v)]
                                        /\ v = "Fatal" => d \in FailingDrivers
    BY DEF RunInit
  <1>4. d = entry /\ d \in Taken /\ ~listener.final
    BY <1>2, OneAtATime
  <1>5. /\ runner'[d] = "idle" /\ driverQ'[d] \in {<<v>>, <<"Init", v>>}
        /\ \A x \in DriverSet : x # d => runner'[x] = runner[x] /\ driverQ'[x] = driverQ[x]
    <2>1. /\ runner'[d] = "idle" /\ driverQ'[d] = Append(driverQ[d], v)
          /\ \A x \in DriverSet : x # d => runner'[x] = runner[x] /\ driverQ'[x] = driverQ[x]
      BY <1>t, <1>1, <1>3
    <2>2. Append(<<>>, v) = <<v>> /\ Append(<<"Init">>, v) = <<"Init", v>>
      BY Short
    <2>3. Append(driverQ[d], v) \in {<<v>>, <<"Init", v>>}
      BY <1>2, <2>2
    <2> QED
      BY <2>1, <2>3
  <1>6. Lined' /\ Taken' = Taken
    BY <1>1, <1>t, Stays
  <1>7. Channels'
    BY <1>1 DEF Core, Channels
  <1>8. InTurn'
    BY <1>1, <1>6 DEF Core, InTurn
  <1>9. Handing'
    BY <1>1 DEF Core, Handing, InitIsSent
  <1>10. ASSUME NEW x \in DriverSet PROVE Once(x)' /\ Backed(x)'
    <2>1. (InFront(x)' <=> InFront(x)) /\ (InChan(x)' <=> InChan(x)) /\ (InDriver(x)' <=> InDriver(x))
      BY <1>1 DEF InFront, InChan, InDriver
    <2>2. CASE x = d
      <3>1. ~Waits(d)'
        BY <1>1, <1>2, <2>1, <2>2 DEF Waits
      <3>2. driverQ'[d] \in Words /\ (Said(d, "Fatal")' => v = "Fatal")
        <4>1. CASE v = "Ready"
          BY <1>5, <4>1, Apart, Lengths DEF Words, Said
        <4>2. CASE v = "Fatal"
          BY <1>5, <4>2 DEF Words, Said
        <4> QED
          BY <4>1, <4>2
      <3>3. Once(d)'
        BY <1>1, <1>2, <1>3, <1>5, <3>1, <3>2 DEF Once
      <3>4. Initialises(d)
        BY <1>2 DEF Initialises
      <3>5. Backed(d)'
        BY <1>1, <1>2, <2>1, <2>2, <3>4 DEF Backed
      <3> QED
        BY <2>2, <3>3, <3>5
    <2>3. CASE x # d
      BY <1>t, <1>1, <1>5, <2>1, <2>3, Untouched
    <2> QED
      BY <2>2, <2>3
  <1> QED
    BY <1>t, <1>6, <1>7, <1>8, <1>9, <1>10 DEF Core

LEMMA CoreRelayDriver == ASSUME Core, NEW d \in DriverSet, RelayDriver(d) PROVE Core'
  <1>t. /\ DriversTypeOK /\ Lined /\ DriversTypeOK' /\ \A x \in DriverSet : Once(x) /\ Backed(x)
        /\ driver \in [DriverSet -> Values] /\ driverQ \in [DriverSet -> Seq(Values)]
    BY NextDriversType, Types DEF Core, DriversNext, DriverStep, WatchType
  <1>1. /\ left' = left /\ entry' = entry /\ maker' = maker /\ known' = known /\ callQ' = callQ
        /\ registered' = registered /\ listener' = listener /\ runnerQ' = runnerQ /\ runner' = runner
        /\ driver' = [driver EXCEPT ![d] = Head(driverQ[d])]
        /\ driverQ' = [driverQ EXCEPT ![d] = Tail(@)]
    BY DEF RelayDriver, boot, run, tell
  <1>2. /\ driverQ[d] # <<>> /\ ~Waits(d) /\ runnerQ[d] # <<OnAdded>> /\ driver[d] \notin {"Ready", "Fatal"}
        /\ Once(d) /\ Backed(d) /\ driverQ[d] \in Words
    BY <1>t DEF Once, RelayDriver
  <1>3. d = entry /\ d \in Taken /\ ~listener.final /\ ~InitIsSent
    BY <1>2, OneAtATime
  <1>4. /\ driver'[d] = Head(driverQ[d]) /\ driverQ'[d] = Tail(driverQ[d])
        /\ \A x \in DriverSet : x # d => driver'[x] = driver[x] /\ driverQ'[x] = driverQ[x]
    BY <1>t, <1>1
  <1>5. \/ driverQ[d] = <<"Init">> /\ driver'[d] = "Init" /\ driverQ'[d] = <<>>
        \/ \E v \in {"Ready", "Fatal"} :
              /\ Said(d, v)
              /\ \/ driver'[d] = v /\ driverQ'[d] = <<>>
                 \/ driver'[d] = "Init" /\ driverQ'[d] = <<v>>
    <2>1. CASE driverQ[d] = <<"Init">>
      BY <1>4, <2>1, Short
    <2>2. ASSUME NEW v \in {"Ready", "Fatal"}, driverQ[d] = <<v>>
          PROVE  Said(d, v) /\ driver'[d] = v /\ driverQ'[d] = <<>>
      BY <1>4, <2>2, Short DEF Said
    <2>3. ASSUME NEW v \in {"Ready", "Fatal"}, driverQ[d] = <<"Init", v>>
          PROVE  Said(d, v) /\ driver'[d] = "Init" /\ driverQ'[d] = <<v>>
      BY <1>4, <2>3, Short DEF Said
    <2> QED
      BY <1>2, <2>1, <2>2, <2>3 DEF Words
  <1>6. Lined' /\ Taken' = Taken
    BY <1>1, <1>t, Stays
  <1>7. Channels'
    BY <1>1 DEF Core, Channels
  <1>8. InTurn'
    BY <1>1, <1>3, <1>4, <1>6 DEF Core, InTurn
  <1>9. Handing'
    <2>1. InitIsSent' <=> InitIsSent
      BY <1>1 DEF InitIsSent
    <2>2. listener.at = "tell" => listener.read \notin {"Ready", "Fatal"}
      BY <1>2, <1>3 DEF Core, Handing
    <2> QED
      BY <1>1, <1>3, <2>1, <2>2 DEF Core, Handing
  <1>10. ASSUME NEW x \in DriverSet PROVE Once(x)' /\ Backed(x)'
    <2>1. (InFront(x)' <=> InFront(x)) /\ (InChan(x)' <=> InChan(x)) /\ (InDriver(x)' <=> InDriver(x))
      BY <1>1 DEF InFront, InChan, InDriver
    <2>2. CASE x = d
      <3>1. ~Waits(d)'
        BY <1>1, <1>2, <2>1, <2>2 DEF Waits
      <3>2. CASE driverQ[d] = <<"Init">> /\ driver'[d] = "Init" /\ driverQ'[d] = <<>>
        <4>1. ~Said(d, "Ready")' /\ ~Said(d, "Fatal")' /\ ~Said(d, "Ready")
          BY <3>2, Lengths, Apart DEF Said
        <4>2. Once(d)'
          BY <1>1, <1>2, <3>1, <3>2, <4>1 DEF Once, Words
        <4>3. Initialises(d)' => Initialises(d)
          BY <1>1, <3>2, <4>1 DEF Initialises
        <4>4. Backed(d)'
          BY <1>1, <1>2, <2>1, <2>2, <4>3 DEF Backed
        <4> QED
          BY <2>2, <4>2, <4>4
      <3>3. ASSUME NEW v \in {"Ready", "Fatal"}, Said(d, v),
                   \/ driver'[d] = v /\ driverQ'[d] = <<>>
                   \/ driver'[d] = "Init" /\ driverQ'[d] = <<v>>
            PROVE  Once(d)' /\ Backed(d)'
        <4>0. v = "Fatal" => d \in FailingDrivers
          BY <1>2, <3>3 DEF Once
        <4>1. runner'[d] = "idle"
          <5>1. driverQ[d] \notin {<<>>, <<"Init">>}
            BY <3>3, Lengths, Apart DEF Said
          <5> QED
            BY <1>t, <1>1, <1>2, <5>1 DEF Once, DriversTypeOK
        <4>2. \A w \in {"Ready", "Fatal"} : Said(d, w)' => w = v /\ driver'[d] = "Init"
          <5>1. CASE driver'[d] = v /\ driverQ'[d] = <<>>
            BY <5>1, Lengths DEF Said
          <5>2. CASE driver'[d] = "Init" /\ driverQ'[d] = <<v>>
            BY <5>2, Lengths, Apart DEF Said
          <5> QED
            BY <3>3, <5>1, <5>2
        <4>3. driverQ'[d] \in Words
          BY <3>3 DEF Words
        <4>4. driver'[d] \in {"Ready", "Fatal"} => driver'[d] = v /\ driverQ'[d] = <<>>
          BY <3>3
        <4>5. driver'[d] # "Unknown"
          BY <3>3
        <4>6. Once(d)'
          BY <1>1, <1>2, <3>1, <4>0, <4>1, <4>2, <4>3, <4>4, <4>5 DEF Once
        <4>7. Initialises(d)' => Initialises(d)
          <5>1. Initialises(d)' => v = "Ready"
            BY <1>1, <1>2, <4>1, <4>2, <4>4 DEF Initialises
          <5> QED
            BY <3>3, <5>1 DEF Initialises
        <4>8. Backed(d)'
          BY <1>1, <1>2, <2>1, <2>2, <4>7 DEF Backed
        <4> QED
          BY <4>6, <4>8
      <3> QED
        BY <1>5, <2>2, <3>2, <3>3
    <2>3. CASE x # d
      BY <1>t, <1>1, <1>4, <2>1, <2>3, Untouched
    <2> QED
      BY <2>2, <2>3
  <1> QED
    BY <1>t, <1>6, <1>7, <1>8, <1>9, <1>10 DEF Core

LEMMA CoreTellReady == Core /\ TellReady => Core'
  <1> SUFFICES ASSUME Core, TellReady PROVE Core'
    OBVIOUS
  <1>t. DriversTypeOK /\ Lined /\ DriversTypeOK' /\ \A x \in DriverSet : Once(x) /\ Backed(x)
    BY NextDriversType DEF Core, DriversNext, Listener
  <1>1. /\ left' = left /\ entry' = entry /\ maker' = maker /\ runner' = runner /\ runnerQ' = runnerQ
        /\ driverQ' = driverQ /\ driver' = driver /\ registered' = registered /\ known' = known
        /\ listener' = [listener EXCEPT !.at = "none"] /\ callQ' = Append(callQ, InitCall)
    BY DEF TellReady, run, watch
  <1>2. listener'.at = "none" /\ listener'.final = listener.final /\ ~listener.final
    BY <1>t, <1>1 DEF TellReady, DriversTypeOK
  <1>3. entry \in DriverSet /\ driver[entry] = "Ready" /\ ~InitIsSent
    BY <1>t DEF TellReady, Core, Handing, DriversTypeOK
  <1>4. \/ callQ = <<>> /\ callQ' = <<InitCall>>
        \/ entry = DriverDriver /\ callQ = <<AddCall(DriverDriver)>> /\ callQ' = <<AddCall(DriverDriver), InitCall>>
    <2>1. callQ = <<AddCall(entry)>> => entry = DriverDriver
      BY <1>3, ReadyIsQuiet DEF InChan
    <2>2. callQ = <<>> \/ (entry = DriverDriver /\ callQ = <<AddCall(DriverDriver)>>)
      BY <1>3, <2>1 DEF Core, Channels, InitIsSent
    <2>3. callQ = <<>> => callQ' = <<InitCall>>
      BY <1>1, Short
    <2>4. callQ = <<AddCall(DriverDriver)>> => callQ' = <<AddCall(DriverDriver), InitCall>>
      BY <1>1, Short
    <2> QED
      BY <2>2, <2>3, <2>4
  <1>5. Lined' /\ Taken' = Taken
    BY <1>1, <1>t, Stays
  <1>6. Channels'
    BY <1>1, <1>4 DEF Core, Channels
  <1>7. InTurn'
    BY <1>1, <1>5 DEF Core, InTurn
  <1>8. Handing'
    BY <1>1, <1>2, <1>3 DEF Handing
  <1>9. ASSUME NEW x \in DriverSet PROVE Once(x)' /\ Backed(x)'
    <2>1. (InFront(x)' <=> InFront(x)) /\ ~InChan(x)' /\ (InDriver(x)' <=> InDriver(x))
      <3>1. CASE callQ = <<>> /\ callQ' = <<InitCall>>
        BY <1>1, <3>1, CallsApart, Short DEF InFront, InChan, InDriver
      <3>2. CASE callQ = <<AddCall(DriverDriver)>> /\ callQ' = <<AddCall(DriverDriver), InitCall>>
        <4>1. /\ Head(callQ) = AddCall(DriverDriver) /\ Head(callQ') = AddCall(DriverDriver)
              /\ callQ # <<>> /\ callQ' # <<>>
          BY <3>2, Short, Lengths
        <4>2. callQ' # <<AddCall(x)>>
          BY <3>2, Lengths
        <4> QED
          BY <1>1, <4>1, <4>2 DEF InFront, InChan, InDriver
      <3> QED
        BY <1>4, <3>1, <3>2
    <2> QED
      BY <1>t, <1>1, <2>1, Untouched
  <1> QED
    BY <1>t, <1>5, <1>6, <1>7, <1>8, <1>9 DEF Core

\* What the listener and the star do otherwise does not concern the drivers.
LEMMA CoreOthers ==
    ASSUME Core, Look \/ TellStatus \/ ListenerWakes \/ RelayTold \/ StatusTask \/ UNCHANGED driversVars
    PROVE  Core'
  <1>t. DriversTypeOK /\ Lined /\ DriversTypeOK' /\ \A x \in DriverSet : Once(x) /\ Backed(x)
    BY NextDriversType DEF Core, DriversNext, Listener
  <1>1. /\ left' = left /\ entry' = entry /\ maker' = maker /\ runner' = runner /\ runnerQ' = runnerQ
        /\ driverQ' = driverQ /\ driver' = driver /\ registered' = registered /\ known' = known
        /\ callQ' = callQ
    BY DEF Look, TellStatus, ListenerWakes, RelayTold, StatusTask, Compare, Assign, Match, ActReady,
           ActPublish, TaskWakes, driversVars, boot, run, watch
  <1>2. Lined' /\ Taken' = Taken
    BY <1>1, <1>t, Stays
  <1>3. Channels'
    BY <1>1 DEF Core, Channels
  <1>4. InTurn'
    BY <1>1, <1>2 DEF Core, InTurn
  <1>5. Handing'
    <2>1. InitIsSent' <=> InitIsSent
      BY <1>1 DEF InitIsSent
    <2>2. CASE Look
      <3>1. /\ listener.at = "look" /\ listener'.at = "tell" /\ listener'.final = listener.final
            /\ listener'.read = driver[entry]
        BY <1>t, <2>2 DEF Look, DriversTypeOK
      <3> QED
        BY <1>1, <2>1, <3>1 DEF Core, Handing
    <2>3. CASE TellStatus \/ ListenerWakes
      <3>1. listener'.at \in {"none", "look", "wait"} /\ listener'.final = listener.final /\ listener.at # "none"
        BY <1>t, <2>3 DEF TellStatus, ListenerWakes, DriversTypeOK
      <3> QED
        BY <1>1, <2>1, <3>1 DEF Core, Handing
    <2>4. CASE RelayTold \/ StatusTask \/ UNCHANGED driversVars
      <3>1. listener' = listener
        BY <2>4 DEF RelayTold, StatusTask, Compare, Assign, Match, ActReady, ActPublish, TaskWakes,
                    driversVars, tell
      <3> QED
        BY <1>1, <2>1, <3>1 DEF Core, Handing
    <2> QED
      BY <2>2, <2>3, <2>4
  <1>6. ASSUME NEW x \in DriverSet PROVE Once(x)' /\ Backed(x)'
    <2>1. (InFront(x)' <=> InFront(x)) /\ (InChan(x)' <=> InChan(x)) /\ (InDriver(x)' <=> InDriver(x))
      BY <1>1 DEF InFront, InChan, InDriver
    <2> QED
      BY <1>t, <1>1, <2>1, Untouched
  <1> QED
    BY <1>t, <1>2, <1>3, <1>4, <1>5, <1>6 DEF Core

LEMMA NextCore == Core /\ [DriversNext]_driversVars => Core'
  BY CoreInitNext, CoreInitDone, CoreAddDriver, CoreRunAddDriver, CoreMake, CoreAdded, CoreRunOnAdded,
     CoreRunInit, CoreRelayDriver, CoreTellReady, CoreOthers
  DEF DriversNext, DriversTask, DriverStep, Listener

LEMMA InitCore == DriversInit => Core
  <1> SUFFICES ASSUME DriversInit PROVE Core
    OBVIOUS
  <1>1. DriversTypeOK /\ Lined
    BY InitDriversType, InitLined
  <1>2. /\ callQ = <<InitCall>> /\ entry = None /\ left = Factories /\ listener.at = "none" /\ ~listener.final
        /\ \A d \in DriverSet : /\ maker[d] = "none" /\ runner[d] = "idle" /\ runnerQ[d] = <<>>
                                /\ driverQ[d] = <<>> /\ driver[d] = "Pending"
    BY DEF DriversInit
  <1>3. Taken = {} /\ DriverDriver \in DriverSet
    BY <1>1, <1>2, Lining, First
  <1>4. Channels
    BY <1>2 DEF Channels
  <1>5. ASSUME NEW d \in DriverSet PROVE Once(d) /\ Backed(d)
    <2>1. ~InFront(d) /\ ~InChan(d) /\ ~InDriver(d) /\ ~Said(d, "Ready") /\ ~Said(d, "Fatal")
      BY <1>2, <1>3, CallsApart, Short, Lengths DEF InFront, InChan, InDriver, Said
    <2> QED
      BY <1>2, <2>1, Short DEF Once, Backed, Waits, Words, Initialises
  <1>6. InTurn
    BY <1>2, <1>3 DEF InTurn
  <1>7. Handing
    BY <1>2 DEF Handing
  <1> QED
    BY <1>1, <1>4, <1>5, <1>6, <1>7 DEF Core

-----------------------------------------------------------------------------
(* What the star is told, and what it publishes.                           *)

Told == ReadyTold /\ FatalTold /\ Last /\ Published

\* The final listener's flag stays, and when it is there nothing can fail any more.
LEMMA FinalStays ==
    ASSUME Core, [DriversNext]_driversVars
    PROVE  /\ listener.final => listener'.final
           /\ listener.at = "none" /\ ~InitIsSent /\ ~listener.final
                => listener'.at = "none" /\ ~InitIsSent' /\ ~listener'.final
  <1>t. DriversTypeOK /\ Channels /\ DriversTypeOK'
    BY NextDriversType DEF Core
  <1>1. CASE InitNext \/ InitDone
    <2>1. callQ # <<>> /\ Head(callQ) = InitCall
      BY <1>1 DEF InitNext, InitDone
    <2>2. callQ = <<InitCall>>
      BY <1>t, <2>1, InitInFront
    <2>3. InitIsSent /\ ~listener.final
      BY <2>2, <2>1 DEF InitIsSent, Core, Handing
    <2> QED
      BY <2>3
  <1>2. CASE AddDriver
    <2>1. callQ' = Tail(callQ) /\ listener' = listener /\ callQ # <<>> /\ Head(callQ).op = "AddDriver"
      BY <1>2 DEF AddDriver, tell
    <2>2. InitIsSent' => InitIsSent
      <3>1. callQ = <<AddCall(entry)>> \/ InitIsSent
        BY <1>t, <2>1, CallsApart, Short DEF Channels, InitIsSent
      <3>2. callQ = <<AddCall(entry)>> => callQ' = <<>>
        BY <2>1, Short
      <3> QED
        BY <3>1, <3>2, Lengths DEF InitIsSent
    <2> QED
      BY <2>1, <2>2
  <1>3. CASE RunAddDriver \/ RelayTold \/ StatusTask \/ UNCHANGED driversVars
    BY <1>3 DEF RunAddDriver, RelayTold, StatusTask, Compare, Assign, Match, ActReady, ActPublish, TaskWakes,
                driversVars, boot, tell, InitIsSent
  <1>4. ASSUME NEW d \in DriverSet, Added(d) \/ RunOnAdded(d) \/ RunInit(d) \/ RelayDriver(d)
        PROVE  callQ' = callQ /\ listener' = listener
    BY <1>4 DEF Added, RunOnAdded, RunInit, RelayDriver, boot, tell
  <1>5. ASSUME NEW d \in DriverSet, Make(d) PROVE listener' = listener /\ ~InitIsSent'
    <2>1. callQ = <<>>
      BY <1>5, NoCalls DEF Make
    <2>2. callQ' = <<>> \/ callQ' = <<AddCall(d)>>
      BY <1>5, <2>1, Short DEF Make
    <2>3. <<AddCall(d)>> # <<InitCall>> /\ <<AddCall(d)>> # <<AddCall(DriverDriver), InitCall>>
      BY CallsApart, Short, Lengths
    <2> QED
      BY <1>5, <2>2, <2>3, Lengths DEF Make, tell, InitIsSent
  <1>6. CASE Listener
    <2>1. listener'.final = listener.final /\ listener.at # "none"
      BY <1>t, <1>6 DEF Listener, Look, TellReady, TellStatus, ListenerWakes, DriversTypeOK
    <2> QED
      BY <2>1
  <1>7. \/ InitNext \/ InitDone \/ AddDriver \/ RunAddDriver \/ RelayTold \/ StatusTask \/ UNCHANGED driversVars
        \/ Listener \/ \E d \in DriverSet : DriverStep(d)
    BY DEF DriversNext, DriversTask
  <1>8. ASSUME NEW d \in DriverSet, DriverStep(d) PROVE listener' = listener /\ (InitIsSent' => InitIsSent)
    BY <1>4, <1>5, <1>8 DEF DriverStep, InitIsSent
  <1> QED
    BY <1>1, <1>2, <1>3, <1>6, <1>7, <1>8

Over == listener.at = "none" /\ ~InitIsSent /\ ~listener.final

\* A step that tells the star nothing new.
LEMMA NothingNew ==
    ASSUME Core, Told, [DriversNext]_driversVars, UNCHANGED <<toldQ, top>>
    PROVE  Told'
  <1>1. UNCHANGED <<told, toldQ, task, starStatus, wrangles>>
    BY DEF top
  <1>2. (listener.final => listener'.final) /\ (Over => Over')
    BY FinalStays DEF Over
  <1>3. ReadyTold'
    BY <1>1, <1>2 DEF Told, ReadyTold
  <1>4. FatalTold'
    BY <1>1, <1>2 DEF Told, FatalTold, Over
  <1>5. Last' /\ Published'
    BY <1>1 DEF Told, Last, Published
  <1> QED
    BY <1>3, <1>4, <1>5 DEF Told

LEMMA ToldTellStatus == Core /\ Told /\ TellStatus => Told'
  <1> SUFFICES ASSUME Core, Told, TellStatus PROVE Told'
    OBVIOUS
  <1>t. DriversTypeOK /\ DriversTypeOK'
    BY NextDriversType DEF Core, DriversNext, Listener
  <1>w. PICK w : w = Summary(listener.read)
    OBVIOUS
  <1>n. PICK n \in Nat : n = Len(toldQ)
    BY <1>t DEF DriversTypeOK
  <1>1. /\ toldQ' = Append(toldQ, w) /\ UNCHANGED <<told, task, starStatus, wrangles>> /\ callQ' = callQ
        /\ listener.at = "tell" /\ (listener.read = "Ready" => listener.final)
        /\ listener' = [listener EXCEPT !.at = IF listener.read = "Fatal" THEN "none" ELSE "wait"]
    BY <1>w DEF TellStatus, boot, top
  <1>2. /\ Len(toldQ') = n + 1 /\ toldQ'[n + 1] = w /\ \A i \in 1..n : toldQ'[i] = toldQ[i]
        /\ DOMAIN toldQ = 1..n /\ DOMAIN toldQ' = 1..n + 1
    BY <1>t, <1>n, <1>1 DEF DriversTypeOK
  <1>3. /\ w = "Ready" => listener.read = "Ready" /\ listener.final
        /\ w = "Fatal" => listener.read = "Fatal"
        /\ listener.final => listener.read = "Ready" /\ w = "Ready"
    BY <1>w, <1>1 DEF Summary, Core, Handing
  <1>4. listener'.final = listener.final
    BY <1>t, <1>1 DEF DriversTypeOK
  <1>5. \A i \in 1..n + 1 : i = n + 1 \/ i \in 1..n
    OBVIOUS
  <1>6. ReadyTold'
    BY <1>1, <1>2, <1>3, <1>4, <1>5 DEF Told, ReadyTold
  <1>7. \A i \in 1..n : toldQ[i] # "Fatal"
    BY <1>1, <1>2 DEF Told, FatalTold
  <1>8. "Fatal" \notin {told, starStatus, task.act}
    BY <1>1 DEF Told, FatalTold
  <1>9. FatalTold'
    <2>1. w = "Fatal" => listener'.at = "none" /\ ~InitIsSent' /\ ~listener'.final /\ FailingDrivers # {}
      <3>1. ASSUME w = "Fatal" PROVE listener.read = "Fatal" /\ ~listener.final /\ driver[entry] = "Fatal"
                                     /\ entry \in DriverSet
        BY <1>t, <1>1, <1>3, <3>1 DEF Core, Handing, DriversTypeOK
      <3>2. w = "Fatal" => FailingDrivers # {}
        BY <3>1 DEF Core, Once
      <3>3. ~InitIsSent'
        BY <1>1 DEF Core, Handing, InitIsSent
      <3>4. w = "Fatal" => listener'.at = "none"
        BY <1>t, <1>1, <3>1 DEF DriversTypeOK
      <3> QED
        BY <1>4, <3>1, <3>2, <3>3, <3>4
    <2> QED
      BY <1>1, <1>2, <1>5, <1>7, <1>8, <2>1 DEF FatalTold
  <1>10. Last'
    <2>1. \A i \in 1..n : toldQ[i] = "Ready" => w = "Ready"
      BY <1>2, <1>3 DEF Told, ReadyTold
    <2>2. told = "Ready" => w = "Ready"
      BY <1>3 DEF Told, ReadyTold
    <2>3. ASSUME NEW i \in 1..n + 1, NEW j \in 1..n + 1, i < j
          PROVE  toldQ'[i] # "Fatal" /\ (toldQ'[i] = "Ready" => toldQ'[j] = "Ready")
      <3>1. i \in 1..n
        BY <2>3
      <3>2. CASE j \in 1..n
        BY <1>2, <2>3, <3>1, <3>2 DEF Told, Last
      <3>3. CASE j = n + 1
        BY <1>2, <1>7, <2>1, <3>1, <3>3
      <3> QED
        BY <1>5, <3>2, <3>3
    <2>4. told' # "Fatal"
      BY <1>1, <1>8
    <2>5. told' = "Ready" => \A i \in 1..n + 1 : toldQ'[i] = "Ready"
      BY <1>1, <1>2, <1>5, <2>2 DEF Told, Last
    <2> QED
      BY <1>2, <2>3, <2>4, <2>5 DEF Last
  <1>11. Published'
    BY <1>1 DEF Told, Published
  <1> QED
    BY <1>6, <1>9, <1>10, <1>11 DEF Told

LEMMA ToldRelayStatus == Core /\ Told /\ RelayTold => Told'
  <1> SUFFICES ASSUME Core, Told, RelayTold PROVE Told'
    OBVIOUS
  <1>t. DriversTypeOK
    BY DEF Core
  <1>1. /\ toldQ # <<>> /\ told' = Head(toldQ) /\ toldQ' = Tail(toldQ)
        /\ UNCHANGED <<task, starStatus, wrangles, callQ, listener>>
    BY DEF RelayTold, boot
  <1>m. PICK m \in Nat \ {0} : m = Len(toldQ)
    BY <1>t, <1>1 DEF DriversTypeOK
  <1>n. PICK n \in Nat : n + 1 = m /\ n + 1 = Len(toldQ)
    <2>1. m - 1 \in Nat /\ (m - 1) + 1 = m
      OBVIOUS
    <2> QED
      BY <1>m, <2>1
  <1>2. /\ DOMAIN toldQ = 1..n + 1 /\ DOMAIN toldQ' = 1..n /\ told' = toldQ[1]
        /\ \A i \in 1..n : toldQ'[i] = toldQ[i + 1]
    BY <1>t, <1>1, <1>n DEF DriversTypeOK
  <1>3. 1 \in 1..n + 1 /\ \A i \in 1..n : i + 1 \in 1..n + 1 /\ 1 < i + 1
    OBVIOUS
  <1>4. ReadyTold'
    BY <1>1, <1>2, <1>3 DEF Told, ReadyTold
  <1>5. FatalTold'
    <2>1. InitIsSent' <=> InitIsSent
      BY <1>1 DEF InitIsSent
    <2> QED
      BY <1>1, <1>2, <1>3, <2>1 DEF Told, FatalTold
  <1>6. \A i, j \in 1..n : i < j => i + 1 < j + 1
    OBVIOUS
  <1>7. Last'
    <2>1. \A i, j \in 1..n : i < j => toldQ'[i] # "Fatal" /\ (toldQ'[i] = "Ready" => toldQ'[j] = "Ready")
      BY <1>2, <1>3, <1>6 DEF Told, Last
    <2>2. told' = "Ready" => \A i \in 1..n : toldQ'[i] = "Ready"
      BY <1>2, <1>3 DEF Told, Last
    <2>3. told' = "Fatal" => n = 0
      <3>1. n # 0 => 2 \in 1..n + 1 /\ 1 < 2
        OBVIOUS
      <3> QED
        BY <1>2, <1>3, <3>1 DEF Told, Last
    <2>4. n = 0 => toldQ' = <<>>
      <3>1. toldQ' \in Seq(Values) /\ Len(toldQ') = n
        BY <1>t, <1>1, <1>n DEF DriversTypeOK
      <3> QED
        BY <3>1
    <2> QED
      BY <1>2, <2>1, <2>2, <2>3, <2>4 DEF Last
  <1>8. Published'
    <2>1. told \in {"Ready", "Fatal"} => told' = told
      BY <1>1, <1>2, <1>3 DEF Told, Last
    <2> QED
      BY <1>1, <2>1 DEF Told, Published
  <1> QED
    BY <1>4, <1>5, <1>7, <1>8 DEF Told

LEMMA ToldStatusTask == Core /\ Told /\ StatusTask => Told'
  <1> SUFFICES ASSUME Core, Told, StatusTask PROVE Told'
    OBVIOUS
  <1>t. DriversTypeOK
    BY DEF Core
  <1>1. UNCHANGED <<toldQ, told, listener, callQ>>
    BY DEF StatusTask, Compare, Assign, Match, ActReady, ActPublish, TaskWakes, boot, tell
  <1>2. InitIsSent' <=> InitIsSent
    BY <1>1 DEF InitIsSent
  <1>3. Last'
    BY <1>1 DEF Told, Last
  <1>4. \/ "Ready" \in {told', starStatus', task'.act, task'.previous} => "Ready" \in {told, starStatus, task.act, task.previous}
    BY <1>t, <1>1 DEF StatusTask, Compare, Assign, Match, ActReady, ActPublish, TaskWakes, DriversTypeOK, Told, Published
  <1>5. \/ "Fatal" \in {told', starStatus', task'.act} => "Fatal" \in {told, starStatus, task.act}
    BY <1>t, <1>1 DEF StatusTask, Compare, Assign, Match, ActReady, ActPublish, TaskWakes, DriversTypeOK, Told, Published
  <1>6. ReadyTold' /\ FatalTold'
    BY <1>1, <1>2, <1>4, <1>5 DEF Told, ReadyTold, FatalTold
  <1>7. Published'
    <2>1. CASE Compare \/ Assign \/ TaskWakes
      BY <1>t, <1>1, <2>1 DEF Compare, Assign, TaskWakes, DriversTypeOK, Told, Published
    <2>2. CASE Match
      BY <1>t, <1>1, <2>2 DEF Match, DriversTypeOK, Told, Published
    <2>3. CASE ActReady
      BY <1>t, <1>1, <2>3 DEF ActReady, DriversTypeOK, Told, Published
    <2>4. CASE ActPublish
      BY <1>t, <1>1, <2>4 DEF ActPublish, DriversTypeOK, Told, Published
    <2> QED
      BY <2>1, <2>2, <2>3, <2>4 DEF StatusTask
  <1> QED
    BY <1>3, <1>6, <1>7 DEF Told

LEMMA InitTold == DriversInit => Told
  BY DEF DriversInit, Told, ReadyTold, FatalTold, Last, Published

LEMMA NextTold == Core /\ Told /\ [DriversNext]_driversVars => Told'
  <1> SUFFICES ASSUME Core, Told, [DriversNext]_driversVars PROVE Told'
    OBVIOUS
  <1>1. \/ UNCHANGED <<toldQ, top>> \/ TellStatus \/ RelayTold \/ StatusTask
    BY DEF DriversNext, DriversTask, InitNext, InitDone, AddDriver, RunAddDriver, DriverStep, Make, Added,
           RunOnAdded, RunInit, RelayDriver, Listener, Look, TellReady, ListenerWakes, driversVars, tell
  <1> QED
    BY <1>1, NothingNew, ToldTellStatus, ToldRelayStatus, ToldStatusTask

-----------------------------------------------------------------------------
DriversInv == Core /\ Told

LEMMA DriversInvariant == DriversSpec => []DriversInv
  <1>1. DriversInit => DriversInv
    BY InitCore, InitTold DEF DriversInv
  <1>2. DriversInv /\ [DriversNext]_driversVars => DriversInv'
    BY NextCore, NextTold DEF DriversInv
  <1> QED
    BY <1>1, <1>2, PTL DEF DriversSpec

\* Whatever the factories, the channels, the map and the watches of a star's drivers keep
\* their types, and a listener only ever looks at the map once init0 has filled it.
THEOREM DriversTypeCorrect == DriversSpec => []DriversTypeOK
  <1>1. DriversInv => DriversTypeOK
    BY DEF DriversInv, Core
  <1> QED
    BY <1>1, DriversInvariant, PTL

LEMMA AllReady ==
    ASSUME DriversInv, listener.final
    PROVE  \A d \in DriverSet : driver[d] = "Ready" /\ d \in registered /\ (d = DriverDriver \/ d \in known)
  <1>1. Core /\ DriversTypeOK /\ Lined /\ InTurn /\ Handing
    BY DEF DriversInv, Core
  <1>2. left = <<>> /\ callQ = <<>> /\ driver[entry] = "Ready"
    BY <1>1 DEF Handing
  <1>3. \A d \in DriverSet : driver[d] = "Ready"
    BY <1>1, <1>2, Lining DEF InTurn
  <1> QED
    BY <1>1, <1>2, <1>3, ReadyIsQuiet DEF InFront

\* Whatever the factories: the star is told Ready only when all of its drivers are,
\* although the map of statuses only ever holds the driver started last.
THEOREM StarReadyMeansAll == DriversSpec => []ReadyMeansAll
  <1>1. DriversInv => ReadyMeansAll
    BY AllReady DEF DriversInv, Told, ReadyTold, ReadyMeansAll
  <1> QED
    BY <1>1, DriversInvariant, PTL

\* Whatever the factories: the DriverDriver is there when the Drivers task unwraps it to
\* pass another driver on, and the star's driver when the status task does.
THEOREM UnwrapsNeverFail == DriversSpec => []UnwrapsFind
  <1>1. DriversInv => UnwrapsFind
    <2> SUFFICES ASSUME DriversInv PROVE UnwrapsFind
      OBVIOUS
    <2>1. Core /\ DriversTypeOK /\ Lined /\ Channels /\ Told
      BY DEF DriversInv, Core
    <2>2. ASSUME callQ # <<>>, Head(callQ).op = "AddDriver", Head(callQ).arg # DriverDriver
          PROVE  DriverDriver \in registered
      <3>1. callQ = <<AddCall(entry)>> /\ entry \notin {None, DriverDriver}
        BY <2>1, <2>2, CallsApart, Short DEF Channels
      <3>2. DriverDriver \in Taken /\ DriverDriver \in DriverSet
        BY <2>1, <3>1, Lining, First
      <3>3. driver[DriverDriver] = "Ready"
        BY <2>1, <3>1, <3>2 DEF Core, InTurn
      <3>4. ~InFront(DriverDriver)
        BY <3>1, CallsApart, Short DEF InFront
      <3> QED
        BY <2>1, <3>2, <3>3, <3>4, ReadyIsQuiet
    <2>3. ASSUME task.at = "act", task.act = "Ready" PROVE StarDriver \in registered
      <3>1. listener.final
        BY <2>1, <2>3 DEF Told, ReadyTold
      <3> QED
        BY <3>1, AllReady, FactoriesAssumption
    <2> QED
      BY <2>2, <2>3 DEF UnwrapsFind
  <1> QED
    BY <1>1, DriversInvariant, PTL

\* Each step of the star is one that StarBoot allows, or none that it sees.
LEMMA BootStep == DriversInv /\ DriversInv' /\ [DriversNext]_driversVars => [Promised!Next]_(Promised!vars)
  <1> SUFFICES ASSUME DriversInv, DriversInv', [DriversNext]_driversVars PROVE [Promised!Next]_(Promised!vars)
    OBVIOUS
  <1>t. DriversTypeOK /\ DriversTypeOK' /\ Published /\ Published' /\ FatalTold' /\ ReadyTold /\ FatalTold
    BY DEF DriversInv, Core, Told
  <1>1. CASE UNCHANGED <<starStatus, wrangles>>
    BY <1>1 DEF phaseBar, Promised!vars
  <1>2. CASE ActReady
    <2>1. task.at = "act" /\ task.act = "Ready" /\ wrangles' = wrangles + 1 /\ starStatus' = starStatus /\ wrangles \in Nat
      BY <1>2, <1>t DEF ActReady, DriversTypeOK
    <2>2. starStatus # "Fatal"
      BY <1>t, <2>1 DEF Published
    <2>3. CASE starStatus = "Ready"
      BY <2>1, <2>3 DEF phaseBar, Promised!vars
    <2>4. CASE starStatus # "Ready"
      <3>1. wrangles = 0
        BY <1>t, <2>1, <2>4 DEF Published
      <3>2. phaseBar = "boot" /\ phaseBar' = "queued"
        BY <2>1, <2>2, <2>4, <3>1 DEF phaseBar
      <3> QED
        BY <2>1, <3>2 DEF Promised!Next, Promised!QueueWrangling
    <2> QED
      BY <2>3, <2>4
  <1>3. CASE ActPublish
    <2>1. starStatus' = task.act /\ wrangles' = wrangles /\ (task.at = "publish" \/ (task.at = "act" /\ task.act # "Ready"))
          /\ wrangles \in Nat /\ task.act \in Values
      BY <1>3, <1>t DEF ActPublish, DriversTypeOK
    <2>2. CASE task.at = "publish"
      <3>1. task.act = "Ready" /\ wrangles > 0 /\ starStatus # "Fatal"
        BY <1>t, <2>2 DEF Published
      <3>2. CASE starStatus = "Ready"
        BY <2>1, <3>1, <3>2 DEF phaseBar, Promised!vars
      <3>3. CASE starStatus # "Ready"
        <4>1. phaseBar = "queued" /\ phaseBar' = "up" /\ starStatus' = "Ready"
          BY <2>1, <3>1, <3>3 DEF phaseBar
        <4> QED
          BY <4>1 DEF Promised!Next, Promised!BecomeReady
      <3> QED
        BY <3>2, <3>3
    <2>3. CASE task.at = "act" /\ task.act # "Ready"
      <3>1. starStatus # "Ready" /\ wrangles = 0
        BY <1>t, <2>1, <2>3 DEF Published
      <3>2. CASE task.act = "Fatal"
        <4>1. FailingDrivers # {}
          BY <1>t, <3>2 DEF FatalTold
        <4>2. CASE starStatus = "Fatal"
          BY <2>1, <3>2, <4>2 DEF phaseBar, Promised!vars
        <4>3. CASE starStatus # "Fatal"
          <5>1. phaseBar = "boot" /\ phaseBar' = "failed" /\ starStatus' = "Fatal"
            BY <2>1, <3>1, <3>2, <4>3 DEF phaseBar
          <5> QED
            BY <4>1, <5>1 DEF Promised!Next, Promised!BootFails
        <4> QED
          BY <4>2, <4>3
      <3>3. CASE task.act # "Fatal"
        <4>1. starStatus # "Fatal"
          BY <1>t, <2>3, <3>3 DEF Published
        <4>2. phaseBar = "boot" /\ phaseBar' = "boot" /\ starStatus' \in {"Unknown", "Pending", "Init"}
          BY <2>1, <2>3, <3>1, <3>3, <4>1 DEF phaseBar, Values
        <4> QED
          BY <4>2 DEF Promised!Next, Promised!Boot
      <3> QED
        BY <3>2, <3>3
    <2> QED
      BY <2>1, <2>2, <2>3
  <1>4. UNCHANGED <<starStatus, wrangles>> \/ ActReady \/ ActPublish
    BY DEF DriversNext, DriversTask, InitNext, InitDone, AddDriver, RunAddDriver, DriverStep, Make, Added,
           RunOnAdded, RunInit, RelayDriver, Listener, Look, TellReady, TellStatus, ListenerWakes,
           RelayTold, StatusTask, Compare, Assign, Match, TaskWakes, driversVars, top
  <1> QED
    BY <1>1, <1>2, <1>3, <1>4

\* Whatever the factories, each step of a star that starts its drivers is one StarBoot
\* allows, or a stutter: it publishes Ready last and after StartWrangling, and fails once.
THEOREM StarBootsSafely == DriversSpec => Promised!Init /\ [][Promised!Next]_(Promised!vars)
  <1>1. DriversInit => Promised!Init
    BY DEF DriversInit, Promised!Init, phaseBar
  <1> QED
    BY <1>1, BootStep, DriversInvariant, PTL DEF DriversSpec
=============================================================================
