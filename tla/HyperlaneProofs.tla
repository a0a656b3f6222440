-------------------------- MODULE HyperlaneProofs --------------------------
(* Theorems about Hyperlane, for any set of waves and listeners and any     *)
(* capacities, and about HyperClient, for any numbers of waves, connections *)
(* and situations.  Hyperlane's TypeOK is inductive as it stands because it *)
(* ties the task's program counter to what the task holds.                  *)
EXTENDS Hyperlane, HyperClient, SequenceTheorems, TLAPS

\* A call of a given kind carries an argument of that kind.
LEMMA CallKinds ==
    ASSUME NEW c \in Calls
    PROVE  /\ c.op = "Wave" => c.arg \in Waves /\ c = WaveCall(c.arg)
           /\ c.op = "Ext" => c.arg \in Exts
           /\ c.op = "Transform" => c.arg \in Transforms
  BY DEF Calls, WaveCall, ExtCall, TransformCall, ResetExt

\* What Append does to a sequence over a set.
LEMMA AppendFacts ==
    ASSUME NEW S, NEW s \in Seq(S), NEW e \in S
    PROVE  /\ Append(s, e) \in Seq(S)
           /\ Append(s, e) # <<>>
           /\ Len(Append(s, e)) = Len(s) + 1
           /\ Len(s) \in Nat
  OBVIOUS

\* Dropping the oldest waves of a queue leaves a queue of at most QueueCap.
LEMMA TrimBounds ==
    ASSUME NEW q \in Seq(Waves)
    PROVE  /\ Trim(q) \in Seq(Waves)
           /\ Len(Trim(q)) <= QueueCap
           /\ Len(Trim(q)) <= Len(q)
           /\ Len(q) <= QueueCap => Trim(q) = q
  <1>1. QueueCap \in Nat
    BY CapAssumption
  <1>2. CASE Len(q) > QueueCap
    <2>1. Len(q) \in Nat
      OBVIOUS
    <2>2. SubSeq(q, Len(q) - QueueCap + 1, Len(q)) \in Seq(Waves)
      BY <1>1, <1>2, <2>1
    <2>3. Len(SubSeq(q, Len(q) - QueueCap + 1, Len(q))) = QueueCap
      BY <1>1, <1>2, <2>1
    <2> QED
      BY <1>1, <1>2, <2>1, <2>2, <2>3 DEF Trim
  <1>3. CASE ~(Len(q) > QueueCap)
    BY <1>1, <1>3 DEF Trim
  <1> QED
    BY <1>2, <1>3

\* The initial state of a lane, its transforms still in the call channel, is
\* well typed.
LEMMA InitTypeOK == Init => TypeOK
  <1> SUFFICES ASSUME Init PROVE TypeOK
    OBVIOUS
  <1>1. Installed(kind) \in Seq(Transforms) /\ Len(Installed(kind)) <= CallCap
    BY FilterAssumption, CapAssumption DEF Installed
  <1>2. Len(Installed(kind)) \in Nat /\ CallCap \in Nat
    BY <1>1, CapAssumption
  <1>3. \A i \in 1..Len(Installed(kind)) : TransformCall(Installed(kind)[i]) \in Calls
    BY <1>1 DEF Calls
  <1>4. chan \in Seq(Calls) /\ Len(chan) = Len(Installed(kind))
    BY <1>2, <1>3 DEF Init
  <1> QED
    BY <1>1, <1>2, <1>4, NameAssumption DEF Init, TypeOK

\* Every step of the lane task, of a sender and of a listener keeps the types.
LEMMA NextTypeOK == TypeOK /\ [Next]_vars => TypeOK'
  <1> SUFFICES ASSUME TypeOK, [Next]_vars PROVE TypeOK'
    OBVIOUS
  <1> USE NameAssumption, CapAssumption
  <1>recv. ASSUME NEW op, Take(op)
           PROVE  /\ chan' \in Seq(Calls) /\ Len(chan') <= CallCap
                  /\ Head(chan) \in Calls /\ pc = "recv" /\ Head(chan).op = op
    BY <1>recv DEF TypeOK, Take
  <1>1. CASE RecvExt
    <2>1. Head(chan).arg \in Exts
      BY <1>1, <1>recv, CallKinds DEF RecvExt, Take
    <2>2. chan' \in Seq(Calls) /\ Len(chan') <= CallCap /\ pc = "recv"
      BY <1>1, <1>recv DEF RecvExt
    <2> QED
      BY <1>1, <2>1, <2>2 DEF TypeOK, RecvExt, AfterCall, aside
  <1>2. CASE RecvTransform
    <2>1. Head(chan).arg \in Transforms
      BY <1>2, <1>recv, CallKinds DEF RecvTransform, Take
    <2>2. chan' \in Seq(Calls) /\ Len(chan') <= CallCap /\ pc = "recv"
      BY <1>2, <1>recv DEF RecvTransform
    <2> QED
      BY <1>2, <2>1, <2>2 DEF TypeOK, RecvTransform, AfterCall, aside
  <1>3. CASE RecvWave
    <2>1. Head(chan).arg \in Waves
      BY <1>3, <1>recv, CallKinds DEF RecvWave, Take
    <2>2. chan' \in Seq(Calls) /\ Len(chan') <= CallCap /\ pc = "recv"
      BY <1>3, <1>recv DEF RecvWave
    <2>3. queue' \in Seq(Waves) /\ queue' # <<>>
      <3>1. Trim(queue) \in Seq(Waves)
        BY TrimBounds DEF TypeOK
      <3>2. queue' = Append(Trim(queue), Head(chan).arg)
        BY <1>3 DEF RecvWave
      <3> QED
        BY <2>1, <3>1, <3>2, AppendFacts
    <2>4. stamp' \in [Waves -> Seq(Transforms)]
      <3>1. Stamped(Head(chan).arg) \in Seq(Transforms)
        BY <2>1 DEF TypeOK, Stamped
      <3> QED
        BY <1>3, <2>1, <3>1 DEF TypeOK, RecvWave
    <2>5. fate' \in [Waves -> {"new", "live", "done", "evicted", "lost", "rejected"}]
      BY <1>3 DEF TypeOK, RecvWave
    <2>6. UNCHANGED <<ext, failed, transforms, ear, got, read, kind, order, latest>>
          /\ pc' = AfterCall(queue', ext)
      BY <1>3 DEF RecvWave, aside
    <2> QED
      BY <2>2, <2>3, <2>4, <2>5, <2>6 DEF TypeOK, AfterCall
  <1>4. CASE RecvResetExt
    <2>2. chan' \in Seq(Calls) /\ Len(chan') <= CallCap /\ pc = "recv"
      BY <1>4, <1>recv DEF RecvResetExt
    <2> QED
      BY <1>4, <2>2 DEF TypeOK, RecvResetExt, AfterCall, aside
  <1>5. CASE Deliver
    <2>1. ext \in Exts /\ Head(queue) \in Waves /\ Tail(queue) \in Seq(Waves)
      BY <1>5 DEF TypeOK, Deliver
    <2>2. Append(got[ext], Head(queue)) \in Seq(Waves \cup {InitWave})
          /\ Len(Append(got[ext], Head(queue))) = Len(got[ext]) + 1
      <3>1. got[ext] \in Seq(Waves \cup {InitWave}) /\ Head(queue) \in Waves \cup {InitWave}
        BY <2>1 DEF TypeOK
      <3> QED
        BY <3>1, AppendFacts
    <2>3. got' \in [Exts -> Seq(Waves \cup {InitWave})]
          /\ \A x \in Exts : got'[x] = IF x = ext THEN Append(got[ext], Head(queue)) ELSE got[x]
      BY <1>5, <2>1, <2>2 DEF TypeOK, Deliver
    <2>5. \A x \in Exts : got[x] \in Seq(Waves \cup {InitWave}) /\ read[x] \in Nat
      BY DEF TypeOK
    <2>4. \A x \in Exts : read'[x] <= Len(got'[x])
      <3> SUFFICES ASSUME NEW x \in Exts PROVE read[x] <= Len(got'[x])
        BY <1>5 DEF Deliver
      <3>1. read[x] \in Nat /\ Len(got[x]) \in Nat /\ read[x] <= Len(got[x])
        BY <2>5 DEF TypeOK
      <3>2. Len(got'[x]) = Len(got[x]) \/ Len(got'[x]) = Len(got[x]) + 1
        BY <2>2, <2>3
      <3> QED
        BY <3>1, <3>2
    <2> QED
      BY <1>5, <2>1, <2>3, <2>4 DEF TypeOK, Deliver, aside
  <1>6. CASE DeliverFails
    BY <1>6, SMTT(30) DEF TypeOK, DeliverFails, aside
  <1>7. CASE SendReset
    <2>1. chan' \in Seq(Calls) /\ Len(chan') <= CallCap
      <3>1. ResetExt \in Calls
        BY DEF Calls
      <3> QED
        BY <1>7, <3>1 DEF TypeOK, SendReset, HasRoom
    <2> QED
      BY <1>7, <2>1 DEF TypeOK, SendReset, aside
  <1>8. CASE Requeue
    <2>1. failed \in Waves
      BY <1>8 DEF TypeOK, Requeue
    <2>2. chan' \in Seq(Calls) /\ Len(chan') <= CallCap
      <3>1. WaveCall(failed) \in Calls
        BY <2>1 DEF Calls
      <3>2. CASE chan' = Append(chan, WaveCall(failed)) /\ HasRoom
        <4>1. chan \in Seq(Calls) /\ Len(chan) < CallCap
          BY <3>2 DEF TypeOK, HasRoom
        <4> QED
          BY <3>1, <3>2, <4>1, AppendFacts
      <3>3. CASE chan' = chan
        BY <3>3 DEF TypeOK
      <3> QED
        BY <1>8, <3>2, <3>3 DEF Requeue
    <2>3. fate' \in [Waves -> {"new", "live", "done", "evicted", "lost", "rejected"}]
      BY <1>8, <2>1 DEF TypeOK, Requeue
    <2> QED
      BY <1>8, <2>2, <2>3 DEF TypeOK, Requeue, aside
  <1>9. ASSUME NEW w \in Waves, Send(w) PROVE TypeOK'
    <2>1. chan' \in Seq(Calls) /\ Len(chan') <= CallCap
      <3>1. WaveCall(w) \in Calls
        BY DEF Calls
      <3> QED
        BY <1>9, <3>1 DEF TypeOK, Send, HasRoom
    <2> QED
      BY <1>9, <2>1 DEF TypeOK, Send, laneVars
  <1>10. ASSUME NEW w \in Waves, SendTimesOut(w) PROVE TypeOK'
    BY <1>10 DEF TypeOK, SendTimesOut, laneVars, aside
  <1>11. ASSUME NEW x \in Exts, RxMake(x) PROVE TypeOK'
    <2>1. <<InitWave>> \in Seq(Waves \cup {InitWave}) /\ <<>> \in Seq(Waves \cup {InitWave})
      OBVIOUS
    <2>2. got' \in [Exts -> Seq(Waves \cup {InitWave})]
      BY <1>11, <2>1 DEF TypeOK, RxMake
    <2>3. ear' \in [Exts -> {"unused", "made", "open", "dropped"}]
          /\ \A y \in Exts : ear'[y] \in {"unused", "made"} => read[y] = 0
      BY <1>11 DEF TypeOK, RxMake
    <2>4. \A y \in Exts : read[y] <= Len(got'[y])
      <3> SUFFICES ASSUME NEW y \in Exts PROVE read[y] <= Len(got'[y])
        OBVIOUS
      <3>1. CASE y = x
        <4>1. read[y] = 0
          BY <1>11, <3>1 DEF TypeOK, RxMake
        <4>2. Len(got'[y]) \in Nat
          BY <2>2
        <4> QED
          BY <4>1, <4>2
      <3>2. CASE y # x
        BY <1>11, <3>2 DEF TypeOK, RxMake
      <3> QED
        BY <3>1, <3>2
    <2> QED
      BY <1>11, <2>2, <2>3, <2>4 DEF TypeOK, RxMake, laneVars, aside
  <1>12. ASSUME NEW x \in Exts, RxRegister(x) PROVE TypeOK'
    <2>1. chan' \in Seq(Calls) /\ Len(chan') <= CallCap
      <3>1. ExtCall(x) \in Calls
        BY DEF Calls
      <3> QED
        BY <1>12, <3>1 DEF TypeOK, RxRegister, HasRoom
    <2> QED
      BY <1>12, <2>1 DEF TypeOK, RxRegister, laneVars
  <1>13. ASSUME NEW x \in Exts, Read(x) PROVE TypeOK'
    <2>1. read[x] + 1 <= Len(got[x])
      BY <1>13 DEF TypeOK, Read, Buffered
    <2>2. \A y \in Exts : read'[y] <= Len(got[y])
      BY <1>13, <2>1 DEF TypeOK, Read
    <2>3. read' \in [Exts -> Nat]
          /\ \A y \in Exts : ear[y] \in {"unused", "made"} => read'[y] = 0
      BY <1>13 DEF TypeOK, Read
    <2> QED
      BY <1>13, <2>2, <2>3 DEF TypeOK, Read, laneVars, aside
  <1>14. ASSUME NEW x \in Exts, Drop(x) PROVE TypeOK'
    BY <1>14 DEF TypeOK, Drop, laneVars, aside
  <1>15. CASE UNCHANGED vars
    BY <1>15 DEF TypeOK, vars, laneVars, aside
  <1> QED
    BY <1>1, <1>2, <1>3, <1>4, <1>5, <1>6, <1>7, <1>8, <1>9, <1>10, <1>11,
       <1>12, <1>13, <1>14, <1>15 DEF Next, Task, Environment

\* The lane's state keeps its type: the call channel never exceeds its capacity,
\* the task holds a failed wave exactly while it requeues it, and it never drains
\* an empty queue or drains to nobody.
THEOREM TypeCorrect == Spec => []TypeOK
  BY InitTypeOK, NextTypeOK, PTL DEF Spec

\* RecvWave is the only step that adds to the queue, and it trims before it pushes.
THEOREM QueueIsBounded == Spec => []QueueBounded
  <1>1. Init => QueueBounded
    BY CapAssumption DEF Init, QueueBounded
  <1>2. TypeOK /\ QueueBounded /\ [Next]_vars => QueueBounded'
    <2> SUFFICES ASSUME TypeOK, QueueBounded, [Next]_vars PROVE QueueBounded'
      OBVIOUS
    <2> USE CapAssumption
    <2>1. CASE RecvWave
      <3>1. Trim(queue) \in Seq(Waves) /\ Len(Trim(queue)) <= QueueCap
        BY TrimBounds DEF TypeOK
      <3>2. queue' = Append(Trim(queue), Head(chan).arg)
        BY <2>1 DEF RecvWave
      <3> QED
        BY <3>1, <3>2 DEF QueueBounded
    <2>2. CASE Deliver \/ DeliverFails
      <3>1. queue # <<>> /\ queue \in Seq(Waves) /\ queue' = Tail(queue)
        BY <2>2 DEF TypeOK, Deliver, DeliverFails
      <3> QED
        BY <3>1 DEF QueueBounded
    <2>3. CASE UNCHANGED queue
      BY <2>3 DEF QueueBounded
    <2> QED
      BY <2>1, <2>2, <2>3
      DEF Next, Task, Environment, vars, laneVars, RecvExt, RecvTransform, RecvResetExt,
          SendReset, Requeue, Send, SendTimesOut, RxMake, RxRegister, Read, Drop
  <1> QED
    BY <1>1, <1>2, TypeCorrect, PTL DEF Spec

\* Every path back to rx.recv() passes the test for something to drain, or has just
\* drained everything.
THEOREM NeverIdleWithBacklog == Spec => []NoIdleBacklog
  <1>1. Init => NoIdleBacklog
    BY DEF Init, NoIdleBacklog
  <1>2. NoIdleBacklog /\ [Next]_vars => NoIdleBacklog'
    <2> SUFFICES ASSUME NoIdleBacklog, [Next]_vars PROVE NoIdleBacklog'
      OBVIOUS
    <2>1. CASE RecvExt \/ RecvTransform \/ RecvWave \/ RecvResetExt
      <3>1. pc' = AfterCall(queue', ext')
        BY <2>1 DEF RecvExt, RecvTransform, RecvWave, RecvResetExt
      <3> QED
        BY <3>1 DEF NoIdleBacklog, AfterCall
    <2>2. CASE Deliver \/ DeliverFails \/ SendReset \/ Requeue
      <3>1. pc' = "recv" => queue' = <<>>
        <4>1. CASE Deliver
          BY <4>1 DEF Deliver
        <4>2. CASE DeliverFails \/ SendReset
          BY <4>2 DEF DeliverFails, SendReset
        <4>3. CASE Requeue
          BY <4>3 DEF Requeue
        <4> QED
          BY <2>2, <4>1, <4>2, <4>3
      <3> QED
        BY <3>1 DEF NoIdleBacklog
    <2>3. CASE UNCHANGED laneVars
      BY <2>3 DEF NoIdleBacklog, laneVars
    <2> QED
      BY <2>1, <2>2, <2>3
      DEF Next, Task, Environment, vars, Send, SendTimesOut, RxMake, RxRegister, Read, Drop
  <1> QED
    BY <1>1, <1>2, PTL DEF Spec

-----------------------------------------------------------------------------
(* No wave is lost in the lane or handed over twice.  ConservedInLane and   *)
(* DeliveredOnce need each other: a delivery is not a repetition because a   *)
(* queued wave is live, and a dropped listener takes no live wave with it    *)
(* because what it was handed is done.                                       *)

\* Element i of a sequence after Append and after Tail.
LEMMA AppendElements ==
    ASSUME NEW S, NEW s \in Seq(S), NEW e \in S
    PROVE  /\ DOMAIN Append(s, e) = 1..(Len(s) + 1)
           /\ DOMAIN s = 1..Len(s)
           /\ Len(s) \in Nat
           /\ \A i \in 1..Len(s) : Append(s, e)[i] = s[i]
           /\ Append(s, e)[Len(s) + 1] = e
  OBVIOUS

\* Element i of the tail is element i + 1 of the sequence.
LEMMA TailElements ==
    ASSUME NEW S, NEW s \in Seq(S), s # <<>>
    PROVE  /\ Tail(s) \in Seq(S)
           /\ DOMAIN Tail(s) = 1..(Len(s) - 1)
           /\ DOMAIN s = 1..Len(s)
           /\ Len(s) \in Nat \ {0}
           /\ Head(s) = s[1]
           /\ \A i \in 1..(Len(s) - 1) : Tail(s)[i] = s[i + 1]
  OBVIOUS

\* What Trim keeps is the end of the queue; what it drops is the front.
LEMMA TrimElements ==
    ASSUME NEW q \in Seq(Waves)
    PROVE  /\ DOMAIN Trim(q) = 1..Len(Trim(q))
           /\ DOMAIN q = 1..Len(q)
           /\ Len(Trim(q)) \in Nat /\ Len(q) \in Nat
           /\ \A i \in 1..Len(Trim(q)) :
                 Trim(q)[i] = q[i + (Len(q) - Len(Trim(q)))]
  <1>1. QueueCap \in Nat /\ Len(q) \in Nat
    BY CapAssumption
  <1>2. CASE Len(q) > QueueCap
    <2> DEFINE t == SubSeq(q, Len(q) - QueueCap + 1, Len(q))
    <2>1. t \in Seq(Waves) /\ Len(t) = QueueCap
      BY <1>1, <1>2
    <2>2. \A i \in 1..QueueCap : t[i] = q[Len(q) - QueueCap + 1 + i - 1]
      BY <1>1, <1>2
    <2>3. Trim(q) = t
      BY <1>2 DEF Trim
    <2> QED
      BY <1>1, <1>2, <2>1, <2>2, <2>3
  <1>3. CASE ~(Len(q) > QueueCap)
    BY <1>1, <1>3 DEF Trim
  <1> QED
    BY <1>2, <1>3

\* Where a wave is after a call is taken from the channel.
LEMMA TakeChan ==
    ASSUME TypeOK, ConservedInLane, NEW op, Take(op)
    PROVE  /\ \A w \in Waves : (InChan(w))' <=> InChan(w) /\ WaveCall(w) # Head(chan)
           /\ \A i, j \in DOMAIN chan' : chan'[i] = chan'[j] /\ chan'[i].op = "Wave" => i = j
  <1>1. /\ chan \in Seq(Calls) /\ chan # <<>> /\ chan' = Tail(chan)
        /\ DOMAIN chan' = 1..(Len(chan) - 1) /\ DOMAIN chan = 1..Len(chan)
        /\ Len(chan) \in Nat \ {0} /\ Head(chan) = chan[1]
        /\ \A i \in 1..(Len(chan) - 1) : chan'[i] = chan[i + 1]
    BY TailElements DEF TypeOK, Take
  <1>2. \A i, j \in 1..Len(chan) : chan[i] = chan[j] /\ chan[i].op = "Wave" => i = j
    BY <1>1 DEF ConservedInLane
  <1>3. \A i, j \in DOMAIN chan' : chan'[i] = chan'[j] /\ chan'[i].op = "Wave" => i = j
    BY <1>1, <1>2
  <1>4. ASSUME NEW w \in Waves
        PROVE  (InChan(w))' <=> InChan(w) /\ WaveCall(w) # Head(chan)
    <2>1. ASSUME NEW i \in 1..(Len(chan) - 1), chan[i + 1] = WaveCall(w)
          PROVE  InChan(w) /\ WaveCall(w) # Head(chan)
      <3>1. i + 1 \in 1..Len(chan) /\ i + 1 # 1 /\ 1 \in 1..Len(chan)
        BY <1>1
      <3>2. WaveCall(w).op = "Wave"
        BY DEF WaveCall
      <3>3. chan[i + 1] # chan[1]
        BY <1>2, <2>1, <3>1, <3>2
      <3> QED
        BY <1>1, <2>1, <3>1, <3>3 DEF InChan
    <2>2. ASSUME NEW i \in 1..Len(chan), chan[i] = WaveCall(w), WaveCall(w) # Head(chan)
          PROVE  (InChan(w))'
      <3>1. i - 1 \in 1..(Len(chan) - 1) /\ chan'[i - 1] = chan[i]
        BY <1>1, <2>2
      <3>2. (WaveCall(w))' = WaveCall(w)
        BY DEF WaveCall
      <3> QED
        BY <1>1, <2>2, <3>1, <3>2 DEF InChan
    <2>3. (WaveCall(w))' = WaveCall(w)
      BY DEF WaveCall
    <2> QED
      BY <1>1, <2>1, <2>2, <2>3 DEF InChan
  <1> QED
    BY <1>3, <1>4

\* Where a wave is after a call is posted to the channel.
LEMMA PostChan ==
    ASSUME TypeOK, ConservedInLane, NEW c \in Calls, chan' = Append(chan, c),
           c.op = "Wave" => ~InChan(c.arg)
    PROVE  /\ \A w \in Waves : (InChan(w))' <=> InChan(w) \/ WaveCall(w) = c
           /\ \A i, j \in DOMAIN chan' : chan'[i] = chan'[j] /\ chan'[i].op = "Wave" => i = j
  <1>1. /\ chan \in Seq(Calls) /\ Len(chan) \in Nat
        /\ DOMAIN chan' = 1..(Len(chan) + 1) /\ DOMAIN chan = 1..Len(chan)
        /\ chan'[Len(chan) + 1] = c
        /\ \A i \in 1..Len(chan) : chan'[i] = chan[i]
    BY AppendElements DEF TypeOK
  <1>2. \A i, j \in 1..Len(chan) : chan[i] = chan[j] /\ chan[i].op = "Wave" => i = j
    BY <1>1 DEF ConservedInLane
  <1>3. \A i \in 1..Len(chan) : chan[i] = c => c.op # "Wave"
    BY <1>1, CallKinds DEF InChan
  <1>4. \A i \in 1..(Len(chan) + 1) : i \in 1..Len(chan) \/ i = Len(chan) + 1
    BY <1>1
  <1>5. \A i, j \in DOMAIN chan' : chan'[i] = chan'[j] /\ chan'[i].op = "Wave" => i = j
    BY <1>1, <1>2, <1>3, <1>4
  <1>6. \A w : (WaveCall(w))' = WaveCall(w)
    BY DEF WaveCall
  <1>7. \A w \in Waves : (InChan(w))' <=> \E i \in 1..(Len(chan) + 1) : chan'[i] = WaveCall(w)
    BY <1>1, <1>6 DEF InChan
  <1>8. \A w \in Waves : InChan(w) <=> \E i \in 1..Len(chan) : chan'[i] = WaveCall(w)
    BY <1>1 DEF InChan
  <1>9. \A i \in 1..Len(chan) : i \in 1..(Len(chan) + 1)
    BY <1>1
  <1>10. Len(chan) + 1 \in 1..(Len(chan) + 1)
    BY <1>1
  <1> QED
    BY <1>1, <1>4, <1>5, <1>7, <1>8, <1>9, <1>10

\* Where a wave is after the front of the queue is taken.
LEMMA TailQueue ==
    ASSUME TypeOK, ConservedInLane, queue # <<>>, queue' = Tail(queue)
    PROVE  /\ \A w \in Waves : (InQueue(w))' <=> InQueue(w) /\ w # Head(queue)
           /\ \A i, j \in DOMAIN queue' : queue'[i] = queue'[j] => i = j
           /\ Head(queue) \in Waves /\ InQueue(Head(queue))
  <1>1. /\ queue \in Seq(Waves)
        /\ DOMAIN queue' = 1..(Len(queue) - 1) /\ DOMAIN queue = 1..Len(queue)
        /\ Len(queue) \in Nat \ {0} /\ Head(queue) = queue[1]
        /\ \A i \in 1..(Len(queue) - 1) : queue'[i] = queue[i + 1]
    BY TailElements DEF TypeOK
  <1>2. \A i, j \in 1..Len(queue) : queue[i] = queue[j] => i = j
    BY <1>1 DEF ConservedInLane
  <1>3. \A i, j \in DOMAIN queue' : queue'[i] = queue'[j] => i = j
    BY <1>1, <1>2
  <1>4. Head(queue) \in Waves /\ InQueue(Head(queue))
    BY <1>1 DEF InQueue
  <1>5. ASSUME NEW w \in Waves
        PROVE  (InQueue(w))' <=> InQueue(w) /\ w # Head(queue)
    <2>1. ASSUME NEW i \in 1..(Len(queue) - 1), queue[i + 1] = w
          PROVE  InQueue(w) /\ w # Head(queue)
      <3>1. i + 1 \in 1..Len(queue) /\ i + 1 # 1 /\ 1 \in 1..Len(queue)
        BY <1>1
      <3> QED
        BY <1>1, <1>2, <2>1, <3>1 DEF InQueue
    <2>2. ASSUME NEW i \in 1..Len(queue), queue[i] = w, w # Head(queue)
          PROVE  (InQueue(w))'
      <3>1. i - 1 \in 1..(Len(queue) - 1) /\ queue'[i - 1] = queue[i]
        BY <1>1, <2>2
      <3> QED
        BY <1>1, <2>2, <3>1 DEF InQueue
    <2> QED
      BY <1>1, <2>1, <2>2 DEF InQueue
  <1> QED
    BY <1>3, <1>4, <1>5

\* The waves RecvWave drops from the front of the queue.
Evicts(w) == \E i \in 1..(Len(queue) - Len(Trim(queue))) : queue[i] = w

\* Where a wave is after RecvWave has trimmed the queue and pushed another one.
LEMMA PushQueue ==
    ASSUME TypeOK, ConservedInLane, NEW v \in Waves, ~InQueue(v),
           queue' = Append(Trim(queue), v)
    PROVE  /\ \A w \in Waves : (InQueue(w))' <=> (InQueue(w) /\ ~Evicts(w)) \/ w = v
           /\ \A w \in Waves : Evicts(w) => InQueue(w)
           /\ \A i, j \in DOMAIN queue' : queue'[i] = queue'[j] => i = j
  <1> DEFINE t == Trim(queue)
  <1> DEFINE d == Len(queue) - Len(t)
  <1>1. /\ queue \in Seq(Waves) /\ t \in Seq(Waves)
        /\ Len(t) \in Nat /\ Len(queue) \in Nat /\ Len(t) <= Len(queue)
        /\ DOMAIN queue = 1..Len(queue)
        /\ \A i \in 1..Len(t) : t[i] = queue[i + d]
    BY TrimElements, TrimBounds DEF TypeOK
  <1>2. /\ DOMAIN queue' = 1..(Len(t) + 1)
        /\ \A i \in 1..Len(t) : queue'[i] = t[i]
        /\ queue'[Len(t) + 1] = v
    BY <1>1, AppendElements
  <1>3. \A i, j \in 1..Len(queue) : queue[i] = queue[j] => i = j
    BY <1>1 DEF ConservedInLane
  <1>4. d \in Nat
    BY <1>1
  <1>5. \A i \in 1..Len(t) : queue'[i] = queue[i + d] /\ i + d \in 1..Len(queue)
    BY <1>1, <1>2, <1>4
  <1>6. \A i \in 1..Len(queue) : queue[i] # v
    BY <1>1 DEF InQueue
  <1> HIDE DEF t
  <1>7. \A i \in 1..(Len(t) + 1) : i \in 1..Len(t) \/ i = Len(t) + 1
    BY <1>1
  <1>8. \A i, j \in DOMAIN queue' : queue'[i] = queue'[j] => i = j
    <2> SUFFICES ASSUME NEW i \in DOMAIN queue', NEW j \in DOMAIN queue', queue'[i] = queue'[j]
                 PROVE  i = j
      OBVIOUS
    <2>1. CASE i \in 1..Len(t) /\ j \in 1..Len(t)
      <3>1. i + d = j + d
        BY <1>3, <1>5, <2>1
      <3> QED
        BY <1>1, <1>4, <2>1, <3>1
    <2>2. CASE i = Len(t) + 1 /\ j \in 1..Len(t)
      BY <1>2, <1>5, <1>6, <2>2
    <2>3. CASE j = Len(t) + 1 /\ i \in 1..Len(t)
      BY <1>2, <1>5, <1>6, <2>3
    <2> QED
      BY <1>2, <1>7, <2>1, <2>2, <2>3
  <1>9. \A w \in Waves : Evicts(w) <=> \E i \in 1..d : queue[i] = w
    BY DEF Evicts, t
  <1>10. \A i \in 1..d : i \in 1..Len(queue)
    BY <1>1
  <1>11. \A w \in Waves : Evicts(w) => InQueue(w)
    BY <1>1, <1>9, <1>10 DEF InQueue
  <1>12. ASSUME NEW w \in Waves
         PROVE  (InQueue(w))' <=> (InQueue(w) /\ ~Evicts(w)) \/ w = v
    <2>1. ASSUME NEW i \in 1..Len(t), queue'[i] = w
          PROVE  InQueue(w) /\ ~Evicts(w)
      <3>1. i + d \in 1..Len(queue) /\ queue[i + d] = w
        BY <1>5, <2>1
      <3>2. \A k \in 1..d : k # i + d
        BY <1>1, <1>4
      <3>3. \A k \in 1..d : queue[k] # w
        BY <1>3, <1>10, <3>1, <3>2
      <3> QED
        BY <1>1, <1>9, <3>1, <3>3 DEF InQueue
    <2>2. ASSUME NEW i \in 1..Len(queue), queue[i] = w, ~Evicts(w)
          PROVE  (InQueue(w))'
      <3>1. i \notin 1..d
        BY <1>9, <2>2
      <3>2. i - d \in 1..Len(t) /\ (i - d) + d = i
        BY <1>1, <1>4, <3>1
      <3>3. queue'[i - d] = w
        BY <1>5, <2>2, <3>2
      <3>4. i - d \in 1..(Len(t) + 1)
        BY <1>1, <3>2
      <3> QED
        BY <1>2, <3>3, <3>4 DEF InQueue
    <2>3. (InQueue(v))'
      <3>1. Len(t) + 1 \in 1..(Len(t) + 1)
        BY <1>1
      <3> QED
        BY <1>2, <3>1 DEF InQueue
    <2>4. (InQueue(w))' <=> \E i \in 1..(Len(t) + 1) : queue'[i] = w
      BY <1>2 DEF InQueue
    <2>5. InQueue(w) <=> \E i \in 1..Len(queue) : queue[i] = w
      BY <1>1 DEF InQueue
    <2>6. (InQueue(w))' => (InQueue(w) /\ ~Evicts(w)) \/ w = v
      BY <1>2, <1>7, <2>1, <2>4
    <2> QED
      BY <2>2, <2>3, <2>5, <2>6
  <1> QED
    BY <1>8, <1>11, <1>12

\* What a step leaves alone stays where it is.
LEMMA SameChan ==
    ASSUME ConservedInLane, chan' = chan
    PROVE  /\ \A w \in Waves : (InChan(w))' <=> InChan(w)
           /\ \A i, j \in DOMAIN chan' : chan'[i] = chan'[j] /\ chan'[i].op = "Wave" => i = j
  BY DEF InChan, WaveCall, ConservedInLane

\* A step that leaves the queue alone leaves its waves where they are.
LEMMA SameQueue ==
    ASSUME ConservedInLane, queue' = queue
    PROVE  /\ \A w \in Waves : (InQueue(w))' <=> InQueue(w)
           /\ \A i, j \in DOMAIN queue' : queue'[i] = queue'[j] => i = j
  BY DEF InQueue, ConservedInLane

\* A handed-over wave stays handed over while no listener is given another.
LEMMA SameGot ==
    ASSUME TypeOK, DeliveredOnce, got' = got,
           \A w \in Waves : fate[w] \in {"done", "lost"} => fate'[w] \in {"done", "lost"}
    PROVE  DeliveredOnce'
  <1>1. \A x \in Exts : \A i \in DOMAIN got[x] : got[x][i] # InitWave => got[x][i] \in Waves
    BY DEF TypeOK
  <1> QED
    BY <1>1 DEF DeliveredOnce

\* The conservation law, restated so that one step of the proof can supply each
\* conjunct.
LEMMA Reassemble ==
    ASSUME \A w \in Waves : (fate'[w] = "live") <=> ((InChan(w))' \/ (InQueue(w))' \/ failed' = w),
           \A w \in Waves : ~((InChan(w))' /\ (InQueue(w))'),
           \A w \in Waves : failed' = w => ~(InChan(w))' /\ ~(InQueue(w))',
           failed' \in Waves \cup {None},
           \A i, j \in DOMAIN chan' : chan'[i] = chan'[j] /\ chan'[i].op = "Wave" => i = j,
           \A i, j \in DOMAIN queue' : queue'[i] = queue'[j] => i = j
    PROVE  ConservedInLane'
  <1>1. ASSUME NEW w \in Waves, failed' = w
        PROVE  ~(InChan(failed))' /\ ~(InQueue(failed))'
    <2>1. ~(InChan(w))' /\ ~(InQueue(w))'
      BY <1>1
    <2> QED
      BY <1>1, <2>1 DEF InChan, InQueue, WaveCall
  <1>2. failed' # None => ~(InChan(failed))' /\ ~(InQueue(failed))'
    BY <1>1
  <1> QED
    BY <1>2 DEF ConservedInLane

\* At the start nothing is on the lane but transforms.
LEMMA InitConserved == Init => Conserved
  <1> SUFFICES ASSUME Init PROVE Conserved
    OBVIOUS
  <1>2. \A i \in DOMAIN chan : chan[i].op # "Wave"
    BY DEF Init, TransformCall
  <1>1a. \A w \in Waves : ~InChan(w)
    BY <1>2 DEF InChan, WaveCall
  <1>1b. queue = <<>> /\ failed = None
    BY DEF Init
  <1>1c. \A w \in Waves : ~InQueue(w)
    BY <1>1b DEF InQueue
  <1>1. \A w \in Waves : ~InChan(w) /\ ~InQueue(w) /\ failed # w
    BY <1>1a, <1>1b, <1>1c, NameAssumption
  <1>3. ConservedInLane
    BY <1>1, <1>2 DEF Init, ConservedInLane
  <1>4. DeliveredOnce
    BY DEF Init, DeliveredOnce
  <1> QED
    BY <1>3, <1>4 DEF Conserved

\* Every step keeps every live wave in exactly one place and hands over none twice.
LEMMA NextConserved == TypeOK /\ TypeOK' /\ Conserved /\ [Next]_vars => Conserved'
  <1> SUFFICES ASSUME TypeOK, TypeOK', ConservedInLane, DeliveredOnce, [Next]_vars
               PROVE  ConservedInLane' /\ DeliveredOnce'
    BY DEF Conserved
  <1> USE NameAssumption
  <1>a. /\ \A w \in Waves : fate[w] = "live" <=> InChan(w) \/ InQueue(w) \/ failed = w
        /\ \A w \in Waves : ~(InChan(w) /\ InQueue(w))
        /\ \A w \in Waves : failed = w => ~InChan(w) /\ ~InQueue(w)
    BY DEF ConservedInLane
  <1>b. failed' \in Waves \cup {None}
    BY DEF TypeOK
  <1>1. CASE RecvExt \/ RecvTransform \/ RecvResetExt
    <2>1. UNCHANGED <<queue, failed, fate, got>>
      BY <1>1 DEF RecvExt, RecvTransform, RecvResetExt
    <2>2. PICK op \in {"Ext", "Transform", "ResetExt"} : Take(op)
      BY <1>1 DEF RecvExt, RecvTransform, RecvResetExt
    <2>3. \A w \in Waves : WaveCall(w) # Head(chan)
      BY <2>2 DEF Take, WaveCall
    <2>4. ConservedInLane'
      BY <1>a, <1>b, <2>1, <2>2, <2>3, TakeChan, SameQueue, Reassemble
    <2> QED
      BY <2>1, <2>4, SameGot
  <1>2. CASE RecvWave
    <2> DEFINE v == Head(chan).arg
    <2>1. Take("Wave") /\ Head(chan) \in Calls
      BY <1>2 DEF RecvWave, Take, TypeOK
    <2>2. v \in Waves /\ Head(chan) = WaveCall(v)
      BY <2>1, CallKinds DEF Take
    <2>3. InChan(v)
      BY <2>1, <2>2, TailElements DEF InChan, Take, TypeOK
    <2>4. ~InQueue(v) /\ failed # v /\ fate[v] = "live"
      BY <1>a, <2>2, <2>3
    <2>5. queue' = Append(Trim(queue), v) /\ UNCHANGED <<failed, got>>
      BY <1>2 DEF RecvWave
    <2>6. \A w \in Waves : fate'[w] = IF Evicts(w) THEN "evicted" ELSE fate[w]
      BY <1>2 DEF RecvWave, Evicts
    <2>7. \A w \in Waves : WaveCall(w) = Head(chan) <=> w = v
      BY <2>2 DEF WaveCall
    <2> HIDE DEF v
    <2>8. /\ \A w \in Waves : (InQueue(w))' <=> (InQueue(w) /\ ~Evicts(w)) \/ w = v
          /\ \A w \in Waves : Evicts(w) => InQueue(w)
          /\ \A i, j \in DOMAIN queue' : queue'[i] = queue'[j] => i = j
      BY <2>2, <2>4, <2>5, PushQueue
    <2>9. /\ \A w \in Waves : (InChan(w))' <=> InChan(w) /\ w # v
          /\ \A i, j \in DOMAIN chan' : chan'[i] = chan'[j] /\ chan'[i].op = "Wave" => i = j
      BY <2>1, <2>7, TakeChan
    <2>10. \A w \in Waves : (fate'[w] = "live") <=> ((InChan(w))' \/ (InQueue(w))' \/ failed' = w)
      BY <1>a, <2>4, <2>5, <2>6, <2>8, <2>9
    <2>11. \A w \in Waves : ~((InChan(w))' /\ (InQueue(w))')
      BY <1>a, <2>8, <2>9
    <2>12. \A w \in Waves : failed' = w => ~(InChan(w))' /\ ~(InQueue(w))'
      BY <1>a, <2>4, <2>5, <2>8, <2>9
    <2>13. ConservedInLane'
      BY <1>b, <2>8, <2>9, <2>10, <2>11, <2>12, Reassemble
    <2>14. \A w \in Waves : fate[w] \in {"done", "lost"} => fate'[w] \in {"done", "lost"}
      BY <1>a, <2>6, <2>8
    <2> QED
      BY <2>5, <2>13, <2>14, SameGot
  <1>3. CASE Deliver
    <2> DEFINE v == Head(queue)
    <2>1. /\ queue # <<>> /\ queue' = Tail(queue) /\ ext \in Exts
          /\ UNCHANGED <<chan, failed>>
      BY <1>3 DEF Deliver, TypeOK
    <2>2. /\ \A w \in Waves : (InQueue(w))' <=> InQueue(w) /\ w # v
          /\ \A i, j \in DOMAIN queue' : queue'[i] = queue'[j] => i = j
          /\ v \in Waves /\ InQueue(v)
      BY <2>1, TailQueue
    <2>3. \A w \in Waves : fate'[w] = IF w = v THEN "done" ELSE fate[w]
      BY <1>3, <2>2 DEF Deliver, TypeOK
    <2>4. \A x \in Exts : got'[x] = IF x = ext THEN Append(got[x], v) ELSE got[x]
      BY <1>3, <2>1 DEF Deliver, TypeOK
    <2> HIDE DEF v
    <2>5. fate[v] = "live" /\ ~InChan(v) /\ failed # v
      BY <1>a, <2>2
    <2>6. ConservedInLane'
      <3>1. \A w \in Waves : (InChan(w))' <=> InChan(w)
        BY <2>1, SameChan
      <3>2. \A w \in Waves : (fate'[w] = "live") <=> ((InChan(w))' \/ (InQueue(w))' \/ failed' = w)
        BY <1>a, <2>1, <2>2, <2>3, <2>5, <3>1
      <3> QED
        BY <1>a, <1>b, <2>1, <2>2, <3>1, <3>2, SameChan, Reassemble
    <2>7. DeliveredOnce'
      <3>1. \A x \in Exts : \A i \in DOMAIN got[x] :
               /\ got[x][i] # v
               /\ got[x][i] # InitWave => got[x][i] \in Waves
        <4> SUFFICES ASSUME NEW x \in Exts, NEW i \in DOMAIN got[x]
                     PROVE  /\ got[x][i] # v
                            /\ got[x][i] # InitWave => got[x][i] \in Waves
          OBVIOUS
        <4>1. got[x][i] \in Waves \cup {InitWave}
          BY DEF TypeOK
        <4>2. got[x][i] # InitWave => fate[got[x][i]] # "live"
          BY DEF DeliveredOnce
        <4> QED
          BY <2>2, <2>5, <4>1, <4>2
      <3>2. /\ got[ext] \in Seq(Waves \cup {InitWave}) /\ v \in Waves \cup {InitWave}
            /\ v # InitWave
        BY <2>1, <2>2 DEF TypeOK
      <3>3. /\ DOMAIN got'[ext] = 1..(Len(got[ext]) + 1) /\ DOMAIN got[ext] = 1..Len(got[ext])
            /\ Len(got[ext]) \in Nat
            /\ \A i \in 1..Len(got[ext]) : got'[ext][i] = got[ext][i]
            /\ got'[ext][Len(got[ext]) + 1] = v
        <4>1. got'[ext] = Append(got[ext], v)
          BY <2>1, <2>4
        <4> QED
          BY <3>2, <4>1, AppendElements
      <3> DEFINE new(x, i) == x = ext /\ i = Len(got[ext]) + 1
      <3>4. ASSUME NEW x \in Exts, NEW i \in DOMAIN got'[x]
            PROVE  \/ new(x, i) /\ got'[x][i] = v
                   \/ i \in DOMAIN got[x] /\ got'[x][i] = got[x][i]
        <4>1. CASE x = ext
          <5>1. i \in 1..Len(got[ext]) \/ i = Len(got[ext]) + 1
            BY <3>3, <4>1
          <5> QED
            BY <3>3, <4>1, <5>1
        <4>2. CASE x # ext
          BY <2>4, <4>2
        <4> QED
          BY <4>1, <4>2
      <3>5. ASSUME NEW x \in Exts, NEW i \in DOMAIN got'[x], got'[x][i] # InitWave
            PROVE  fate'[got'[x][i]] \in {"done", "lost"}
        BY <2>2, <2>3, <3>1, <3>4, <3>5 DEF DeliveredOnce
      <3>6. ASSUME NEW x \in Exts, NEW y \in Exts, NEW i \in DOMAIN got'[x],
                   NEW j \in DOMAIN got'[y], got'[x][i] = got'[y][j], got'[x][i] # InitWave
            PROVE  x = y /\ i = j
        <4>1. CASE new(x, i) /\ got'[x][i] = v
          BY <3>1, <3>4, <3>6, <4>1
        <4>2. CASE new(y, j) /\ got'[y][j] = v
          BY <3>1, <3>4, <3>6, <4>2
        <4>3. CASE /\ i \in DOMAIN got[x] /\ got'[x][i] = got[x][i]
                   /\ j \in DOMAIN got[y] /\ got'[y][j] = got[y][j]
          <5>1. got[x][i] = got[y][j] /\ got[x][i] # InitWave
            BY <3>6, <4>3
          <5> QED
            BY <4>3, <5>1 DEF DeliveredOnce
        <4> QED
          BY <3>4, <4>1, <4>2, <4>3
      <3> QED
        BY <3>5, <3>6 DEF DeliveredOnce
    <2> QED
      BY <2>6, <2>7
  <1>4. CASE DeliverFails
    <2> DEFINE v == Head(queue)
    <2>1. /\ queue # <<>> /\ queue' = Tail(queue) /\ failed' = v /\ failed = None
          /\ UNCHANGED <<chan, fate, got>>
      BY <1>4 DEF DeliverFails, TypeOK
    <2>2. /\ \A w \in Waves : (InQueue(w))' <=> InQueue(w) /\ w # v
          /\ \A i, j \in DOMAIN queue' : queue'[i] = queue'[j] => i = j
          /\ v \in Waves /\ InQueue(v)
      BY <2>1, TailQueue
    <2> HIDE DEF v
    <2>3. \A w \in Waves : (InChan(w))' <=> InChan(w)
      BY <2>1, SameChan
    <2>4. ConservedInLane'
      BY <1>a, <1>b, <2>1, <2>2, <2>3, SameChan, Reassemble
    <2> QED
      BY <2>1, <2>4, SameGot
  <1>5. CASE SendReset
    <2>1. chan' = Append(chan, ResetExt) /\ UNCHANGED <<queue, failed, fate, got>>
      BY <1>5 DEF SendReset
    <2>2. ResetExt \in Calls /\ ResetExt.op # "Wave" /\ \A w \in Waves : WaveCall(w) # ResetExt
      BY DEF Calls, ResetExt, WaveCall
    <2>3. ConservedInLane'
      BY <1>a, <1>b, <2>1, <2>2, PostChan, SameQueue, Reassemble
    <2> QED
      BY <2>1, <2>3, SameGot
  <1>6. CASE Requeue
    <2>1. failed \in Waves /\ failed' = None /\ UNCHANGED <<queue, got>>
      BY <1>6 DEF Requeue, TypeOK
    <2>2. fate[failed] = "live" /\ ~InChan(failed) /\ ~InQueue(failed)
      BY <1>a, <2>1
    <2>3. CASE chan' = Append(chan, WaveCall(failed)) /\ UNCHANGED fate
      <3>1. WaveCall(failed) \in Calls /\ WaveCall(failed).arg = failed
        BY <2>1 DEF Calls, WaveCall
      <3>2. \A w \in Waves : WaveCall(w) = WaveCall(failed) <=> w = failed
        BY DEF WaveCall
      <3>3. /\ \A w \in Waves : (InChan(w))' <=> InChan(w) \/ w = failed
            /\ \A i, j \in DOMAIN chan' : chan'[i] = chan'[j] /\ chan'[i].op = "Wave" => i = j
        BY <2>2, <2>3, <3>1, <3>2, PostChan
      <3>4. ConservedInLane'
        BY <1>a, <1>b, <2>1, <2>2, <2>3, <3>3, SameQueue, Reassemble
      <3> QED
        BY <2>1, <2>3, <3>4, SameGot
    <2>4. CASE UNCHANGED chan /\ fate' = [fate EXCEPT ![failed] = "lost"]
      <3>1. \A w \in Waves : fate'[w] = IF w = failed THEN "lost" ELSE fate[w]
        BY <2>1, <2>4 DEF TypeOK
      <3>2. ConservedInLane'
        BY <1>a, <1>b, <2>1, <2>2, <2>4, <3>1, SameChan, SameQueue, Reassemble
      <3> QED
        BY <2>1, <3>1, <3>2, SameGot
    <2> QED
      BY <1>6, <2>3, <2>4 DEF Requeue
  <1>7. ASSUME NEW v \in Waves, Send(v) PROVE ConservedInLane' /\ DeliveredOnce'
    <2>1. /\ fate[v] = "new" /\ chan' = Append(chan, WaveCall(v))
          /\ UNCHANGED <<queue, failed, got>>
          /\ \A w \in Waves : fate'[w] = IF w = v THEN "live" ELSE fate[w]
      BY <1>7 DEF Send, laneVars, TypeOK
    <2>2. ~InChan(v) /\ ~InQueue(v) /\ failed # v
      BY <1>a, <2>1
    <2>3. /\ WaveCall(v) \in Calls /\ WaveCall(v).arg = v
          /\ \A w \in Waves : WaveCall(w) = WaveCall(v) <=> w = v
      BY DEF Calls, WaveCall
    <2>4. /\ \A w \in Waves : (InChan(w))' <=> InChan(w) \/ w = v
          /\ \A i, j \in DOMAIN chan' : chan'[i] = chan'[j] /\ chan'[i].op = "Wave" => i = j
      BY <2>1, <2>2, <2>3, PostChan
    <2>5. ConservedInLane'
      BY <1>a, <1>b, <2>1, <2>2, <2>4, SameQueue, Reassemble
    <2> QED
      BY <2>1, <2>5, SameGot
  <1>8. ASSUME NEW v \in Waves, SendTimesOut(v) PROVE ConservedInLane' /\ DeliveredOnce'
    <2>1. /\ fate[v] = "new" /\ UNCHANGED <<chan, queue, failed, got>>
          /\ \A w \in Waves : fate'[w] = IF w = v THEN "rejected" ELSE fate[w]
      BY <1>8 DEF SendTimesOut, laneVars, TypeOK
    <2>2. ConservedInLane'
      BY <1>a, <1>b, <2>1, SameChan, SameQueue, Reassemble
    <2> QED
      BY <2>1, <2>2, SameGot
  <1>9. ASSUME NEW x \in Exts, RxMake(x) PROVE ConservedInLane' /\ DeliveredOnce'
    <2>1. /\ UNCHANGED <<chan, queue, failed, fate>>
          /\ \A y \in Exts : got'[y] = IF y = x THEN (IF kind = "outbound" /\ x \in Greeted THEN <<InitWave>> ELSE <<>>)
                                           ELSE got[y]
      BY <1>9 DEF RxMake, laneVars, TypeOK
    <2>2. ConservedInLane'
      BY <1>a, <1>b, <2>1, SameChan, SameQueue, Reassemble
    <2>3. \A y \in Exts : \A i \in DOMAIN got'[y] :
             got'[y][i] # InitWave => i \in DOMAIN got[y] /\ got'[y][i] = got[y][i]
      BY <2>1
    <2>4. DeliveredOnce'
      BY <2>1, <2>3 DEF DeliveredOnce
    <2> QED
      BY <2>2, <2>4
  <1>10. ASSUME NEW x \in Exts, RxRegister(x) PROVE ConservedInLane' /\ DeliveredOnce'
    <2>1. chan' = Append(chan, ExtCall(x)) /\ UNCHANGED <<queue, failed, fate, got>>
      BY <1>10 DEF RxRegister, laneVars
    <2>2. /\ ExtCall(x) \in Calls /\ ExtCall(x).op # "Wave"
          /\ \A w \in Waves : WaveCall(w) # ExtCall(x)
      BY DEF Calls, ExtCall, WaveCall
    <2>3. ConservedInLane'
      BY <1>a, <1>b, <2>1, <2>2, PostChan, SameQueue, Reassemble
    <2> QED
      BY <2>1, <2>3, SameGot
  <1>11. ASSUME NEW x \in Exts, Drop(x) PROVE ConservedInLane' /\ DeliveredOnce'
    <2>1. UNCHANGED <<chan, queue, failed, got>>
      BY <1>11 DEF Drop, laneVars
    <2>2. \A w \in Waves : fate'[w] = fate[w] \/ (fate'[w] = "lost" /\ fate[w] \in {"done", "lost"})
      <3> DEFINE unread(w) == \E i \in (read[x] + 1)..Len(got[x]) : got[x][i] = w
      <3>1. \A w \in Waves : fate'[w] = IF unread(w) THEN "lost" ELSE fate[w]
        BY <1>11 DEF Drop
      <3>2. ASSUME NEW w \in Waves, unread(w)
            PROVE  fate[w] \in {"done", "lost"}
        <4>1. PICK i \in (read[x] + 1)..Len(got[x]) : got[x][i] = w
          BY <3>2
        <4>2. i \in DOMAIN got[x] /\ got[x][i] # InitWave
          BY <4>1, SMTT(30) DEF TypeOK
        <4> QED
          BY <4>1, <4>2 DEF DeliveredOnce
      <3> HIDE DEF unread
      <3> QED
        BY <3>1, <3>2
    <2>3. ConservedInLane'
      BY <1>a, <1>b, <2>1, <2>2, SameChan, SameQueue, Reassemble
    <2> QED
      BY <2>1, <2>2, <2>3, SameGot
  <1>12. CASE UNCHANGED <<chan, queue, failed, fate, got>>
    <2>1. ConservedInLane'
      BY <1>a, <1>b, <1>12, SameChan, SameQueue, Reassemble
    <2> QED
      BY <1>12, <2>1, SameGot
  <1> QED
    BY <1>1, <1>2, <1>3, <1>4, <1>5, <1>6, <1>7, <1>8, <1>9, <1>10, <1>11, <1>12
    DEF Next, Task, Environment, vars, laneVars, Read

\* A live wave is in exactly one place of the lane, whatever listeners fail under it,
\* and a wave reaches at most one listener, and that one once.
THEOREM WavesConserved == Spec => []Conserved
  BY InitConserved, NextConserved, TypeCorrect, PTL DEF Spec

-----------------------------------------------------------------------------
(* The order of an inbound lane.  Its listener never fails, so no wave goes *)
(* back to the end of the call channel: what the lane accepted first is     *)
(* nearer to the front of the queue, and what is queued is ahead of what is *)
(* still in the channel.                                                    *)

\* The lane accepted v before w.
Before(v, w) == \E i, j \in DOMAIN order : i < j /\ order[i] = v /\ order[j] = w

\* The interchange's relay keeps its receiver, so the task never requeues.
NothingFails == pc \in {"recv", "drain"} /\ \A x \in Exts : ear[x] # "dropped"

\* A wave that was accepted is not sent again.
OrderAccepted == \A i \in DOMAIN order : fate[order[i]] # "new"

\* No wave of the queue is ahead of one accepted earlier.
QueueSorted == \A i, j \in DOMAIN queue : i < j => ~Before(queue[j], queue[i])

\* No wave of the queue was accepted later than one of the channel.
QueueFirst == \A i \in DOMAIN queue, j \in DOMAIN chan :
                 chan[j].op = "Wave" => ~Before(chan[j].arg, queue[i])

\* No wave of the channel is ahead of one accepted earlier.
ChanSorted == \A i, j \in DOMAIN chan :
                 i < j /\ chan[i].op = "Wave" /\ chan[j].op = "Wave"
                   => ~Before(chan[j].arg, chan[i].arg)

\* Nothing accepted before a wave that was handed over is still in the lane.
DoneFirst == \A v, w \in Waves : Before(v, w) /\ fate[w] = "done" => fate[v] # "live"

\* What keeps an inbound lane's waves in order.
Sorted == OrderAccepted /\ QueueSorted /\ QueueFirst /\ ChanSorted /\ DoneFirst
OrderInv == kind = "inbound" => NothingFails /\ Sorted

\* The order the lane accepted its waves in does not change while it accepts none.
LEMMA SameOrder ==
    ASSUME order' = order
    PROVE  \A v, w : (Before(v, w))' <=> Before(v, w)
  BY DEF Before

\* A step that takes the first call from the channel leaves the others in order.
LEMMA TailKeepsOrder ==
    ASSUME TypeOK, ChanSorted, order' = order, chan # <<>>, chan' = Tail(chan)
    PROVE  ChanSorted'
  <1>1. /\ DOMAIN chan' = 1..(Len(chan) - 1) /\ DOMAIN chan = 1..Len(chan)
        /\ Len(chan) \in Nat \ {0}
        /\ \A i \in 1..(Len(chan) - 1) : chan'[i] = chan[i + 1]
    BY TailElements DEF TypeOK
  <1>2. \A v, w : (Before(v, w))' <=> Before(v, w)
    BY SameOrder
  <1> SUFFICES ASSUME NEW i \in DOMAIN chan', NEW j \in DOMAIN chan',
                      i < j, chan'[i].op = "Wave", chan'[j].op = "Wave"
               PROVE  ~Before(chan'[j].arg, chan'[i].arg)
    BY <1>2 DEF ChanSorted
  <1>3. i + 1 \in DOMAIN chan /\ j + 1 \in DOMAIN chan /\ i + 1 < j + 1
    BY <1>1
  <1>4. chan'[i] = chan[i + 1] /\ chan'[j] = chan[j + 1]
    BY <1>1
  <1> QED
    BY <1>3, <1>4 DEF ChanSorted

\* A step that posts no wave leaves the waves of the channel in order.
LEMMA PostKeepsOrder ==
    ASSUME TypeOK, ChanSorted, order' = order,
           NEW c \in Calls, c.op # "Wave", chan' = Append(chan, c)
    PROVE  ChanSorted'
  <1>1. /\ DOMAIN chan' = 1..(Len(chan) + 1) /\ DOMAIN chan = 1..Len(chan)
        /\ Len(chan) \in Nat /\ chan'[Len(chan) + 1] = c
        /\ \A i \in 1..Len(chan) : chan'[i] = chan[i]
    BY AppendElements DEF TypeOK
  <1>2. \A v, w : (Before(v, w))' <=> Before(v, w)
    BY SameOrder
  <1>3. \A i \in DOMAIN chan' : chan'[i].op = "Wave" => i \in DOMAIN chan /\ chan'[i] = chan[i]
    <2> SUFFICES ASSUME NEW i \in 1..(Len(chan) + 1), chan'[i].op = "Wave"
                 PROVE  i \in 1..Len(chan)
      BY <1>1
    <2>1. i # Len(chan) + 1
      BY <1>1
    <2> QED
      BY <1>1, <2>1
  <1> QED
    BY <1>2, <1>3 DEF ChanSorted

\* Which calls of the channel carry waves after a call is taken, and where.
LEMMA TailWaves ==
    ASSUME TypeOK, chan # <<>>, chan' = Tail(chan)
    PROVE  \A j \in DOMAIN chan' : \E k \in DOMAIN chan : k > 1 /\ chan'[j] = chan[k]
  <1>1. /\ DOMAIN chan' = 1..(Len(chan) - 1) /\ DOMAIN chan = 1..Len(chan)
        /\ Len(chan) \in Nat \ {0}
        /\ \A i \in 1..(Len(chan) - 1) : chan'[i] = chan[i + 1]
    BY TailElements DEF TypeOK
  <1> SUFFICES ASSUME NEW j \in DOMAIN chan'
               PROVE  \E k \in DOMAIN chan : k > 1 /\ chan'[j] = chan[k]
    OBVIOUS
  <1>2. j + 1 \in DOMAIN chan /\ j + 1 > 1 /\ chan'[j] = chan[j + 1]
    BY <1>1
  <1> QED
    BY <1>2

\* Accepting a wave that was not in the lane before puts it last.
LEMMA SendKeepsOrder ==
    ASSUME TypeOK, Conserved, Sorted, NEW w \in Waves, Send(w)
    PROVE  Sorted'
  <1>1. /\ fate[w] = "new" /\ chan' = Append(chan, WaveCall(w)) /\ order' = Append(order, w)
        /\ queue' = queue
        /\ \A v \in Waves : fate'[v] = IF v = w THEN "live" ELSE fate[v]
    BY DEF Send, laneVars, TypeOK
  <1>2. /\ order \in Seq(Waves) /\ Len(order) \in Nat
        /\ DOMAIN order' = 1..(Len(order) + 1) /\ DOMAIN order = 1..Len(order)
        /\ \A i \in 1..Len(order) : order'[i] = order[i]
        /\ order'[Len(order) + 1] = w
    BY <1>1, AppendElements DEF TypeOK
  <1>3. \A i \in DOMAIN order : order[i] # w /\ order[i] \in Waves
    BY <1>1, <1>2 DEF Sorted, OrderAccepted
  <1>4. \A u, v : (Before(u, v))' => (u # w /\ (v = w \/ Before(u, v)))
    <2> SUFFICES ASSUME NEW u, NEW v, NEW i \in DOMAIN order', NEW j \in DOMAIN order',
                        i < j, order'[i] = u, order'[j] = v
                 PROVE  u # w /\ (v = w \/ Before(u, v))
      BY DEF Before
    <2>1. i \in DOMAIN order /\ order[i] = u
      BY <1>2
    <2>2. CASE j = Len(order) + 1
      BY <1>2, <1>3, <2>1, <2>2
    <2>3. CASE j # Len(order) + 1
      <3>1. j \in DOMAIN order /\ order[j] = v
        BY <1>2, <2>3
      <3> QED
        BY <1>3, <2>1, <3>1 DEF Before
    <2> QED
      BY <2>2, <2>3
  <1>5. /\ chan \in Seq(Calls) /\ Len(chan) \in Nat
        /\ DOMAIN chan' = 1..(Len(chan) + 1) /\ DOMAIN chan = 1..Len(chan)
        /\ chan'[Len(chan) + 1] = WaveCall(w)
        /\ \A i \in 1..Len(chan) : chan'[i] = chan[i]
    <2>1. WaveCall(w) \in Calls
      BY DEF Calls
    <2> QED
      BY <1>1, <2>1, AppendElements DEF TypeOK
  <1>6. ~InChan(w) /\ ~InQueue(w)
    BY <1>1 DEF Conserved, ConservedInLane
  <1>7. \A i \in DOMAIN chan : chan[i].op = "Wave" => chan[i].arg # w
    <2> SUFFICES ASSUME NEW i \in DOMAIN chan, chan[i].op = "Wave" PROVE chan[i].arg # w
      OBVIOUS
    <2>1. chan[i] = WaveCall(chan[i].arg)
      BY <1>5, CallKinds
    <2> QED
      BY <1>6, <2>1 DEF InChan
  <1>8. \A i \in DOMAIN queue : queue[i] # w
    BY <1>6 DEF InQueue
  <1>9. OrderAccepted'
    <2> SUFFICES ASSUME NEW i \in DOMAIN order' PROVE fate'[order'[i]] # "new"
      BY DEF OrderAccepted
    <2>1. CASE i = Len(order) + 1
      BY <1>1, <1>2, <2>1
    <2>2. CASE i # Len(order) + 1
      <3>1. i \in DOMAIN order /\ order'[i] = order[i]
        BY <1>2, <2>2
      <3> QED
        BY <1>1, <1>3, <3>1 DEF Sorted, OrderAccepted
    <2> QED
      BY <2>1, <2>2
  <1>10. QueueSorted'
    BY <1>1, <1>4, <1>8 DEF Sorted, QueueSorted
  <1>11. \A j \in DOMAIN chan' : chan'[j].arg = w \/ (j \in DOMAIN chan /\ chan'[j] = chan[j])
    <2> SUFFICES ASSUME NEW j \in 1..(Len(chan) + 1)
                 PROVE  chan'[j].arg = w \/ (j \in 1..Len(chan) /\ chan'[j] = chan[j])
      BY <1>5
    <2>1. CASE j = Len(chan) + 1
      BY <1>5, <2>1 DEF WaveCall
    <2>2. CASE j # Len(chan) + 1
      BY <1>5, <2>2
    <2> QED
      BY <2>1, <2>2
  <1>12. QueueFirst'
    <2> SUFFICES ASSUME NEW i \in DOMAIN queue, NEW j \in DOMAIN chan', chan'[j].op = "Wave",
                        (Before(chan[j].arg, queue[i]))'
                 PROVE  FALSE
      BY <1>1 DEF QueueFirst
    <2>1. chan'[j].arg # w /\ Before(chan'[j].arg, queue[i])
      BY <1>1, <1>4, <1>8
    <2> QED
      BY <1>11, <2>1 DEF Sorted, QueueFirst
  <1>13. ChanSorted'
    <2> SUFFICES ASSUME NEW i \in DOMAIN chan', NEW j \in DOMAIN chan', i < j,
                        chan'[i].op = "Wave", chan'[j].op = "Wave",
                        (Before(chan[j].arg, chan[i].arg))'
                 PROVE  FALSE
      BY DEF ChanSorted
    <2>1. chan'[j].arg # w /\ (chan'[i].arg = w \/ Before(chan'[j].arg, chan'[i].arg))
      BY <1>4
    <2>2. j \in DOMAIN chan /\ chan'[j] = chan[j]
      BY <1>11, <2>1
    <2>3. i \in DOMAIN chan /\ chan'[i] = chan[i]
      BY <1>5, <2>2
    <2>4. Before(chan[j].arg, chan[i].arg)
      BY <1>7, <2>1, <2>2, <2>3
    <2> QED
      BY <2>2, <2>3, <2>4 DEF Sorted, ChanSorted
  <1>14. DoneFirst'
    <2> SUFFICES ASSUME NEW u \in Waves, NEW v \in Waves, (Before(u, v))', fate'[v] = "done"
                 PROVE  fate'[u] # "live"
      BY DEF DoneFirst
    <2>1. v # w /\ fate[v] = "done"
      BY <1>1
    <2>2. u # w /\ Before(u, v)
      BY <1>4, <2>1
    <2> QED
      BY <1>1, <2>1, <2>2 DEF Sorted, DoneFirst
  <1> QED
    BY <1>9, <1>10, <1>12, <1>13, <1>14 DEF Sorted

\* A wave goes from the front of the channel to the end of the queue, and what is
\* evicted goes from the front of that.
LEMMA PushKeepsOrder ==
    ASSUME TypeOK, Sorted, RecvWave
    PROVE  Sorted'
  <1> DEFINE v == Head(chan).arg
  <1> DEFINE t == Trim(queue)
  <1> DEFINE d == Len(queue) - Len(t)
  <1>1. /\ chan # <<>> /\ chan' = Tail(chan) /\ Head(chan).op = "Wave"
        /\ queue' = Append(t, v) /\ order' = order
        /\ \A w \in Waves : fate'[w] \in {fate[w], "evicted"}
    BY DEF RecvWave, Take, aside
  <1>2. /\ chan \in Seq(Calls) /\ chan[1] = Head(chan) /\ 1 \in DOMAIN chan
    BY <1>1, TailElements DEF TypeOK
  <1>3. v \in Waves
    BY <1>1, <1>2, CallKinds
  <1>4. /\ queue \in Seq(Waves) /\ t \in Seq(Waves)
        /\ Len(t) \in Nat /\ Len(queue) \in Nat /\ Len(t) <= Len(queue)
        /\ DOMAIN queue = 1..Len(queue)
        /\ \A i \in 1..Len(t) : t[i] = queue[i + d]
    BY TrimElements, TrimBounds DEF TypeOK
  <1>5. /\ DOMAIN queue' = 1..(Len(t) + 1)
        /\ \A i \in 1..Len(t) : queue'[i] = t[i]
        /\ queue'[Len(t) + 1] = v
    BY <1>1, <1>3, <1>4, AppendElements
  <1>6. d \in Nat
    BY <1>4
  <1>7. \A i \in 1..Len(t) : i + d \in DOMAIN queue /\ queue'[i] = queue[i + d]
    BY <1>4, <1>5, <1>6
  <1>8. \A a, b : (Before(a, b))' <=> Before(a, b)
    BY <1>1, SameOrder
  <1>8a. \A i \in DOMAIN order : order[i] \in Waves
    BY DEF TypeOK
  <1>9. OrderAccepted'
    <2>1. \A i \in DOMAIN order : fate'[order[i]] # "new"
      BY <1>1, <1>8a DEF Sorted, OrderAccepted
    <2> QED
      BY <1>1, <2>1 DEF OrderAccepted
  <1>10. DoneFirst'
    BY <1>1, <1>8 DEF Sorted, DoneFirst
  <1>11. ChanSorted'
    BY <1>1, TailKeepsOrder DEF Sorted
  <1>12. \A i \in DOMAIN queue : ~Before(v, queue[i])
    BY <1>1, <1>2 DEF Sorted, QueueFirst
  <1>13. \A k \in DOMAIN chan : k > 1 /\ chan[k].op = "Wave" => ~Before(chan[k].arg, v)
    BY <1>1, <1>2 DEF Sorted, ChanSorted
  <1> HIDE DEF v, t
  <1>14. \A i \in DOMAIN queue' : i \in 1..Len(t) \/ i = Len(t) + 1
    BY <1>4, <1>5
  <1>15. QueueSorted'
    <2> SUFFICES ASSUME NEW i \in DOMAIN queue', NEW j \in DOMAIN queue', i < j
                 PROVE  ~Before(queue'[j], queue'[i])
      BY <1>8 DEF QueueSorted
    <2>1. i \in 1..Len(t)
      BY <1>4, <1>5, <1>14
    <2>2. CASE j \in 1..Len(t)
      <3>1. i + d < j + d
        BY <1>6, <2>1, <2>2
      <3> QED
        BY <1>7, <2>1, <2>2, <3>1 DEF Sorted, QueueSorted
    <2>3. CASE j = Len(t) + 1
      BY <1>5, <1>7, <1>12, <2>1, <2>3
    <2> QED
      BY <1>14, <2>2, <2>3
  <1>16. QueueFirst'
    <2> SUFFICES ASSUME NEW i \in DOMAIN queue', NEW j \in DOMAIN chan', chan'[j].op = "Wave"
                 PROVE  ~Before(chan'[j].arg, queue'[i])
      BY <1>8 DEF QueueFirst
    <2>1. PICK k \in DOMAIN chan : k > 1 /\ chan'[j] = chan[k]
      BY <1>1, TailWaves
    <2>2. CASE i \in 1..Len(t)
      BY <1>7, <2>1, <2>2 DEF Sorted, QueueFirst
    <2>3. CASE i = Len(t) + 1
      BY <1>5, <1>13, <2>1, <2>3
    <2> QED
      BY <1>14, <2>2, <2>3
  <1> QED
    BY <1>9, <1>10, <1>11, <1>15, <1>16 DEF Sorted

\* What is handed over is the front of the queue, and every live wave is behind it.
LEMMA DeliverKeepsOrder ==
    ASSUME TypeOK, Conserved, Sorted, Deliver
    PROVE  Sorted'
  <1> DEFINE h == Head(queue)
  <1>1. /\ queue # <<>> /\ queue' = Tail(queue) /\ failed = None
        /\ UNCHANGED <<chan, order>>
    BY DEF Deliver, TypeOK, aside
  <1>2. /\ DOMAIN queue' = 1..(Len(queue) - 1) /\ DOMAIN queue = 1..Len(queue)
        /\ Len(queue) \in Nat \ {0} /\ h = queue[1] /\ h \in Waves
        /\ \A i \in 1..(Len(queue) - 1) : queue'[i] = queue[i + 1]
    BY <1>1, TailElements DEF TypeOK
  <1>3. \A w \in Waves : fate'[w] = IF w = h THEN "done" ELSE fate[w]
    BY <1>2 DEF Deliver, TypeOK
  <1>4. \A a, b : (Before(a, b))' <=> Before(a, b)
    BY <1>1, SameOrder
  <1>5. \A i \in DOMAIN queue' : i + 1 \in DOMAIN queue /\ queue'[i] = queue[i + 1]
    BY <1>2
  <1> HIDE DEF h
  <1>6. OrderAccepted'
    <2>1. \A i \in DOMAIN order : order[i] \in Waves
      BY DEF TypeOK
    <2>2. \A i \in DOMAIN order : fate'[order[i]] # "new"
      BY <1>3, <2>1 DEF Sorted, OrderAccepted
    <2> QED
      BY <1>1, <2>2 DEF OrderAccepted
  <1>7. QueueSorted'
    <2> SUFFICES ASSUME NEW i \in DOMAIN queue', NEW j \in DOMAIN queue', i < j
                 PROVE  ~Before(queue'[j], queue'[i])
      BY <1>4 DEF QueueSorted
    <2>1. i + 1 < j + 1
      BY <1>2
    <2> QED
      BY <1>5, <2>1 DEF Sorted, QueueSorted
  <1>8. QueueFirst'
    BY <1>1, <1>4, <1>5 DEF Sorted, QueueFirst
  <1>9. ChanSorted'
    BY <1>1, <1>4 DEF Sorted, ChanSorted
  <1>10. \A u \in Waves : u # h /\ fate[u] = "live" => ~Before(u, h)
    <2> SUFFICES ASSUME NEW u \in Waves, u # h, fate[u] = "live" PROVE ~Before(u, h)
      OBVIOUS
    <2>1. InChan(u) \/ InQueue(u)
      BY <1>1, NameAssumption DEF Conserved, ConservedInLane
    <2>2. 1 \in DOMAIN queue
      BY <1>2
    <2>3. CASE InChan(u)
      <3>1. PICK j \in DOMAIN chan : chan[j] = WaveCall(u)
        BY <2>3 DEF InChan
      <3>2. chan[j].op = "Wave" /\ chan[j].arg = u
        BY <3>1 DEF WaveCall
      <3> QED
        BY <1>2, <2>2, <3>2 DEF Sorted, QueueFirst
    <2>4. CASE InQueue(u)
      <3>1. PICK j \in DOMAIN queue : queue[j] = u
        BY <2>4 DEF InQueue
      <3>2. 1 < j
        BY <1>2, <3>1
      <3> QED
        BY <1>2, <2>2, <3>1, <3>2 DEF Sorted, QueueSorted
    <2> QED
      BY <2>1, <2>3, <2>4
  <1>11. DoneFirst'
    BY <1>3, <1>4, <1>10 DEF Sorted, DoneFirst
  <1> QED
    BY <1>6, <1>7, <1>8, <1>9, <1>11 DEF Sorted

\* A step that leaves the queue and the order alone, and posts no wave.
LEMMA AsideKeepsOrder ==
    ASSUME TypeOK, Sorted, UNCHANGED <<queue, order>>, ChanSorted',
           \A j \in DOMAIN chan' : chan'[j].op = "Wave" => \E k \in DOMAIN chan : chan'[j] = chan[k],
           \A w \in Waves : fate'[w] = fate[w] \/ (fate[w] = "new" /\ fate'[w] = "rejected")
    PROVE  Sorted'
  <1>1. \A a, b : (Before(a, b))' <=> Before(a, b)
    BY SameOrder
  <1>2. \A i \in DOMAIN order : order[i] \in Waves
    BY DEF TypeOK
  <1>3. OrderAccepted'
    <2>1. \A i \in DOMAIN order : fate'[order[i]] # "new"
      BY <1>2 DEF Sorted, OrderAccepted
    <2> QED
      BY <2>1 DEF OrderAccepted
  <1>4. QueueSorted'
    BY <1>1 DEF Sorted, QueueSorted
  <1>5. QueueFirst'
    <2> SUFFICES ASSUME NEW i \in DOMAIN queue, NEW j \in DOMAIN chan', chan'[j].op = "Wave"
                 PROVE  ~Before(chan'[j].arg, queue[i])
      BY <1>1 DEF QueueFirst
    <2>1. PICK k \in DOMAIN chan : chan'[j] = chan[k]
      OBVIOUS
    <2> QED
      BY <2>1 DEF Sorted, QueueFirst
  <1>6. DoneFirst'
    BY <1>1 DEF Sorted, DoneFirst
  <1> QED
    BY <1>3, <1>4, <1>5, <1>6 DEF Sorted

\* Nothing has been accepted yet.
LEMMA InitOrderInv == Init => OrderInv
  <1> SUFFICES ASSUME Init PROVE NothingFails /\ Sorted
    BY DEF OrderInv
  <1>1. \A v, w : ~Before(v, w)
    <2>1. DOMAIN order = {}
      BY DEF Init
    <2> QED
      BY <2>1 DEF Before
  <1>2. order = <<>> /\ pc = "recv" /\ \A x \in Exts : ear[x] = "unused"
    BY DEF Init
  <1> QED
    BY <1>1, <1>2 DEF NothingFails, Sorted, OrderAccepted, QueueSorted, QueueFirst, ChanSorted,
                      DoneFirst

\* Every step of an inbound lane keeps its waves in the order it accepted them in.
LEMMA NextOrderInv == TypeOK /\ Conserved /\ OrderInv /\ [Next]_vars => OrderInv'
  <1> SUFFICES ASSUME TypeOK, Conserved, OrderInv, [Next]_vars, kind' = "inbound"
               PROVE  NothingFails' /\ Sorted'
    BY DEF OrderInv
  <1>a. kind = "inbound"
    BY DEF Next, Task, Environment, vars, laneVars, aside, RecvExt, RecvTransform, RecvWave,
           RecvResetExt, Deliver, DeliverFails, SendReset, Requeue, Send, SendTimesOut, RxMake,
           RxRegister, Read, Drop
  <1>b. NothingFails /\ Sorted
    BY <1>a DEF OrderInv
  <1>c. pc # "reset" /\ pc # "requeue" /\ (ext # None => ear[ext] # "dropped")
    BY <1>b DEF NothingFails, TypeOK
  <1>1. CASE RecvExt \/ RecvTransform \/ RecvResetExt
    <2>1. /\ UNCHANGED <<queue, order, fate, ear>> /\ pc' \in {"recv", "drain"}
          /\ chan # <<>> /\ chan' = Tail(chan)
      BY <1>1 DEF RecvExt, RecvTransform, RecvResetExt, Take, AfterCall, aside
    <2>2. ChanSorted'
      BY <1>b, <2>1, TailKeepsOrder DEF Sorted
    <2>3. \A j \in DOMAIN chan' : \E k \in DOMAIN chan : chan'[j] = chan[k]
      BY <2>1, TailWaves
    <2>4. Sorted'
      BY <1>b, <2>1, <2>2, <2>3, AsideKeepsOrder
    <2> QED
      BY <1>b, <2>1, <2>4 DEF NothingFails
  <1>2. CASE RecvWave
    <2>1. ear' = ear /\ pc' \in {"recv", "drain"}
      BY <1>2 DEF RecvWave, AfterCall
    <2> QED
      BY <1>2, <1>b, <2>1, PushKeepsOrder DEF NothingFails
  <1>3. CASE Deliver
    <2>1. ear' = ear /\ pc' \in {"recv", "drain"}
      BY <1>3 DEF Deliver
    <2> QED
      BY <1>3, <1>b, <2>1, DeliverKeepsOrder DEF NothingFails
  <1>4. CASE DeliverFails \/ SendReset \/ Requeue
    <2>1. pc = "drain" => ext # None
      BY DEF TypeOK
    <2> QED
      BY <1>4, <1>c, <2>1 DEF DeliverFails, SendReset, Requeue
  <1>5. ASSUME NEW w \in Waves, Send(w) PROVE NothingFails' /\ Sorted'
    <2>1. ear' = ear /\ pc' = pc
      BY <1>5 DEF Send, laneVars
    <2> QED
      BY <1>5, <1>b, <2>1, SendKeepsOrder DEF NothingFails
  <1>6. ASSUME NEW x \in Exts, RxRegister(x) PROVE NothingFails' /\ Sorted'
    <2>1. /\ chan' = Append(chan, ExtCall(x)) /\ UNCHANGED <<queue, order, fate, pc>>
          /\ ear' = [ear EXCEPT ![x] = "open"]
      BY <1>6 DEF RxRegister, laneVars
    <2>2. ExtCall(x) \in Calls /\ ExtCall(x).op # "Wave"
      BY DEF Calls, ExtCall
    <2>3. ChanSorted'
      BY <1>b, <2>1, <2>2, PostKeepsOrder DEF Sorted
    <2>4. \A j \in DOMAIN chan' : chan'[j].op = "Wave" => \E k \in DOMAIN chan : chan'[j] = chan[k]
      <3>1. /\ DOMAIN chan' = 1..(Len(chan) + 1) /\ DOMAIN chan = 1..Len(chan)
            /\ Len(chan) \in Nat /\ chan'[Len(chan) + 1] = ExtCall(x)
            /\ \A i \in 1..Len(chan) : chan'[i] = chan[i]
        BY <2>1, <2>2, AppendElements DEF TypeOK
      <3>2. \A j \in DOMAIN chan' : j = Len(chan) + 1 \/ j \in DOMAIN chan
        BY <3>1
      <3> QED
        BY <2>2, <3>1, <3>2
    <2>5. Sorted'
      BY <1>b, <2>1, <2>3, <2>4, AsideKeepsOrder
    <2> QED
      BY <1>b, <2>1, <2>5 DEF NothingFails, TypeOK
  <1>7. CASE \/ \E w \in Waves : SendTimesOut(w)
             \/ \E x \in Exts : RxMake(x) \/ Read(x)
             \/ UNCHANGED vars
    <2>1. /\ UNCHANGED <<chan, queue, order, pc>>
          /\ \A w \in Waves : fate'[w] = fate[w] \/ (fate[w] = "new" /\ fate'[w] = "rejected")
          /\ \A x \in Exts : ear'[x] \in {ear[x], "made"}
      <3>1. ASSUME NEW v \in Waves, SendTimesOut(v)
            PROVE  /\ UNCHANGED <<chan, queue, order, pc, ear>>
                   /\ \A w \in Waves : fate'[w] = fate[w] \/ (fate[w] = "new" /\ fate'[w] = "rejected")
        BY <3>1 DEF SendTimesOut, laneVars, aside, TypeOK
      <3>2. ASSUME NEW x \in Exts, RxMake(x)
            PROVE  /\ UNCHANGED <<chan, queue, order, pc, fate>>
                   /\ \A y \in Exts : ear'[y] \in {ear[y], "made"}
        BY <3>2 DEF RxMake, laneVars, aside, TypeOK
      <3>3. ASSUME NEW x \in Exts, Read(x)
            PROVE  UNCHANGED <<chan, queue, order, pc, fate, ear>>
        BY <3>3 DEF Read, laneVars, aside
      <3>4. CASE UNCHANGED vars
        BY <3>4 DEF vars, laneVars, aside
      <3> QED
        BY <1>7, <3>1, <3>2, <3>3, <3>4
    <2>2. ChanSorted'
      <3>1. \A a, b : (Before(a, b))' <=> Before(a, b)
        BY <2>1, SameOrder
      <3> QED
        BY <1>b, <2>1, <3>1 DEF Sorted, ChanSorted
    <2>3. \A j \in DOMAIN chan' : chan'[j].op = "Wave" => \E k \in DOMAIN chan : chan'[j] = chan[k]
      BY <2>1
    <2>4. Sorted'
      BY <1>b, <2>1, <2>2, <2>3, AsideKeepsOrder
    <2> QED
      BY <1>b, <2>1, <2>4 DEF NothingFails
  <1>8. ASSUME NEW x \in Exts, Drop(x) PROVE FALSE
    BY <1>8, <1>a DEF Drop
  <1> QED
    BY <1>1, <1>2, <1>3, <1>4, <1>5, <1>6, <1>7, <1>8 DEF Next, Task, Environment

-----------------------------------------------------------------------------
(* The stamps.  The transforms that are not yet in effect are the first     *)
(* calls of the channel, so the first wave finds them all.                  *)

\* The transforms in effect are the first of the lane's, the channel begins with the
\* others, and has no more of them.
TransformsAhead ==
    LET F == Installed(kind)
        k == Len(transforms)
    IN  /\ k <= Len(F)
        /\ Len(F) - k <= Len(chan)
        /\ \A i \in 1..k : transforms[i] = F[i]
        /\ \A i \in 1..(Len(F) - k) : chan[i] = TransformCall(F[k + i])
        /\ \A i \in 1..Len(chan) : i > Len(F) - k => chan[i].op # "Transform"

\* No transform has been applied to a wave that the task has not taken; only an outbound
\* lane, which has no transforms, takes one twice.
Unstamped(w) == fate[w] = "new" \/ InChan(w) => stamp[w] = <<>>

\* All of them have been to one that it has.
Stamps(w) == InQueue(w) \/ failed = w \/ fate[w] = "done" => stamp[w] = Installed(kind)

StampInv == TransformsAhead /\ \A w \in Waves : Unstamped(w) /\ Stamps(w)

\* What TransformsAhead says of a channel of n calls, its lane's transforms being F.
Ahead(F, t, c, n) ==
    /\ Len(t) <= Len(F)
    /\ Len(F) - Len(t) <= n
    /\ \A i \in 1..Len(t) : t[i] = F[i]
    /\ \A i \in 1..(Len(F) - Len(t)) : c[i] = TransformCall(F[Len(t) + i])
    /\ \A i \in 1..n : i > Len(F) - Len(t) => c[i].op # "Transform"

LEMMA AheadIs == TransformsAhead <=> Ahead(Installed(kind), transforms, chan, Len(chan))
  BY DEF TransformsAhead, Ahead

LEMMA InstalledType ==
    ASSUME TypeOK
    PROVE  /\ Installed(kind) \in Seq(Transforms) /\ Len(Installed(kind)) \in Nat
           /\ kind = "outbound" => Installed(kind) = <<>>
  BY FilterAssumption DEF Installed, TypeOK

\* A call that is no transform is posted behind them.
LEMMA AheadPosted ==
    ASSUME NEW F \in Seq(Transforms), NEW t \in Seq(Transforms), NEW c \in Seq(Calls),
           NEW e \in Calls, e.op # "Transform", Ahead(F, t, c, Len(c))
    PROVE  Ahead(F, t, Append(c, e), Len(Append(c, e)))
  <1>1. PICK n \in Nat, f \in Nat, k \in Nat : n = Len(c) /\ f = Len(F) /\ k = Len(t)
    OBVIOUS
  <1>2. PICK d \in Seq(Calls) : d = Append(c, e)
    BY AppendFacts
  <1>3. /\ Len(d) = n + 1 /\ d[n + 1] = e
        /\ \A i \in 1..n : d[i] = c[i]
    BY <1>1, <1>2, AppendElements
  <1>4. /\ k <= f /\ f - k <= n /\ \A i \in 1..k : t[i] = F[i]
        /\ \A i \in 1..(f - k) : c[i] = TransformCall(F[k + i])
        /\ \A i \in 1..n : i > f - k => c[i].op # "Transform"
    BY <1>1 DEF Ahead
  <1>5. f - k <= n + 1 /\ \A i \in 1..(f - k) : i \in 1..n
    BY <1>4
  <1>6. \A i \in 1..(f - k) : d[i] = TransformCall(F[k + i])
    BY <1>3, <1>4, <1>5
  <1>7. \A i \in 1..(n + 1) : i \in 1..n \/ i = n + 1
    OBVIOUS
  <1>8. \A i \in 1..(n + 1) : i > f - k => d[i].op # "Transform"
    BY <1>3, <1>4, <1>7
  <1>9. Ahead(F, t, d, Len(d))
    BY <1>1, <1>3, <1>4, <1>5, <1>6, <1>8 DEF Ahead
  <1> QED
    BY <1>2, <1>9

\* A call that is no transform is only taken when all transforms are in effect.
LEMMA AheadTaken ==
    ASSUME NEW F \in Seq(Transforms), NEW t \in Seq(Transforms), NEW c \in Seq(Calls),
           c # <<>>, Head(c).op # "Transform", Ahead(F, t, c, Len(c))
    PROVE  t = F /\ Ahead(F, t, Tail(c), Len(Tail(c)))
  <1>1. PICK n \in Nat, f \in Nat, k \in Nat : n = Len(c) /\ f = Len(F) /\ k = Len(t)
    OBVIOUS
  <1>2. PICK d \in Seq(Calls) : d = Tail(c)
    BY TailElements
  <1>3. /\ Len(d) = n - 1 /\ n > 0 /\ Head(c) = c[1]
        /\ \A i \in 1..(n - 1) : d[i] = c[i + 1]
    BY <1>1, <1>2, TailElements
  <1>4. /\ k <= f /\ f - k <= n /\ \A i \in 1..k : t[i] = F[i]
        /\ \A i \in 1..(f - k) : c[i] = TransformCall(F[k + i])
        /\ \A i \in 1..n : i > f - k => c[i].op # "Transform"
    BY <1>1 DEF Ahead
  <1>5. f = k
    <2>1. CASE f - k > 0
      <3>1. 1 \in 1..(f - k)
        BY <2>1
      <3>2. c[1] = TransformCall(F[k + 1])
        BY <1>4, <3>1
      <3>3. c[1].op = "Transform"
        BY <3>2 DEF TransformCall
      <3> QED
        BY <1>3, <3>3
    <2> QED
      BY <1>4, <2>1
  <1>6. t = F
    <2>1. Len(t) = Len(F) /\ \A i \in 1..Len(t) : t[i] = F[i]
      BY <1>1, <1>4, <1>5
    <2> QED
      BY <2>1, SeqEqual
  <1>7. \A i \in 1..(n - 1) : i + 1 \in 1..n /\ i + 1 > f - k
    BY <1>5
  <1>8. \A i \in 1..(n - 1) : d[i].op # "Transform"
    BY <1>3, <1>4, <1>7
  <1>9. f - k = 0 /\ 0 <= n - 1
    BY <1>3, <1>5
  <1>10. Ahead(F, t, d, Len(d))
    BY <1>1, <1>3, <1>4, <1>8, <1>9 DEF Ahead
  <1> QED
    BY <1>2, <1>6, <1>10

\* The next transform comes into effect.
LEMMA AheadGrows ==
    ASSUME NEW F \in Seq(Transforms), NEW t \in Seq(Transforms), NEW c \in Seq(Calls),
           c # <<>>, Head(c).op = "Transform", Head(c).arg \in Transforms, Ahead(F, t, c, Len(c))
    PROVE  Ahead(F, Append(t, Head(c).arg), Tail(c), Len(Tail(c)))
  <1>1. PICK n \in Nat, f \in Nat, k \in Nat : n = Len(c) /\ f = Len(F) /\ k = Len(t)
    OBVIOUS
  <1>2. PICK d \in Seq(Calls) : d = Tail(c)
    BY TailElements
  <1>3. /\ Len(d) = n - 1 /\ n > 0 /\ Head(c) = c[1]
        /\ \A i \in 1..(n - 1) : d[i] = c[i + 1]
    BY <1>1, <1>2, TailElements
  <1>4. /\ k <= f /\ f - k <= n /\ \A i \in 1..k : t[i] = F[i]
        /\ \A i \in 1..(f - k) : c[i] = TransformCall(F[k + i])
        /\ \A i \in 1..n : i > f - k => c[i].op # "Transform"
    BY <1>1 DEF Ahead
  <1>5. PICK u \in Seq(Transforms) : u = Append(t, Head(c).arg)
    BY AppendFacts
  <1>6. /\ Len(u) = k + 1 /\ u[k + 1] = Head(c).arg
        /\ \A i \in 1..k : u[i] = t[i]
    BY <1>1, <1>5, AppendElements
  <1>7. f - k > 0
    <2>1. 1 \in 1..n
      BY <1>3
    <2>2. ~(1 > f - k)
      BY <1>3, <1>4, <2>1
    <2> QED
      BY <2>2
  <1>8. u[k + 1] = F[k + 1]
    <2>1. 1 \in 1..(f - k)
      BY <1>7
    <2>2. c[1] = TransformCall(F[k + 1])
      BY <1>4, <2>1
    <2> QED
      BY <1>3, <1>6, <2>2 DEF TransformCall
  <1>9. \A i \in 1..(k + 1) : i \in 1..k \/ i = k + 1
    OBVIOUS
  <1>10. \A i \in 1..(k + 1) : u[i] = F[i]
    BY <1>4, <1>6, <1>8, <1>9
  <1>11. /\ k + 1 <= f /\ f - (k + 1) <= n - 1
         /\ \A i \in 1..(f - (k + 1)) : i \in 1..(n - 1) /\ i + 1 \in 1..(f - k) /\ k + (i + 1) = (k + 1) + i
         /\ \A i \in 1..(n - 1) : i > f - (k + 1) => i + 1 \in 1..n /\ i + 1 > f - k
    BY <1>4, <1>7
  <1>12. \A i \in 1..(f - (k + 1)) : d[i] = TransformCall(F[(k + 1) + i])
    BY <1>3, <1>4, <1>11
  <1>13. \A i \in 1..(n - 1) : i > f - (k + 1) => d[i].op # "Transform"
    BY <1>3, <1>4, <1>11
  <1>14. Ahead(F, u, d, Len(d))
    BY <1>1, <1>3, <1>6, <1>10, <1>11, <1>12, <1>13 DEF Ahead
  <1> QED
    BY <1>2, <1>5, <1>14

LEMMA InitStampInv == Init => StampInv
  <1> SUFFICES ASSUME Init PROVE StampInv
    OBVIOUS
  <1>1. PICK F \in Seq(Transforms) : F = Installed(kind)
    BY InitTypeOK, InstalledType
  <1>2. /\ transforms = <<>> /\ Len(transforms) = 0 /\ Len(F) \in Nat
        /\ chan = [i \in 1..Len(F) |-> TransformCall(F[i])]
    BY <1>1 DEF Init
  <1>3. PICK f \in Nat : f = Len(F)
    BY <1>2
  <1>4. Len(chan) = f /\ \A i \in 1..f : chan[i] = TransformCall(F[i])
    BY <1>2, <1>3
  <1>5. f - 0 = f /\ \A i \in 1..f : ~(i > f) /\ 0 + i = i
    OBVIOUS
  <1>6. Ahead(F, transforms, chan, Len(chan))
    BY <1>2, <1>3, <1>4, <1>5 DEF Ahead
  <1>7. TransformsAhead
    BY <1>1, <1>6, AheadIs
  <1>8. ASSUME NEW w \in Waves PROVE stamp[w] = <<>> /\ ~InQueue(w) /\ failed # w /\ fate[w] # "done"
    BY NameAssumption DEF Init, InQueue
  <1> QED
    BY <1>7, <1>8 DEF StampInv, Unstamped, Stamps

\* No step changes what transforms a lane has, and a wave is stamped where it is taken
\* from the channel, by all of them.
LEMMA NextStampInv == TypeOK /\ TypeOK' /\ Conserved /\ OrderInv /\ StampInv /\ [Next]_vars => StampInv'
  <1> SUFFICES ASSUME TypeOK, TypeOK', ConservedInLane, OrderInv, StampInv, [Next]_vars PROVE StampInv'
    BY DEF Conserved
  <1>a. kind' = kind
    BY DEF Next, Task, Environment, vars, laneVars, aside, RecvExt, RecvTransform, RecvWave,
           RecvResetExt, Deliver, DeliverFails, SendReset, Requeue, Send, SendTimesOut, RxMake,
           RxRegister, Read, Drop
  <1>b. PICK F \in Seq(Transforms) : /\ F = Installed(kind) /\ (Installed(kind))' = F
                                     /\ kind = "outbound" => F = <<>>
    BY <1>a, InstalledType DEF Installed
  <1>c. /\ \A w \in Waves : fate[w] = "live" <=> InChan(w) \/ InQueue(w) \/ failed = w
        /\ \A w \in Waves : ~(InChan(w) /\ InQueue(w))
    BY DEF ConservedInLane
  <1>d. /\ \A w \in Waves : fate[w] = "new" \/ InChan(w) => stamp[w] = <<>>
        /\ \A w \in Waves : InQueue(w) \/ failed = w \/ fate[w] = "done" => stamp[w] = F
        /\ Ahead(F, transforms, chan, Len(chan))
    BY <1>b, AheadIs DEF StampInv, Unstamped, Stamps
  <1>e. transforms \in Seq(Transforms) /\ transforms' \in Seq(Transforms) /\ chan \in Seq(Calls)
    BY DEF TypeOK
  <1>f. ASSUME Ahead(F, transforms', chan', Len(chan')),
               \A w \in Waves : fate'[w] = "new" \/ (InChan(w))' => stamp'[w] = <<>>,
               \A w \in Waves : (InQueue(w))' \/ failed' = w \/ fate'[w] = "done" => stamp'[w] = F
        PROVE  StampInv'
    <2>1. TransformsAhead'
      BY <1>b, <1>f DEF TransformsAhead, Ahead
    <2>2. \A w \in Waves : (Unstamped(w))' /\ (Stamps(w))'
      BY <1>b, <1>f DEF Unstamped, Stamps
    <2> QED
      BY <2>1, <2>2 DEF StampInv
  <1>1. CASE RecvExt \/ RecvResetExt
    <2>1. UNCHANGED <<queue, failed, fate, stamp, transforms>>
      BY <1>1 DEF RecvExt, RecvResetExt
    <2>2. PICK op \in {"Ext", "ResetExt"} : Take(op)
      BY <1>1 DEF RecvExt, RecvResetExt
    <2>3. chan # <<>> /\ chan' = Tail(chan) /\ Head(chan).op # "Transform"
      BY <2>2 DEF Take
    <2>4. Ahead(F, transforms', chan', Len(chan'))
      BY <1>d, <1>e, <2>1, <2>3, AheadTaken
    <2>5. \A w \in Waves : (InChan(w))' => InChan(w)
      BY <2>2, TakeChan
    <2>6. \A w \in Waves : (InQueue(w))' <=> InQueue(w)
      BY <2>1, SameQueue
    <2> QED
      BY <1>d, <1>f, <2>1, <2>4, <2>5, <2>6
  <1>2. CASE RecvTransform
    <2>1. /\ UNCHANGED <<queue, failed, fate, stamp>> /\ Take("Transform")
          /\ transforms' = Append(transforms, Head(chan).arg)
      BY <1>2 DEF RecvTransform
    <2>2. chan # <<>> /\ chan' = Tail(chan) /\ Head(chan).op = "Transform" /\ Head(chan) \in Calls
      BY <1>e, <2>1 DEF Take
    <2>3. Head(chan).arg \in Transforms
      BY <2>2, CallKinds
    <2>4. Ahead(F, transforms', chan', Len(chan'))
      BY <1>d, <1>e, <2>1, <2>2, <2>3, AheadGrows
    <2>5. \A w \in Waves : (InChan(w))' => InChan(w)
      BY <2>1, TakeChan
    <2>6. \A w \in Waves : (InQueue(w))' <=> InQueue(w)
      BY <2>1, SameQueue
    <2> QED
      BY <1>d, <1>f, <2>1, <2>4, <2>5, <2>6
  <1>3. CASE RecvWave
    <2>1. /\ Take("Wave") /\ UNCHANGED <<failed, transforms>>
          /\ chan # <<>> /\ chan' = Tail(chan) /\ Head(chan).op = "Wave" /\ Head(chan) \in Calls
      BY <1>3, <1>e DEF RecvWave, Take
    <2>2. PICK v \in Waves : v = Head(chan).arg /\ Head(chan) = WaveCall(v)
      BY <2>1, CallKinds
    <2>3. InChan(v)
      BY <1>e, <2>1, <2>2, TailElements DEF InChan
    <2>4. ~InQueue(v) /\ fate[v] = "live" /\ stamp[v] = <<>>
      BY <1>c, <1>d, <2>3
    <2>5. transforms = F /\ Ahead(F, transforms', chan', Len(chan'))
      BY <1>d, <1>e, <2>1, AheadTaken
    <2>6. stamp'[v] = F /\ \A w \in Waves : w # v => stamp'[w] = stamp[w]
      <3>1. stamp' = [stamp EXCEPT ![v] = stamp[v] \o transforms]
        BY <1>3, <2>2 DEF RecvWave, Stamped
      <3>2. <<>> \o F = F
        OBVIOUS
      <3>3. stamp \in [Waves -> Seq(Transforms)]
        BY DEF TypeOK
      <3> QED
        BY <2>4, <2>5, <3>1, <3>2, <3>3
    <2>7. queue' = Append(Trim(queue), v)
      BY <1>3, <2>2 DEF RecvWave
    <2>8. \A w \in Waves : (InQueue(w))' <=> (InQueue(w) /\ ~Evicts(w)) \/ w = v
      BY <2>4, <2>7, PushQueue
    <2>9. \A w \in Waves : (InChan(w))' <=> InChan(w) /\ w # v
      <3>1. \A w \in Waves : WaveCall(w) = Head(chan) <=> w = v
        BY <2>2 DEF WaveCall
      <3> QED
        BY <2>1, <3>1, TakeChan
    <2>10. \A w \in Waves : fate'[w] \in {fate[w], "evicted"}
      BY <1>3 DEF RecvWave
    <2> QED
      BY <1>c, <1>d, <1>f, <2>1, <2>4, <2>5, <2>6, <2>8, <2>9, <2>10
  <1>4. CASE Deliver
    <2>1. /\ queue # <<>> /\ queue' = Tail(queue) /\ UNCHANGED <<chan, failed, stamp, transforms>>
      BY <1>4 DEF Deliver, TypeOK
    <2>2. PICK v \in Waves : v = Head(queue) /\ InQueue(v)
      BY <2>1, TailQueue
    <2>3. \A w \in Waves : fate'[w] = IF w = v THEN "done" ELSE fate[w]
      BY <1>4, <2>2 DEF Deliver, TypeOK
    <2>4. \A w \in Waves : (InQueue(w))' => InQueue(w)
      BY <2>1, TailQueue
    <2>5. \A w \in Waves : (InChan(w))' <=> InChan(w)
      BY <2>1, SameChan
    <2> QED
      BY <1>d, <1>f, <2>1, <2>2, <2>3, <2>4, <2>5
  <1>5. CASE DeliverFails
    <2>1. /\ queue # <<>> /\ queue' = Tail(queue) /\ failed' = Head(queue)
          /\ UNCHANGED <<chan, fate, stamp, transforms>>
      BY <1>5 DEF DeliverFails, TypeOK
    <2>2. PICK v \in Waves : v = Head(queue) /\ InQueue(v)
      BY <2>1, TailQueue
    <2>4. \A w \in Waves : (InQueue(w))' => InQueue(w)
      BY <2>1, TailQueue
    <2>5. \A w \in Waves : (InChan(w))' <=> InChan(w)
      BY <2>1, SameChan
    <2> QED
      BY <1>d, <1>f, <2>1, <2>2, <2>4, <2>5
  <1>6. CASE SendReset
    <2>1. /\ UNCHANGED <<queue, failed, fate, stamp, transforms>>
          /\ chan' = Append(chan, ResetExt)
      BY <1>6 DEF SendReset
    <2>2. ResetExt \in Calls /\ ResetExt.op # "Transform" /\ ResetExt.op # "Wave"
      BY DEF Calls, ResetExt
    <2>3. Ahead(F, transforms', chan', Len(chan'))
      BY <1>d, <1>e, <2>1, <2>2, AheadPosted
    <2>4. \A w \in Waves : (InChan(w))' => InChan(w)
      <3>1. \A w \in Waves : WaveCall(w) # ResetExt
        BY DEF WaveCall, ResetExt
      <3> QED
        BY <2>1, <2>2, <3>1, PostChan
    <2>5. \A w \in Waves : (InQueue(w))' <=> InQueue(w)
      BY <2>1, SameQueue
    <2> QED
      BY <1>d, <1>f, <2>1, <2>3, <2>4, <2>5
  <1>7. CASE Requeue
    <2>1. /\ pc = "requeue" /\ failed' = None /\ UNCHANGED <<queue, stamp, transforms>>
      BY <1>7 DEF Requeue
    <2>2. PICK v \in Waves : v = failed
      BY <2>1 DEF TypeOK
    <2>3. F = <<>>
      BY <1>b, <2>1 DEF OrderInv, NothingFails, TypeOK
    <2>4. stamp[v] = <<>> /\ ~InChan(v)
      <3>1. stamp[v] = <<>>
        BY <1>d, <2>2, <2>3
      <3>2. v # None
        BY NameAssumption
      <3>3. ~InChan(v)
        BY <2>2, <3>2 DEF ConservedInLane, InChan
      <3> QED
        BY <3>1, <3>3
    <2>5. \A w \in Waves : (InQueue(w))' <=> InQueue(w)
      BY <2>1, SameQueue
    <2>6. \A w \in Waves : failed' # w
      BY <2>1, NameAssumption
    <2>7. CASE chan' = Append(chan, WaveCall(v)) /\ fate' = fate
      <3>1. WaveCall(v) \in Calls /\ WaveCall(v).op # "Transform" /\ WaveCall(v).arg = v
        BY DEF Calls, WaveCall
      <3>2. Ahead(F, transforms', chan', Len(chan'))
        BY <1>d, <1>e, <2>1, <2>7, <3>1, AheadPosted
      <3>3. \A w \in Waves : (InChan(w))' => InChan(w) \/ w = v
        <4>1. \A w \in Waves : WaveCall(w) = WaveCall(v) => w = v
          BY DEF WaveCall
        <4> QED
          BY <2>4, <2>7, <3>1, <4>1, PostChan
      <3> QED
        BY <1>d, <1>f, <2>1, <2>4, <2>5, <2>6, <2>7, <3>2, <3>3
    <2>8. CASE chan' = chan /\ fate' = [fate EXCEPT ![v] = "lost"]
      <3>1. \A w \in Waves : (InChan(w))' <=> InChan(w)
        BY <2>8, SameChan
      <3>2. \A w \in Waves : fate'[w] \in {fate[w], "lost"}
        BY <2>8 DEF TypeOK
      <3> QED
        BY <1>d, <1>f, <2>1, <2>5, <2>6, <2>8, <3>1, <3>2
    <2> QED
      BY <1>7, <2>2, <2>7, <2>8 DEF Requeue
  <1>8. ASSUME NEW v \in Waves, Send(v) PROVE StampInv'
    <2>1. /\ UNCHANGED <<queue, failed, stamp, transforms>> /\ fate[v] = "new"
          /\ chan' = Append(chan, WaveCall(v))
          /\ \A w \in Waves : fate'[w] = IF w = v THEN "live" ELSE fate[w]
      BY <1>8 DEF Send, laneVars, TypeOK
    <2>2. WaveCall(v) \in Calls /\ WaveCall(v).op # "Transform" /\ WaveCall(v).arg = v
      BY DEF Calls, WaveCall
    <2>3. Ahead(F, transforms', chan', Len(chan'))
      BY <1>d, <1>e, <2>1, <2>2, AheadPosted
    <2>4. \A w \in Waves : (InChan(w))' => InChan(w) \/ w = v
      <3>1. \A w \in Waves : WaveCall(w) = WaveCall(v) => w = v
        BY DEF WaveCall
      <3>2. ~InChan(v)
        BY <1>c, <2>1
      <3> QED
        BY <2>1, <2>2, <3>1, <3>2, PostChan
    <2>5. \A w \in Waves : (InQueue(w))' <=> InQueue(w)
      BY <2>1, SameQueue
    <2> QED
      BY <1>d, <1>f, <2>1, <2>3, <2>4, <2>5
  <1>9. ASSUME NEW x \in Exts, RxRegister(x) PROVE StampInv'
    <2>1. /\ UNCHANGED <<queue, failed, stamp, transforms, fate>>
          /\ chan' = Append(chan, ExtCall(x))
      BY <1>9 DEF RxRegister, laneVars
    <2>2. ExtCall(x) \in Calls /\ ExtCall(x).op # "Transform" /\ ExtCall(x).op # "Wave"
      BY DEF Calls, ExtCall
    <2>3. Ahead(F, transforms', chan', Len(chan'))
      BY <1>d, <1>e, <2>1, <2>2, AheadPosted
    <2>4. \A w \in Waves : (InChan(w))' => InChan(w)
      <3>1. \A w \in Waves : WaveCall(w) # ExtCall(x)
        BY DEF WaveCall, ExtCall
      <3> QED
        BY <2>1, <2>2, <3>1, PostChan
    <2>5. \A w \in Waves : (InQueue(w))' <=> InQueue(w)
      BY <2>1, SameQueue
    <2> QED
      BY <1>d, <1>f, <2>1, <2>3, <2>4, <2>5
  <1>10. CASE \/ \E w \in Waves : SendTimesOut(w)
              \/ \E x \in Exts : RxMake(x) \/ Read(x) \/ Drop(x)
              \/ UNCHANGED vars
    <2>1. /\ UNCHANGED <<chan, queue, failed, stamp, transforms>>
          /\ \A w \in Waves : fate'[w] \in {fate[w], "rejected", "lost"}
      <3>1. ASSUME NEW v \in Waves, SendTimesOut(v)
            PROVE  /\ UNCHANGED <<chan, queue, failed, stamp, transforms>>
                   /\ \A w \in Waves : fate'[w] \in {fate[w], "rejected"}
        BY <3>1 DEF SendTimesOut, laneVars, TypeOK
      <3>2. ASSUME NEW x \in Exts, RxMake(x) \/ Read(x)
            PROVE  UNCHANGED <<chan, queue, failed, stamp, transforms, fate>>
        BY <3>2 DEF RxMake, Read, laneVars
      <3>3. ASSUME NEW x \in Exts, Drop(x)
            PROVE  /\ UNCHANGED <<chan, queue, failed, stamp, transforms>>
                   /\ \A w \in Waves : fate'[w] \in {fate[w], "lost"}
        BY <3>3 DEF Drop, laneVars
      <3>4. CASE UNCHANGED vars
        BY <3>4 DEF vars, laneVars
      <3> QED
        BY <1>10, <3>1, <3>2, <3>3, <3>4
    <2>2. /\ \A w \in Waves : (InQueue(w))' <=> InQueue(w)
          /\ \A w \in Waves : (InChan(w))' <=> InChan(w)
      BY <2>1, SameQueue, SameChan
    <2> QED
      BY <1>d, <1>f, <2>1, <2>2
  <1> QED
    BY <1>1, <1>2, <1>3, <1>4, <1>5, <1>6, <1>7, <1>8, <1>9, <1>10 DEF Next, Task, Environment

\* An inbound lane hands its waves over in the order in which it accepted them: what
\* was accepted before a wave that the interchange was handed is not in the lane any more.
\* And every lane hands a wave over with all the transforms of its lane, each applied once.
THEOREM HandsOverInOrder == Spec => []HandsOver
  <1>1. TypeOK /\ OrderInv => HandedOverInOrder
    <2> SUFFICES ASSUME TypeOK, kind = "inbound", DoneFirst,
                        NEW i \in DOMAIN order, NEW j \in DOMAIN order,
                        i < j, fate[order[j]] = "done"
                 PROVE  fate[order[i]] # "live"
      BY DEF OrderInv, Sorted, HandedOverInOrder
    <2>1. order[i] \in Waves /\ order[j] \in Waves
      BY DEF TypeOK
    <2>2. Before(order[i], order[j])
      BY DEF Before
    <2> QED
      BY <2>1, <2>2 DEF DoneFirst
  <1>2. StampInv => HandedOverStamped
    BY DEF StampInv, Stamps, HandedOverStamped
  <1>3. TypeOK /\ OrderInv /\ StampInv => HandsOver
    BY <1>1, <1>2 DEF HandsOver
  <1> QED
    BY <1>3, InitOrderInv, NextOrderInv, InitStampInv, NextStampInv, TypeCorrect, WavesConserved,
       PTL DEF Spec

-----------------------------------------------------------------------------
(* The client's end.                                                       *)

\* What the peer sends, and the types of what the proofs speak about.
Messages == [link : Links, n : Nat, kind : FirstKinds \cup {"wave"}]
Orders == UserWaves \cup {CloseWave, ResetWave}

SentTypes ==
    /\ toPeer \in [Links -> Seq(UserWaves)]
    /\ out \in Seq(Orders)
    /\ sent \in 0..Outgoing
    /\ lost \subseteq UserWaves

LinkTypes ==
    /\ given \in SituationType
    /\ made \in 0..MaxLinks
    /\ endpoint \in {0, made}
    /\ at \in {"pending", "connect", "create", "ready", "relay", "closing", "fatal", "ended"}
    /\ at \in {"ready", "relay", "closing"} => endpoint # 0

HeardTypes ==
    /\ fromPeer \in [Links -> Seq(Messages)]
    /\ peerSent \in [Links -> Nat]
    /\ toClient \in Seq(Messages)
    /\ heard \in Seq(Messages)
    /\ hear \in {"greet", "run", "ended"}

\* What the bounds of a client are.
LEMMA Bounds ==
    /\ Outgoing \in Nat /\ MaxLinks \in Nat /\ MaxLinks > 0
    /\ UserWaves = 1..Outgoing /\ Links = 1..MaxLinks /\ Stages = 1..MaxLinks + 1
    /\ CloseWave \notin UserWaves /\ ResetWave \notin UserWaves /\ UserWaves \subseteq Nat
  <1>1. Outgoing \in Nat /\ MaxLinks \in Nat \ {0}
    BY ClientAssumption
  <1> QED
    BY <1>1 DEF UserWaves, Links, Stages, CloseWave, ResetWave

\* The first of a queue, and what is behind it.
LEMMA TakeFirst ==
    ASSUME NEW S, NEW q \in Seq(S), q # <<>>
    PROVE  /\ Head(q) \in S /\ Tail(q) \in Seq(S)
           /\ Len(q) \in Nat \ {0} /\ DOMAIN q = 1..Len(q) /\ Head(q) = q[1]
           /\ Len(Tail(q)) = Len(q) - 1 /\ DOMAIN Tail(q) = 1..(Len(q) - 1)
           /\ \A i \in 1..(Len(q) - 1) : Tail(q)[i] = q[i + 1]
  OBVIOUS

\* A queue and one more behind it.
LEMMA PutLast ==
    ASSUME NEW S, NEW q \in Seq(S), NEW e \in S
    PROVE  /\ Append(q, e) \in Seq(S) /\ Append(q, e) # <<>>
           /\ Len(q) \in Nat /\ DOMAIN q = 1..Len(q)
           /\ Len(Append(q, e)) = Len(q) + 1 /\ DOMAIN Append(q, e) = 1..(Len(q) + 1)
           /\ \A i \in 1..Len(q) : Append(q, e)[i] = q[i]
           /\ Append(q, e)[Len(q) + 1] = e
  OBVIOUS

LEMMA InitLinkTypes == ClientInit => LinkTypes
  BY ClientAssumption, Bounds DEF ClientInit, LinkTypes

LEMMA NextLinkTypes == LinkTypes /\ [ClientNext]_clientVars => LinkTypes'
  <1> SUFFICES ASSUME LinkTypes, [ClientNext]_clientVars PROVE LinkTypes'
    OBVIOUS
  <1>1. CASE Create
    <2>1. made' \in 1..MaxLinks /\ endpoint' = made' /\ at' = "ready" /\ given' = given
      <3>1. CASE made < MaxLinks
        BY <1>1, <3>1, Bounds DEF Create, LinkTypes
      <3>2. CASE ~(made < MaxLinks)
        BY <1>1, <3>2, Bounds DEF Create, LinkTypes
      <3> QED
        BY <3>1, <3>2
    <2> QED
      BY <2>1, Bounds DEF LinkTypes
  <1>2. CASE UNCHANGED <<given, at, endpoint, made>>
    BY <1>2 DEF LinkTypes
  <1>3. CASE Begin \/ Connecting \/ Ready \/ EndFatal
    BY <1>3 DEF Begin, Connecting, Ready, EndFatal, LetGo, linkVars, LinkTypes
  <1>4. CASE Reset \/ Close \/ TellClosed \/ ToPeer \/ NoMoreUsers \/ NoMorePeer
    BY <1>4 DEF Reset, Close, TellClosed, ToPeer, NoMoreUsers, NoMorePeer, LetGo, linkVars, LinkTypes
  <1>5. CASE FromPeer \/ RelayStatus \/ HearFirst \/ Hear \/ HearEnd
    BY <1>5, <1>2 DEF FromPeer, RelayStatus, HearFirst, Hear, HearEnd, linkVars
  <1>6. CASE Others
    BY <1>6, <1>2 DEF Others, Route, Ask, Leave, Subscribe, PeerSends, PeerLeaves, linkVars
  <1>7. CASE UNCHANGED clientVars
    BY <1>7, <1>2 DEF clientVars, linkVars
  <1> QED
    BY <1>1, <1>3, <1>4, <1>5, <1>6, <1>7 DEF ClientNext, Runner

-----------------------------------------------------------------------------
(* What the users send.                                                    *)

Up(q) == \A i, j \in DOMAIN q : i < j /\ {q[i], q[j]} \subseteq UserWaves => q[i] < q[j]
OfUsers(q) == UserWaves \cap Range(q)

\* Each stage is in order, the stages are one after the other, connections to come have
\* had no wave, and every wave sent is in a stage or lost.
SentInv ==
    /\ \A l \in Stages : Up(Stage(l))
    /\ \A k, l \in Stages : k < l => \A v \in OfUsers(Stage(k)), w \in OfUsers(Stage(l)) : v < w
    /\ \A l \in Links : l > made => toPeer[l] = <<>>
    /\ \A w \in UserWaves : (\E l \in Stages : w \in OfUsers(Stage(l))) <=> (w \in 1..sent /\ w \notin lost)
    /\ lost \subseteq 1..sent

\* Taking the first of a queue leaves it in order, behind that one.
LEMMA UpTail ==
    ASSUME NEW q \in Seq(Orders), q # <<>>, Up(q)
    PROVE  /\ Up(Tail(q))
           /\ Range(q) = {Head(q)} \cup Range(Tail(q))
           /\ Head(q) \in UserWaves => \A w \in OfUsers(Tail(q)) : Head(q) < w
  <1> DEFINE t == Tail(q)
  <1>1. PICK n \in Nat \ {0} : n = Len(q)
    BY TakeFirst
  <1>2. /\ DOMAIN q = 1..n /\ Head(q) = q[1] /\ DOMAIN t = 1..(n - 1)
        /\ \A i \in 1..(n - 1) : t[i] = q[i + 1]
    BY <1>1, TakeFirst
  <1> HIDE DEF t
  <1>3. \A i \in 1..(n - 1) : i + 1 \in 1..n /\ 1 < i + 1
    BY <1>1
  <1>4. Up(t)
    <2> SUFFICES ASSUME NEW i \in 1..(n - 1), NEW j \in 1..(n - 1), i < j, {t[i], t[j]} \subseteq UserWaves
                 PROVE  t[i] < t[j]
      BY <1>2 DEF Up
    <2>1. i + 1 < j + 1 /\ t[i] = q[i + 1] /\ t[j] = q[j + 1]
      BY <1>2
    <2> QED
      BY <1>2, <1>3, <2>1 DEF Up
  <1>5. Range(q) = {Head(q)} \cup Range(t)
    <2>1. \A i \in 1..n : i = 1 \/ (i - 1 \in 1..(n - 1) /\ i - 1 + 1 = i)
      BY <1>1
    <2>2. 1 \in 1..n
      BY <1>1
    <2>3. ASSUME NEW i \in 1..n PROVE q[i] \in {Head(q)} \cup Range(t)
      <3>1. CASE i = 1
        BY <1>2, <3>1
      <3>2. CASE i # 1
        <4>1. i - 1 \in 1..(n - 1) /\ t[i - 1] = q[i]
          BY <1>2, <2>1, <3>2
        <4> QED
          BY <1>2, <4>1 DEF Range
      <3> QED
        BY <3>1, <3>2
    <2>4. \A i \in 1..(n - 1) : t[i] \in Range(q)
      BY <1>2, <1>3 DEF Range
    <2>5. Head(q) \in Range(q)
      BY <1>2, <2>2 DEF Range
    <2> QED
      BY <1>2, <2>3, <2>4, <2>5 DEF Range
  <1>6. ASSUME Head(q) \in UserWaves, NEW w \in OfUsers(t) PROVE Head(q) < w
    <2>1. PICK i \in 1..(n - 1) : w = t[i] /\ w \in UserWaves
      BY <1>2, <1>6 DEF OfUsers, Range
    <2>2. w = q[i + 1] /\ 1 \in 1..n
      BY <1>1, <1>2, <2>1
    <2> QED
      BY <1>2, <1>3, <1>6, <2>1, <2>2 DEF Up
  <1> QED
    BY <1>4, <1>5, <1>6 DEF t

\* Putting one behind a queue leaves it in order if that one is later than all in it.
LEMMA UpAppend ==
    ASSUME NEW q \in Seq(Orders), NEW e \in Orders, Up(q),
           e \in UserWaves => \A v \in OfUsers(q) : v < e
    PROVE  Up(Append(q, e)) /\ Range(Append(q, e)) = Range(q) \cup {e}
  <1> DEFINE r == Append(q, e)
  <1>1. PICK n \in Nat : n = Len(q)
    BY PutLast
  <1>2. /\ DOMAIN q = 1..n /\ DOMAIN r = 1..(n + 1) /\ r[n + 1] = e
        /\ \A i \in 1..n : r[i] = q[i]
    BY <1>1, PutLast
  <1> HIDE DEF r
  <1>3. \A i \in 1..(n + 1) : i \in 1..n \/ i = n + 1
    BY <1>1
  <1>4. Up(r)
    <2> SUFFICES ASSUME NEW i \in 1..(n + 1), NEW j \in 1..(n + 1), i < j, {r[i], r[j]} \subseteq UserWaves
                 PROVE  r[i] < r[j]
      BY <1>2 DEF Up
    <2>1. i \in 1..n
      BY <1>1
    <2>2. r[i] = q[i] /\ q[i] \in OfUsers(q)
      BY <1>2, <2>1 DEF OfUsers, Range
    <2>3. CASE j \in 1..n
      BY <1>2, <2>1, <2>2, <2>3 DEF Up
    <2>4. CASE j = n + 1
      BY <1>2, <2>2, <2>4
    <2> QED
      BY <1>3, <2>3, <2>4
  <1>5. Range(r) = Range(q) \cup {e}
    <2>1. n + 1 \in 1..(n + 1) /\ 1..n \subseteq 1..(n + 1)
      BY <1>1
    <2>2. \A i \in 1..(n + 1) : r[i] \in Range(q) \cup {e}
      BY <1>2, <1>3 DEF Range
    <2>3. \A i \in 1..n : q[i] \in Range(r)
      BY <1>2, <2>1 DEF Range
    <2>4. e \in Range(r)
      BY <1>2, <2>1 DEF Range
    <2> QED
      BY <1>2, <2>2, <2>3, <2>4 DEF Range
  <1> QED
    BY <1>4, <1>5 DEF r

\* What the stages are.
LEMMA StageFacts ==
    ASSUME SentTypes
    PROVE  /\ MaxLinks + 1 \in Stages /\ Links \subseteq Stages
           /\ \A l \in Stages : l \in Links \/ l = MaxLinks + 1
           /\ \A l \in Links : l < MaxLinks + 1 /\ l # MaxLinks + 1
           /\ \A l \in Stages : Stage(l) \in Seq(Orders)
           /\ \A l \in Links : Stage(l) = toPeer[l]
           /\ Stage(MaxLinks + 1) = out
  <1>1. /\ MaxLinks + 1 \in Stages /\ Links \subseteq Stages
        /\ \A l \in Stages : l \in Links \/ l = MaxLinks + 1
        /\ \A l \in Links : l < MaxLinks + 1 /\ l # MaxLinks + 1
    BY Bounds
  <1>2. \A l \in Links : Stage(l) = toPeer[l]
    BY DEF Stage
  <1>3. Stage(MaxLinks + 1) = out
    BY <1>1 DEF Stage
  <1>4. ASSUME NEW l \in Stages PROVE Stage(l) \in Seq(Orders)
    <2>1. \A q \in Seq(UserWaves) : q \in Seq(Orders)
      BY DEF Orders
    <2> QED
      BY <1>1, <1>2, <1>3, <2>1 DEF SentTypes
  <1> QED
    BY <1>1, <1>2, <1>3, <1>4

LEMMA InitSent == ClientInit => SentTypes /\ SentInv
  <1> SUFFICES ASSUME ClientInit PROVE SentTypes /\ SentInv
    OBVIOUS
  <1>1. SentTypes
    BY Bounds DEF ClientInit, SentTypes
  <1>2. \A l \in Stages : Stage(l) = <<>>
    BY DEF ClientInit, Stage
  <1>3. OfUsers(<<>>) = {} /\ Up(<<>>)
    BY DEF OfUsers, Up, Range
  <1>4. 1..0 = {}
    OBVIOUS
  <1> QED
    BY <1>1, <1>2, <1>3, <1>4 DEF ClientInit, SentInv

\* A step that sends nothing and takes nothing.
LEMMA SentStays ==
    ASSUME LinkTypes, SentTypes, SentInv, UNCHANGED <<toPeer, out, sent, lost>>, made' \in Nat, made' >= made
    PROVE  SentTypes' /\ SentInv'
  <1>1. SentTypes'
    BY DEF SentTypes
  <1>2. \A l : Stage(l)' = Stage(l)
    BY DEF Stage
  <1>3. \A l \in Links : l > made' => l > made
    BY Bounds DEF LinkTypes
  <1>4. \A l \in Links : l > made' => toPeer'[l] = <<>>
    BY <1>3 DEF SentInv
  <1> QED
    BY <1>1, <1>2, <1>4 DEF SentInv

\* Waves leave the users' queue and are lost.
LEMMA SentShrinks ==
    ASSUME LinkTypes, SentTypes, SentInv, UNCHANGED <<toPeer, made, sent>>,
           out' \in Seq(Orders), Up(out)', OfUsers(out)' \subseteq OfUsers(out),
           lost' = lost \cup (OfUsers(out) \ OfUsers(out)')
    PROVE  SentTypes' /\ SentInv'
  <1>f. /\ MaxLinks + 1 \in Stages /\ Links \subseteq Stages
        /\ \A l \in Stages : l \in Links \/ l = MaxLinks + 1
        /\ \A l \in Links : l < MaxLinks + 1 /\ l # MaxLinks + 1
        /\ Stage(MaxLinks + 1) = out
    BY StageFacts
  <1>1. SentTypes'
    BY DEF SentTypes, OfUsers
  <1>2. (\A l \in Links : Stage(l)' = Stage(l)) /\ Stage(MaxLinks + 1)' = out'
    BY <1>f DEF Stage
  <1>3. \A l \in Stages : Up(Stage(l))'
    BY <1>f, <1>2 DEF SentInv
  <1>4. \A l \in Stages : OfUsers(Stage(l))' \subseteq OfUsers(Stage(l))
    BY <1>f, <1>2
  <1>5. \A k, l \in Stages : k < l => \A v \in OfUsers(Stage(k))', w \in OfUsers(Stage(l))' : v < w
    BY <1>4 DEF SentInv
  <1>6. \A l \in Links : \A v \in OfUsers(Stage(l)) : v \notin OfUsers(out)
    <2> SUFFICES ASSUME NEW l \in Links, NEW v \in OfUsers(Stage(l)), v \in OfUsers(out) PROVE FALSE
      OBVIOUS
    <2>1. v < v /\ v \in Nat
      BY <1>f, Bounds DEF SentInv, OfUsers
    <2> QED
      BY <2>1
  <1>7. \A w \in UserWaves : (\E l \in Stages : w \in OfUsers(Stage(l))') <=> (w \in 1..sent' /\ w \notin lost')
    <2> SUFFICES ASSUME NEW w \in UserWaves
                 PROVE  (\E l \in Stages : w \in OfUsers(Stage(l))') <=> (w \in 1..sent' /\ w \notin lost')
      OBVIOUS
    <2>1. (w \in 1..sent /\ w \notin lost) <=> ((\E l \in Links : w \in OfUsers(Stage(l))) \/ w \in OfUsers(out))
      <3>1. (\E l \in Stages : w \in OfUsers(Stage(l))) <=> (w \in 1..sent /\ w \notin lost)
        BY DEF SentInv
      <3> QED
        BY <1>f, <3>1
    <2>2. (\E l \in Stages : w \in OfUsers(Stage(l))')
             <=> ((\E l \in Links : w \in OfUsers(Stage(l))) \/ w \in OfUsers(out)')
      BY <1>f, <1>2
    <2>3. w \in OfUsers(out) => ~ \E l \in Links : w \in OfUsers(Stage(l))
      BY <1>6
    <2>4. w \in lost' <=> (w \in lost \/ (w \in OfUsers(out) /\ w \notin OfUsers(out)'))
      OBVIOUS
    <2>5. w \in OfUsers(out)' => w \in OfUsers(out)
      OBVIOUS
    <2> QED
      BY <2>1, <2>2, <2>3, <2>4, <2>5
  <1>8. lost' \subseteq 1..sent'
    <2>1. OfUsers(out) \subseteq 1..sent
      BY <1>f DEF SentInv, OfUsers
    <2> QED
      BY <2>1 DEF SentInv
  <1> QED
    BY <1>1, <1>3, <1>5, <1>7, <1>8 DEF SentInv

\* A user's wave, or an order to the runner, comes behind all others.
LEMMA SentGrows ==
    ASSUME LinkTypes, SentTypes, SentInv, UNCHANGED <<toPeer, made, lost>>,
           NEW e \in Orders, out' = Append(out, e),
           IF e \in UserWaves THEN e = sent + 1 /\ sent' = sent + 1 ELSE sent' = sent
    PROVE  SentTypes' /\ SentInv'
  <1>f. /\ MaxLinks + 1 \in Stages /\ Links \subseteq Stages
        /\ \A l \in Stages : l \in Links \/ l = MaxLinks + 1
        /\ \A l \in Links : l < MaxLinks + 1 /\ l # MaxLinks + 1
        /\ Stage(MaxLinks + 1) = out
    BY StageFacts
  <1>t. out \in Seq(Orders) /\ sent \in Nat /\ sent <= Outgoing /\ lost \subseteq 1..sent
    BY Bounds DEF SentTypes, SentInv
  <1>1. SentTypes'
    <2>1. out' \in Seq(Orders)
      BY <1>t
    <2>2. sent' \in 0..Outgoing
      BY <1>t, Bounds DEF SentTypes
    <2> QED
      BY <2>1, <2>2 DEF SentTypes
  <1>2. (\A l \in Links : Stage(l)' = Stage(l)) /\ Stage(MaxLinks + 1)' = out'
    BY <1>f DEF Stage
  <1>3. \A l \in Stages : \A v \in OfUsers(Stage(l)) : v \in 1..sent /\ v \in UserWaves
    BY DEF SentInv, OfUsers
  <1>4. \A v \in 1..sent : v < sent + 1
    BY <1>t
  <1>5. Up(out) /\ (e \in UserWaves => \A v \in OfUsers(out) : v < e)
    BY <1>f, <1>3, <1>4 DEF SentInv
  <1>6. Up(out') /\ Range(out') = Range(out) \cup {e}
    BY <1>t, <1>5, UpAppend
  <1>7. \A l \in Stages : Up(Stage(l))'
    BY <1>f, <1>2, <1>6 DEF SentInv
  <1>8. OfUsers(out)' = OfUsers(out) \cup ({e} \cap UserWaves)
    BY <1>6 DEF OfUsers
  <1>9. \A k, l \in Stages : k < l => \A v \in OfUsers(Stage(k))', w \in OfUsers(Stage(l))' : v < w
    <2> SUFFICES ASSUME NEW k \in Stages, NEW l \in Stages, k < l,
                        NEW v \in OfUsers(Stage(k))', NEW w \in OfUsers(Stage(l))'
                 PROVE  v < w
      OBVIOUS
    <2>1. k \in Links
      BY <1>f, Bounds
    <2>2. v \in OfUsers(Stage(k))
      BY <1>2, <2>1
    <2>3. w \in OfUsers(Stage(l)) \/ (w = e /\ e \in UserWaves)
      BY <1>f, <1>2, <1>8
    <2>4. CASE w \in OfUsers(Stage(l))
      BY <2>2, <2>4 DEF SentInv
    <2>5. CASE w = e /\ e \in UserWaves
      BY <1>3, <1>4, <2>2, <2>5
    <2> QED
      BY <2>3, <2>4, <2>5
  <1>10. \A w \in UserWaves : (\E l \in Stages : w \in OfUsers(Stage(l))') <=> (w \in 1..sent' /\ w \notin lost')
    <2> SUFFICES ASSUME NEW w \in UserWaves
                 PROVE  (\E l \in Stages : w \in OfUsers(Stage(l))') <=> (w \in 1..sent' /\ w \notin lost')
      OBVIOUS
    <2>1. (\E l \in Stages : w \in OfUsers(Stage(l))) <=> (w \in 1..sent /\ w \notin lost)
      BY DEF SentInv
    <2>2. (\E l \in Stages : w \in OfUsers(Stage(l))')
             <=> ((\E l \in Stages : w \in OfUsers(Stage(l))) \/ w = e)
      BY <1>f, <1>2, <1>8
    <2>3. w \in 1..sent' <=> (w \in 1..sent \/ w = e)
      <3>1. CASE e \in UserWaves
        BY <1>t, <3>1, Bounds
      <3>2. CASE e \notin UserWaves
        BY <3>2
      <3> QED
        BY <3>1, <3>2
    <2>4. w = e => w \notin lost
      BY <1>t
    <2> QED
      BY <2>1, <2>2, <2>3, <2>4
  <1>11. lost' \subseteq 1..sent'
    BY <1>t
  <1>12. \A l \in Links : l > made' => toPeer'[l] = <<>>
    BY DEF SentInv
  <1> QED
    BY <1>1, <1>7, <1>9, <1>10, <1>11, <1>12 DEF SentInv

\* The first of the users' queue is a wave for the peer: it goes into the endpoint.
LEMMA SentMoves ==
    ASSUME LinkTypes, SentTypes, SentInv, UNCHANGED <<made, sent, lost>>,
           at = "relay", out # <<>>, Head(out) \in UserWaves, out' = Tail(out),
           toPeer' = [toPeer EXCEPT ![endpoint] = Append(@, Head(out))]
    PROVE  SentTypes' /\ SentInv'
  <1> DEFINE w0 == Head(out)
  <1>f. /\ MaxLinks + 1 \in Stages /\ Links \subseteq Stages
        /\ \A l \in Stages : l \in Links \/ l = MaxLinks + 1
        /\ \A l \in Links : l < MaxLinks + 1 /\ l # MaxLinks + 1
        /\ Stage(MaxLinks + 1) = out
        /\ \A l \in Links : Stage(l) = toPeer[l]
    BY StageFacts
  <1>e. PICK ep \in Links : ep = endpoint /\ ep = made
    BY Bounds DEF LinkTypes
  <1>t. /\ out \in Seq(Orders) /\ toPeer \in [Links -> Seq(UserWaves)]
        /\ toPeer[ep] \in Seq(UserWaves) /\ toPeer[ep] \in Seq(Orders) /\ w0 \in Orders
    <2>1. \A q \in Seq(UserWaves) : q \in Seq(Orders)
      BY DEF Orders
    <2> QED
      BY <1>e, <2>1 DEF SentTypes, Orders
  <1>1. SentTypes'
    <2>1. Tail(out) \in Seq(Orders)
      BY <1>t, TakeFirst
    <2>2. Append(toPeer[ep], w0) \in Seq(UserWaves)
      BY <1>t
    <2>3. toPeer' \in [Links -> Seq(UserWaves)]
      BY <1>e, <1>t, <2>2
    <2> QED
      BY <2>1, <2>3 DEF SentTypes
  <1>2. /\ \A l \in Links : l # ep => Stage(l)' = Stage(l)
        /\ Stage(ep)' = Append(toPeer[ep], w0) /\ Stage(MaxLinks + 1)' = out'
    BY <1>e, <1>f, <1>t DEF Stage
  <1>3. /\ Up(Tail(out)) /\ Range(out) = {w0} \cup Range(Tail(out))
        /\ \A w \in OfUsers(Tail(out)) : w0 < w
    BY <1>f, <1>t, UpTail DEF SentInv
  <1>4. /\ w0 \in OfUsers(out) /\ w0 \in Nat
        /\ OfUsers(out) = {w0} \cup OfUsers(out)'
    BY <1>3, Bounds DEF OfUsers
  <1>5. \A l \in Links : \A v \in OfUsers(Stage(l)) : v < w0
    BY <1>4, <1>f DEF SentInv
  <1>6. Up(toPeer[ep])
    BY <1>e, <1>f DEF SentInv
  <1>7. Up(Stage(ep))' /\ OfUsers(Stage(ep))' = OfUsers(Stage(ep)) \cup {w0}
    <2>1. \A v \in OfUsers(toPeer[ep]) : v < w0
      BY <1>e, <1>f, <1>5
    <2>2. Up(Append(toPeer[ep], w0)) /\ Range(Append(toPeer[ep], w0)) = Range(toPeer[ep]) \cup {w0}
      BY <1>t, <1>6, <2>1, UpAppend
    <2> QED
      BY <1>2, <1>e, <1>f, <2>2 DEF OfUsers
  <1>8. \A l \in Stages : Up(Stage(l))'
    <2>1. ASSUME NEW l \in Links PROVE Up(Stage(l))'
      <3>1. CASE l = ep
        BY <1>7, <3>1
      <3>2. CASE l # ep
        BY <1>2, <1>f, <3>2 DEF SentInv
      <3> QED
        BY <3>1, <3>2
    <2>2. Up(Stage(MaxLinks + 1))'
      BY <1>2, <1>3
    <2> QED
      BY <1>f, <2>1, <2>2
  <1>9. \A k, l \in Stages : k < l => \A v \in OfUsers(Stage(k))', w \in OfUsers(Stage(l))' : v < w
    <2> SUFFICES ASSUME NEW k \in Stages, NEW l \in Stages, k < l,
                        NEW v \in OfUsers(Stage(k))', NEW w \in OfUsers(Stage(l))'
                 PROVE  v < w
      OBVIOUS
    <2>1. k \in Links
      BY <1>f, Bounds
    <2>2. v \in OfUsers(Stage(k)) \/ (v = w0 /\ k = ep)
      BY <1>2, <1>7, <2>1
    <2>3. \/ l \in Links /\ (w \in OfUsers(Stage(l)) \/ (w = w0 /\ l = ep))
          \/ l = MaxLinks + 1 /\ w \in OfUsers(out)' /\ w \in OfUsers(Stage(l))
      BY <1>f, <1>2, <1>4, <1>7
    <2>4. CASE v \in OfUsers(Stage(k))
      <3>1. CASE w \in OfUsers(Stage(l))
        BY <2>4, <3>1 DEF SentInv
      <3>2. CASE w = w0
        BY <1>5, <2>1, <2>4, <3>2
      <3> QED
        BY <2>3, <3>1, <3>2
    <2>5. CASE v = w0 /\ k = ep
      <3>1. CASE l \in Links
        <4>1. l > made /\ l # ep
          BY <1>e, <2>5, Bounds DEF LinkTypes
        <4>2. Stage(l)' = <<>>
          BY <1>2, <1>f, <3>1, <4>1 DEF SentInv
        <4>3. OfUsers(<<>>) = {}
          BY DEF OfUsers, Range
        <4> QED
          BY <4>2, <4>3
      <3>2. CASE l = MaxLinks + 1 /\ w \in OfUsers(out)'
        BY <1>3, <2>5, <3>2
      <3> QED
        BY <2>3, <3>1, <3>2
    <2> QED
      BY <2>2, <2>4, <2>5
  <1>10. \A w \in UserWaves : (\E l \in Stages : w \in OfUsers(Stage(l))') <=> (w \in 1..sent' /\ w \notin lost')
    <2> SUFFICES ASSUME NEW w \in UserWaves
                 PROVE  (\E l \in Stages : w \in OfUsers(Stage(l))') <=> (w \in 1..sent' /\ w \notin lost')
      OBVIOUS
    <2>1. (\E l \in Stages : w \in OfUsers(Stage(l))) <=> (w \in 1..sent /\ w \notin lost)
      BY DEF SentInv
    <2>2. (\E l \in Stages : w \in OfUsers(Stage(l))) <=> ((\E l \in Links : w \in OfUsers(Stage(l))) \/ w \in OfUsers(out))
      BY <1>f
    <2>3. (\E l \in Stages : w \in OfUsers(Stage(l))')
            <=> ((\E l \in Links : w \in OfUsers(Stage(l))') \/ w \in OfUsers(out)')
      BY <1>f, <1>2
    <2>4. (\E l \in Links : w \in OfUsers(Stage(l))') <=> ((\E l \in Links : w \in OfUsers(Stage(l))) \/ w = w0)
      BY <1>e, <1>2, <1>7
    <2> QED
      BY <1>4, <2>1, <2>2, <2>3, <2>4
  <1>11. \A l \in Links : l > made' => toPeer'[l] = <<>>
    <2>1. \A l \in Links : l > made => l # ep
      BY <1>e DEF LinkTypes
    <2>2. \A l \in Links : l # ep => toPeer'[l] = toPeer[l]
      BY <1>e, <1>t
    <2> QED
      BY <2>1, <2>2 DEF SentInv
  <1>12. lost' \subseteq 1..sent'
    BY DEF SentInv
  <1> QED
    BY <1>1, <1>8, <1>9, <1>10, <1>11, <1>12 DEF SentInv

\* The runner takes an order from the users' queue.
LEMMA OrderTaken ==
    ASSUME LinkTypes, SentTypes, SentInv, UNCHANGED <<toPeer, made, sent, lost>>,
           out # <<>>, Head(out) \notin UserWaves, out' = Tail(out)
    PROVE  SentTypes' /\ SentInv'
  <1>1. out \in Seq(Orders) /\ Up(out)
    BY StageFacts DEF SentTypes, SentInv
  <1>2. Tail(out) \in Seq(Orders) /\ Up(Tail(out)) /\ Range(out) = {Head(out)} \cup Range(Tail(out))
    BY <1>1, UpTail, TakeFirst
  <1>3. OfUsers(out)' = OfUsers(out)
    BY <1>2 DEF OfUsers
  <1>4. lost' = lost \cup (OfUsers(out) \ OfUsers(out)')
    BY <1>3
  <1>5. Up(out)'
    BY <1>2
  <1> QED
    BY <1>2, <1>3, <1>4, <1>5, SentShrinks

\* A wave for the peer is lost, its send has failed.
LEMMA WaveLost ==
    ASSUME LinkTypes, SentTypes, SentInv, UNCHANGED <<toPeer, made, sent>>,
           out # <<>>, Head(out) \in UserWaves, out' = Tail(out), lost' = lost \cup {Head(out)}
    PROVE  SentTypes' /\ SentInv'
  <1>1. out \in Seq(Orders) /\ Up(out)
    BY StageFacts DEF SentTypes, SentInv
  <1>2. /\ Tail(out) \in Seq(Orders) /\ Up(Tail(out)) /\ Range(out) = {Head(out)} \cup Range(Tail(out))
        /\ \A w \in OfUsers(Tail(out)) : Head(out) < w
    BY <1>1, UpTail, TakeFirst
  <1>3. OfUsers(out) = {Head(out)} \cup OfUsers(out)'
    BY <1>2 DEF OfUsers
  <1>4. Head(out) \notin OfUsers(out)'
    <2>1. Head(out) \in Nat
      BY Bounds
    <2> QED
      BY <1>2, <2>1
  <1>5. lost' = lost \cup (OfUsers(out) \ OfUsers(out)')
    BY <1>3, <1>4
  <1>6. Up(out)' /\ OfUsers(out)' \subseteq OfUsers(out)
    BY <1>2, <1>3
  <1> QED
    BY <1>2, <1>5, <1>6, SentShrinks

\* The runner ends, and what waits is lost.
LEMMA AllLost ==
    ASSUME LinkTypes, SentTypes, SentInv, UNCHANGED <<toPeer, made, sent>>,
           out' = <<>>, lost' = lost \cup (UserWaves \cap Range(out))
    PROVE  SentTypes' /\ SentInv'
  <1>1. OfUsers(<<>>) = {} /\ Up(<<>>) /\ <<>> \in Seq(Orders)
    BY DEF OfUsers, Up, Range
  <1>2. lost' = lost \cup (OfUsers(out) \ OfUsers(out)')
    BY <1>1 DEF OfUsers
  <1>3. Up(out)' /\ OfUsers(out)' \subseteq OfUsers(out)
    BY <1>1
  <1> QED
    BY <1>1, <1>2, <1>3, SentShrinks

LEMMA NextSent ==
    LinkTypes /\ SentTypes /\ SentInv /\ [ClientNext]_clientVars => SentTypes' /\ SentInv'
  <1> SUFFICES ASSUME LinkTypes, SentTypes, SentInv, [ClientNext]_clientVars PROVE SentTypes' /\ SentInv'
    OBVIOUS
  <1>n. made \in Nat
    BY DEF LinkTypes
  <1>1. CASE Reset
    <2>1. Head(out) \notin UserWaves
      BY <1>1, Bounds DEF Reset
    <2> QED
      BY <1>1, <2>1, OrderTaken DEF Reset
  <1>2. CASE Close
    <2>1. Head(out) \notin UserWaves
      BY <1>2, Bounds DEF Close
    <2> QED
      BY <1>2, <2>1, OrderTaken DEF Close, linkVars
  <1>3. CASE ToPeer
    <2>1. CASE endpoint \in down
      BY <1>3, <2>1, WaveLost DEF ToPeer
    <2>2. CASE endpoint \notin down
      BY <1>3, <2>2, SentMoves DEF ToPeer
    <2> QED
      BY <2>1, <2>2
  <1>4. CASE EndFatal
    BY <1>4, AllLost DEF EndFatal
  <1>5. CASE Route
    <2>1. sent + 1 \in UserWaves
      BY <1>5, Bounds DEF Route, LinkTypes, SituationType, SentTypes
    <2> QED
      BY <1>5, <2>1, SentGrows DEF Route, linkVars, Orders
  <1>6. ASSUME NEW what \in {CloseWave, ResetWave}, Ask(what) PROVE SentTypes' /\ SentInv'
    <2>1. what \in Orders /\ what \notin UserWaves
      BY Bounds DEF Orders
    <2> QED
      BY <1>6, <2>1, SentGrows DEF Ask, linkVars
  <1>7. CASE Create
    <2>1. made' \in Nat /\ made' >= made
      BY <1>7, <1>n DEF Create
    <2> QED
      BY <1>7, <2>1, SentStays DEF Create, userVars
  <1>8. CASE Begin \/ Connecting \/ TellClosed \/ NoMoreUsers \/ NoMorePeer
    BY <1>8, <1>n, SentStays DEF Begin, Connecting, TellClosed, NoMoreUsers, NoMorePeer, linkVars, userVars
  <1>9. CASE Ready
    BY <1>9, <1>n, SentStays DEF Ready, userVars
  <1>10. CASE FromPeer
    BY <1>10, <1>n, SentStays DEF FromPeer, userVars
  <1>11. CASE RelayStatus \/ HearFirst \/ Hear \/ HearEnd
    BY <1>11, <1>n, SentStays DEF RelayStatus, HearFirst, Hear, HearEnd, linkVars, userVars
  <1>12. CASE Leave \/ Subscribe \/ PeerSends \/ PeerLeaves
    BY <1>12, <1>n, SentStays DEF Leave, Subscribe, PeerSends, PeerLeaves, linkVars, userVars
  <1>13. CASE UNCHANGED clientVars
    BY <1>13, <1>n, SentStays DEF clientVars, linkVars, userVars
  <1> QED
    BY <1>1, <1>2, <1>3, <1>4, <1>5, <1>6, <1>7, <1>8, <1>9, <1>10, <1>11, <1>12, <1>13
    DEF ClientNext, Runner, Others

\* What the property says of the order follows from what holds of the stages.
LEMMA SentInvSays == SentTypes /\ SentInv => SentInOrderOnce
  <1> SUFFICES ASSUME SentTypes, SentInv PROVE SentInOrderOnce
    OBVIOUS
  <1>1. ASSUME NEW k \in Stages, NEW l \in Stages, NEW i \in DOMAIN Stage(k), NEW j \in DOMAIN Stage(l),
               k < l \/ (k = l /\ i < j), {Stage(k)[i], Stage(l)[j]} \subseteq UserWaves
        PROVE  Stage(k)[i] < Stage(l)[j]
    <2>1. CASE k < l
      BY <1>1, <2>1 DEF SentInv, OfUsers, Range
    <2>2. CASE k = l /\ i < j
      BY <1>1, <2>2 DEF SentInv, Up
    <2> QED
      BY <1>1, <2>1, <2>2
  <1>2. UserWaves \cap UNION {Range(Stage(l)) : l \in Stages} = (1..sent) \ lost
    <2>1. 1..sent \subseteq UserWaves
      BY Bounds DEF SentTypes
    <2>2. ASSUME NEW w \in UserWaves
          PROVE  w \in UNION {Range(Stage(l)) : l \in Stages} <=> (w \in 1..sent /\ w \notin lost)
      <3>1. w \in UNION {Range(Stage(l)) : l \in Stages} <=> \E l \in Stages : w \in Range(Stage(l))
        OBVIOUS
      <3>2. (\E l \in Stages : w \in OfUsers(Stage(l))) <=> (w \in 1..sent /\ w \notin lost)
        BY DEF SentInv
      <3> QED
        BY <3>1, <3>2 DEF OfUsers
    <2> QED
      BY <2>1, <2>2
  <1> QED
    BY <1>1, <1>2 DEF SentInOrderOnce

-----------------------------------------------------------------------------
(* What the client hears.                                                  *)

LEMMA InitHeardTypes == ClientInit => HeardTypes
  BY DEF ClientInit, HeardTypes

\* What a peer sends is a message, and so is what any queue of the way holds.
LEMMA NextHeardTypes == LinkTypes /\ HeardTypes /\ [ClientNext]_clientVars => HeardTypes'
  <1> SUFFICES ASSUME LinkTypes, HeardTypes, [ClientNext]_clientVars PROVE HeardTypes'
    OBVIOUS
  <1>0. ASSUME UNCHANGED <<fromPeer, peerSent, toClient, heard, hear>> PROVE HeardTypes'
    BY <1>0 DEF HeardTypes
  <1>g. ASSUME endpoint \in Links, fromPeer' = [fromPeer EXCEPT ![endpoint] = <<>>] \/ UNCHANGED fromPeer,
               UNCHANGED <<peerSent, toClient, heard, hear>>
        PROVE  HeardTypes'
    <2>1. fromPeer' \in [Links -> Seq(Messages)]
      <3>1. <<>> \in Seq(Messages)
        OBVIOUS
      <3>2. CASE fromPeer' = [fromPeer EXCEPT ![endpoint] = <<>>]
        BY <3>1, <3>2, <1>g DEF HeardTypes
      <3>3. CASE UNCHANGED fromPeer
        BY <3>3 DEF HeardTypes
      <3> QED
        BY <1>g, <3>2, <3>3
    <2> QED
      BY <1>g, <2>1 DEF HeardTypes
  <1>1. CASE Create
    <2>1. made' \in Links
      BY <1>1, Bounds DEF Create, LinkTypes
    <2>2. PICK first \in FirstKinds : fromPeer' = [l \in Links |-> IF l = made' THEN <<First(l, first)>> ELSE <<>>]
      BY <1>1 DEF Create, LinkTypes, SituationType
    <2>3. \A l \in Links : First(l, first) \in Messages
      BY DEF First, Messages
    <2>4. fromPeer' \in [Links -> Seq(Messages)]
      BY <2>2, <2>3
    <2>5. peerSent' \in [Links -> Nat]
      BY <1>1, <2>1 DEF Create, HeardTypes
    <2> QED
      BY <1>1, <2>4, <2>5 DEF Create, HeardTypes, hearVars
  <1>2. CASE Ready
    <2>1. endpoint \in Links
      BY <1>2, Bounds DEF Ready, LinkTypes
    <2> QED
      BY <1>2, <2>1, <1>g DEF Ready, LetGo, hearVars
  <1>3. CASE EndFatal
    <2>1. CASE endpoint = 0
      BY <1>3, <2>1, <1>0 DEF EndFatal, hearVars
    <2>2. CASE endpoint # 0
      <3>1. endpoint \in Links
        BY <2>2, Bounds DEF LinkTypes
      <3> QED
        BY <1>3, <2>2, <3>1, <1>g DEF EndFatal, LetGo, hearVars
    <2> QED
      BY <2>1, <2>2
  <1>4. CASE Reset \/ ToPeer
    <2>1. endpoint \in Links
      BY <1>4, Bounds DEF Reset, ToPeer, LinkTypes
    <2> QED
      BY <1>4, <2>1, <1>g DEF Reset, ToPeer, LetGo, hearVars
  <1>5. CASE FromPeer
    <2>1. endpoint \in Links
      BY <1>5, Bounds DEF FromPeer, LinkTypes
    <2>2. fromPeer[endpoint] \in Seq(Messages) /\ fromPeer[endpoint] # <<>>
      BY <1>5, <2>1 DEF FromPeer, HeardTypes
    <2>3. Head(fromPeer[endpoint]) \in Messages /\ Tail(fromPeer[endpoint]) \in Seq(Messages)
      BY <2>2, TakeFirst
    <2>4. toClient' \in Seq(Messages)
      BY <1>5, <2>3, PutLast DEF FromPeer, HeardTypes
    <2>5. fromPeer' \in [Links -> Seq(Messages)]
      BY <1>5, <2>1, <2>3 DEF FromPeer, HeardTypes
    <2> QED
      BY <1>5, <2>4, <2>5 DEF FromPeer, HeardTypes
  <1>6. CASE HearFirst
    <2>1. Tail(toClient) \in Seq(Messages)
      BY <1>6, TakeFirst DEF HearFirst, HeardTypes
    <2>2. toClient' \in {Tail(toClient), <<>>} /\ hear' \in {"run", "ended"}
      BY <1>6 DEF HearFirst
    <2>3. UNCHANGED <<fromPeer, peerSent, heard>>
      BY <1>6 DEF HearFirst, linkVars
    <2>5. toClient' \in Seq(Messages)
      <3>1. <<>> \in Seq(Messages)
        OBVIOUS
      <3> QED
        BY <2>1, <2>2, <3>1
    <2> QED
      BY <2>1, <2>2, <2>3, <2>5 DEF HeardTypes
  <1>7. CASE Hear
    <2>1. Head(toClient) \in Messages /\ Tail(toClient) \in Seq(Messages)
      BY <1>7, TakeFirst DEF Hear, HeardTypes
    <2>2. Append(heard, Head(toClient)) \in Seq(Messages)
      BY <2>1, PutLast DEF HeardTypes
    <2>3. /\ toClient' \in {Tail(toClient), <<>>} /\ hear' \in {hear, "ended"}
          /\ heard' \in {heard, Append(heard, Head(toClient))}
      BY <1>7 DEF Hear
    <2>4. UNCHANGED <<fromPeer, peerSent>>
      BY <1>7 DEF Hear, linkVars
    <2>5. toClient' \in Seq(Messages)
      <3>1. <<>> \in Seq(Messages)
        OBVIOUS
      <3> QED
        BY <2>1, <2>3, <3>1
    <2> QED
      BY <2>1, <2>2, <2>3, <2>4, <2>5 DEF HeardTypes
  <1>8. CASE HearEnd
    BY <1>8 DEF HearEnd, HeardTypes, linkVars
  <1>9. CASE PeerSends
    <2>1. endpoint \in Links
      BY <1>9, Bounds DEF PeerSends, LinkTypes
    <2>2. peerSent' \in [Links -> Nat] /\ peerSent'[endpoint] \in Nat
      BY <1>9, <2>1 DEF PeerSends, HeardTypes
    <2>3. Peer(endpoint, peerSent'[endpoint]) \in Messages
      BY <2>1, <2>2 DEF Peer, Messages
    <2>4. Append(fromPeer[endpoint], Peer(endpoint, peerSent'[endpoint])) \in Seq(Messages)
      BY <2>1, <2>3, PutLast DEF HeardTypes
    <2>5. fromPeer' \in [Links -> Seq(Messages)]
      BY <1>9, <2>1, <2>4 DEF PeerSends, HeardTypes
    <2> QED
      BY <1>9, <2>2, <2>5 DEF PeerSends, HeardTypes, hearVars
  <1>10. CASE Begin \/ Connecting \/ Close \/ TellClosed \/ NoMoreUsers \/ NoMorePeer
    BY <1>10, <1>0 DEF Begin, Connecting, Close, TellClosed, NoMoreUsers, NoMorePeer, linkVars, hearVars
  <1>11. CASE RelayStatus \/ Route \/ Ask(CloseWave) \/ Ask(ResetWave) \/ Leave \/ Subscribe \/ PeerLeaves
    BY <1>11, <1>0 DEF RelayStatus, Route, Ask, Leave, Subscribe, PeerLeaves, linkVars, hearVars
  <1>12. CASE UNCHANGED clientVars
    BY <1>12, <1>0 DEF clientVars, linkVars, hearVars
  <1> QED
    BY <1>1, <1>2, <1>3, <1>4, <1>5, <1>6, <1>7, <1>8, <1>9, <1>10, <1>11, <1>12 DEF ClientNext, Runner, Others

\* What is left to read of the present connection.
Feed == IF endpoint = 0 THEN <<>> ELSE fromPeer[endpoint]

\* m may come directly after l.
Follows(l, m) == IF m.link = l.link THEN m.n = l.n + 1 ELSE m.link > l.link /\ m.n = 0
Chained(t) == \A i \in 1..(Len(t) - 1) : Follows(t[i], t[i + 1])

\* All that was read of the connections and not dropped, and what is left to read of the
\* present one, is one chain t: its first m have reached the relay, of which the greeting
\* is not handed on, those up to k are on their way to it.
Story(t, m, k) ==
    /\ m \in Nat /\ k \in Nat /\ m <= k /\ k <= Len(t)
    /\ Chained(t)
    /\ Len(t) > 0 => t[1].n = 0
    /\ Len(toClient) = k - m /\ \A i \in 1..(k - m) : toClient[i] = t[m + i]
    /\ Len(Feed) = Len(t) - k /\ \A i \in 1..(Len(t) - k) : Feed[i] = t[k + i]
    /\ IF hear = "greet"
       THEN m = 0 /\ heard = <<>>
       ELSE m > 0 /\ Len(heard) = m - 1 /\ \A i \in 1..(m - 1) : heard[i] = t[i + 1]
    /\ \A i \in 1..Len(t) : t[i].link <= made
    /\ endpoint # 0 => Len(t) > 0 /\ t[Len(t)].link = endpoint /\ t[Len(t)].n = peerSent[endpoint]

HeardInv ==
    /\ HeardInOrder
    /\ ~given.endless /\ hear # "ended" => \E t \in Seq(Messages) : \E m, k \in Nat : Story(t, m, k)

\* A chain says that what was handed on is in order.
LEMMA StorySays ==
    ASSUME HeardTypes, hear # "ended", NEW t \in Seq(Messages), NEW m, NEW k, Story(t, m, k)
    PROVE  HeardInOrder
  <1>1. PICK n \in Nat : n = Len(t) /\ m \in Nat /\ k \in Nat /\ m <= k /\ k <= n
    BY DEF Story
  <1>2. CASE hear = "greet"
    BY <1>2 DEF Story, HeardInOrder
  <1>3. CASE hear # "greet"
    <2>1. /\ m > 0 /\ DOMAIN heard = 1..(m - 1) /\ \A i \in 1..(m - 1) : heard[i] = t[i + 1]
          /\ Len(t) > 0 => t[1].n = 0
          /\ \A i \in 1..(n - 1) : Follows(t[i], t[i + 1])
      BY <1>1, <1>3 DEF Story, Chained, HeardTypes
    <2>2. \A i \in 1..n : t[i].n \in Nat /\ t[i].link \in Nat
      <3>1. \A i \in 1..n : t[i] \in Messages
        BY <1>1
      <3>2. \A x \in Messages : x.n \in Nat /\ x.link \in Nat
        BY Bounds DEF Messages
      <3> QED
        BY <3>1, <3>2
    <2>3. ASSUME NEW i \in 1..(m - 1) PROVE Follows(t[i], heard[i])
      BY <1>1, <2>1
    <2>4. ASSUME NEW i \in 1..(m - 1), i # 1 PROVE Follows(heard[i - 1], heard[i])
      <3>1. i - 1 \in 1..(m - 1) /\ (i - 1) + 1 = i
        BY <1>1, <2>4
      <3>2. heard[i - 1] = t[i]
        BY <2>1, <3>1
      <3> QED
        BY <2>3, <3>2
    <2>5. ASSUME NEW i \in 1..(m - 1), i = 1 PROVE heard[i].n \in {0, 1}
      <3>1. t[1].n = 0
        BY <1>1, <2>1
      <3> QED
        BY <2>3, <2>5, <3>1 DEF Follows
    <2> QED
      BY <2>1, <2>4, <2>5 DEF HeardInOrder, Follows
  <1> QED
    BY <1>2, <1>3

\* Steps that touch nothing of the way from the peer to the users.
LEMMA HeardStays ==
    ASSUME HeardInv, UNCHANGED <<given, made, endpoint, fromPeer, peerSent, toClient, hear, heard>>
    PROVE  HeardInv'
  <1>1. HeardInOrder'
    BY DEF HeardInv, HeardInOrder
  <1>2. UNCHANGED Feed
    BY DEF Feed
  <1>3. ASSUME NEW t, NEW m, NEW k, Story(t, m, k) PROVE Story(t, m, k)'
    BY <1>2, <1>3 DEF Story
  <1>4. ~given.endless /\ hear # "ended" => \E t \in Seq(Messages) : \E m, k \in Nat : Story(t, m, k)'
    BY <1>3 DEF HeardInv
  <1> QED
    BY <1>1, <1>4 DEF HeardInv

\* The chain s is the chain t without what is left to read.
Cut(s, t, m, k) ==
    /\ Len(s) = k /\ \A i \in 1..k : s[i] = t[i]
    /\ Chained(s) /\ (Len(s) > 0 => s[1].n = 0)
    /\ \A i \in 1..Len(s) : s[i].link <= made
    /\ \A i \in 1..(k - m) : s[m + i] = t[m + i]
    /\ \A i \in 1..(m - 1) : s[i + 1] = t[i + 1]

LEMMA CutStory ==
    ASSUME HeardTypes, NEW t \in Seq(Messages), NEW m, NEW k, Story(t, m, k)
    PROVE  \E s \in Seq(Messages) : Cut(s, t, m, k)
  <1>1. PICK n \in Nat : n = Len(t) /\ m \in Nat /\ k \in Nat /\ m <= k /\ k <= n
    BY DEF Story
  <1>2. \A i \in 1..n : t[i] \in Messages
    BY <1>1
  <1>3. \A i \in 1..k : i \in 1..n
    BY <1>1
  <1> DEFINE s == [i \in 1..k |-> t[i]]
  <1>4. s \in Seq(Messages) /\ Len(s) = k /\ \A i \in 1..k : s[i] = t[i]
    BY <1>1, <1>2, <1>3
  <1> HIDE DEF s
  <1>5. Chained(s)
    <2> SUFFICES ASSUME NEW i \in 1..(k - 1) PROVE Follows(s[i], s[i + 1])
      BY <1>4 DEF Chained
    <2>1. i \in 1..k /\ i + 1 \in 1..k /\ i \in 1..(n - 1)
      BY <1>1
    <2>2. Follows(t[i], t[i + 1])
      BY <1>1, <2>1 DEF Story, Chained
    <2> QED
      BY <1>4, <2>1, <2>2
  <1>6. Len(s) > 0 => s[1].n = 0
    <2> SUFFICES ASSUME k > 0 PROVE s[1].n = 0
      BY <1>4
    <2>1. 1 \in 1..k /\ n > 0
      BY <1>1
    <2> QED
      BY <1>1, <1>4, <2>1 DEF Story
  <1>7. \A i \in 1..Len(s) : s[i].link <= made
    BY <1>1, <1>3, <1>4 DEF Story
  <1>8. (\A i \in 1..(k - m) : m + i \in 1..k) /\ (\A i \in 1..(m - 1) : i + 1 \in 1..k)
    BY <1>1
  <1> QED
    BY <1>4, <1>5, <1>6, <1>7, <1>8 DEF Cut

\* The connection is let go, and what is left to read of it dropped.
LEMMA HeardDropped ==
    ASSUME HeardTypes, HeardInv, endpoint' = 0, UNCHANGED <<given, made, toClient, hear, heard>>
    PROVE  HeardInv'
  <1>1. HeardInOrder'
    BY DEF HeardInv, HeardInOrder
  <1>2. Feed' = <<>>
    BY DEF Feed
  <1>3. ASSUME ~given.endless, hear # "ended"
        PROVE  \E t \in Seq(Messages) : \E m, k \in Nat : Story(t, m, k)'
    <2>1. PICK t \in Seq(Messages) : \E m, k \in Nat : Story(t, m, k)
      BY <1>3 DEF HeardInv
    <2>2. PICK m \in Nat, k \in Nat : Story(t, m, k)
      BY <2>1
    <2>3. PICK s \in Seq(Messages) : Cut(s, t, m, k)
      BY <2>2, CutStory
    <2>4. m <= k /\ k <= Len(s) /\ Len(s) - k = 0
      BY <2>2, <2>3 DEF Story, Cut
    <2>5. Len(Feed') = 0 /\ \A i \in 1..0 : Feed'[i] = s[k + i]
      BY <1>2
    <2>6. Story(s, m, k)'
      BY <2>2, <2>3, <2>4, <2>5 DEF Story, Cut
    <2> QED
      BY <2>6
  <1> QED
    BY <1>1, <1>3 DEF HeardInv

\* The chain r is s and e behind it.
Longer(r, s, e) ==
    /\ Len(r) = Len(s) + 1 /\ Chained(r) /\ r[1].n = 0
    /\ \A i \in 1..Len(s) : r[i] = s[i]
    /\ r[Len(s) + 1] = e

\* A chain can be continued by what may follow its last.
LEMMA LongerChain ==
    ASSUME NEW s \in Seq(Messages), NEW e \in Messages, Chained(s), Len(s) > 0 => s[1].n = 0,
           IF Len(s) > 0 THEN Follows(s[Len(s)], e) ELSE e.n = 0
    PROVE  \E r \in Seq(Messages) : Longer(r, s, e)
  <1>1. PICK n \in Nat : n = Len(s)
    BY PutLast
  <1> DEFINE r == Append(s, e)
  <1>2. r \in Seq(Messages) /\ Len(r) = n + 1 /\ (\A i \in 1..n : r[i] = s[i]) /\ r[n + 1] = e
    BY <1>1, PutLast
  <1> HIDE DEF r
  <1>3. Chained(r)
    <2> SUFFICES ASSUME NEW i \in 1..n PROVE Follows(r[i], r[i + 1])
      BY <1>1, <1>2 DEF Chained
    <2>1. CASE i = n
      BY <1>1, <1>2, <2>1
    <2>2. CASE i # n
      <3>1. i \in 1..(n - 1) /\ i + 1 \in 1..n
        BY <1>1, <2>2
      <3> QED
        BY <1>1, <1>2, <3>1 DEF Chained
    <2> QED
      BY <2>1, <2>2
  <1>4. r[1].n = 0
    <2>1. CASE n = 0
      BY <1>1, <1>2, <2>1
    <2>2. CASE n # 0
      <3>1. 1 \in 1..n
        BY <2>2
      <3> QED
        BY <1>1, <1>2, <2>2, <3>1
    <2> QED
      BY <2>1, <2>2
  <1> QED
    BY <1>1, <1>2, <1>3, <1>4 DEF Longer

\* A new connection is made: its first wave continues the chain.
LEMMA HeardAnew ==
    ASSUME LinkTypes, HeardTypes, HeardInv, ~given.endless, Create
    PROVE  HeardInv'
  <1>1. PICK l \in Links : l = made' /\ l = made + 1 /\ endpoint' = l
    BY Bounds DEF Create, LinkTypes
  <1>2. PICK first \in FirstKinds : fromPeer' = [k \in Links |-> IF k = made' THEN <<First(k, first)>> ELSE <<>>]
    BY DEF Create, LinkTypes, SituationType
  <1> DEFINE e == First(l, first)
  <1>3. e \in Messages /\ e.link = l /\ e.n = 0
    BY DEF First, Messages
  <1>4. UNCHANGED <<given, toClient, hear, heard>> /\ peerSent'[l] = 0
    BY <1>1 DEF Create, hearVars, HeardTypes
  <1> HIDE DEF e
  <1>5. Feed' = <<e>>
    <2>1. l # 0
      BY <1>1, Bounds
    <2> QED
      BY <1>1, <1>2, <2>1 DEF Feed, e
  <1>6. HeardInOrder'
    BY <1>4 DEF HeardInv, HeardInOrder
  <1>7. ASSUME hear # "ended" PROVE \E t \in Seq(Messages) : \E m, k \in Nat : Story(t, m, k)'
    <2>1. PICK t \in Seq(Messages), m \in Nat, k \in Nat : Story(t, m, k)
      BY <1>7 DEF HeardInv
    <2>2. PICK s \in Seq(Messages) : Cut(s, t, m, k)
      BY <2>1, CutStory
    <2>3. Len(s) = k /\ Chained(s) /\ (Len(s) > 0 => s[1].n = 0)
      BY <2>2 DEF Cut
    <2>4. IF Len(s) > 0 THEN Follows(s[Len(s)], e) ELSE e.n = 0
      <3>1. ASSUME Len(s) > 0 PROVE Follows(s[Len(s)], e)
        <4>1. Len(s) \in 1..Len(s) /\ s[Len(s)] \in Messages
          BY <3>1
        <4>2. s[Len(s)].link \in Nat /\ s[Len(s)].link <= made
          BY <2>2, <4>1, Bounds DEF Cut, Messages
        <4>3. e.link > s[Len(s)].link /\ e.link # s[Len(s)].link
          BY <1>1, <1>3, <4>2, Bounds DEF LinkTypes
        <4> QED
          BY <1>3, <4>3 DEF Follows
      <3> QED
        BY <1>3, <3>1
    <2>a. PICK r \in Seq(Messages) : Longer(r, s, e)
      BY <1>3, <2>3, <2>4, LongerChain
    <2>5. /\ Len(r) = k + 1 /\ Chained(r) /\ r[1].n = 0
          /\ \A i \in 1..k : r[i] = s[i]
          /\ r[k + 1] = e
      BY <2>a, <2>3 DEF Longer
    <2>6. k \in Nat /\ m <= k /\ (\A i \in 1..(k + 1) : i \in 1..k \/ i = k + 1)
          /\ (\A i \in 1..(k - m) : m + i \in 1..k)
      BY <2>1 DEF Story
    <2>7. /\ \A i \in 1..(k - m) : r[m + i] = t[m + i]
          /\ m > 0 => \A i \in 1..(m - 1) : r[i + 1] = t[i + 1]
      <3>1. \A i \in 1..k : r[i] = t[i]
        BY <2>2, <2>5 DEF Cut
      <3>2. \A i \in 1..(m - 1) : i + 1 \in 1..k
        BY <2>6
      <3> QED
        BY <2>6, <3>1, <3>2
    <2>8. \A i \in 1..Len(r) : r[i].link <= made'
      <3>1. ASSUME NEW i \in 1..k PROVE r[i].link <= made'
        <4>1. r[i] = s[i] /\ s[i].link <= made /\ s[i] \in Messages
          BY <2>2, <2>3, <2>5, <3>1 DEF Cut
        <4>2. s[i].link \in Nat /\ made \in Nat /\ made' = made + 1
          BY <1>1, <4>1, Bounds DEF Messages, LinkTypes
        <4> QED
          BY <4>1, <4>2
      <3>2. r[k + 1].link <= made'
        BY <1>1, <1>3, <2>5, Bounds
      <3> QED
        BY <2>5, <2>6, <3>1, <3>2
    <2>9. Len(Feed') = Len(r) - k /\ \A i \in 1..(Len(r) - k) : Feed'[i] = r[k + i]
      <3>1. Len(r) - k = 1
        BY <2>5, <2>6
      <3>2. Len(<<e>>) = 1 /\ <<e>>[1] = e
        OBVIOUS
      <3>3. \A i \in 1..1 : i = 1
        OBVIOUS
      <3> QED
        BY <1>5, <2>5, <3>1, <3>2, <3>3
    <2>10. Len(r) > 0 /\ r[Len(r)].link = endpoint' /\ r[Len(r)].n = peerSent'[endpoint']
      BY <1>1, <1>3, <1>4, <2>5, <2>6
    <2>11. m \in Nat /\ k \in Nat /\ m <= k /\ k <= Len(r)
      BY <2>5, <2>6
    <2>12. Len(toClient') = k - m /\ \A i \in 1..(k - m) : toClient'[i] = r[m + i]
      BY <1>4, <2>1, <2>7 DEF Story
    <2>13. IF hear' = "greet"
           THEN m = 0 /\ heard' = <<>>
           ELSE m > 0 /\ Len(heard') = m - 1 /\ \A i \in 1..(m - 1) : heard'[i] = r[i + 1]
      BY <1>4, <2>1, <2>7 DEF Story
    <2>14. Story(r, m, k)'
      BY <2>5, <2>8, <2>9, <2>10, <2>11, <2>12, <2>13 DEF Story
    <2> QED
      BY <2>14
  <1> QED
    BY <1>4, <1>6, <1>7 DEF HeardInv

\* The peer sends on: its wave continues the chain.
LEMMA HeardMore ==
    ASSUME LinkTypes, HeardTypes, HeardInv, PeerSends
    PROVE  HeardInv'
  <1>1. PICK l \in Links : l = endpoint /\ endpoint' = l
    BY Bounds DEF PeerSends, LinkTypes
  <1>2. /\ l # 0 /\ l <= made /\ peerSent[l] \in Nat /\ peerSent'[l] = peerSent[l] + 1
        /\ fromPeer[l] \in Seq(Messages) /\ fromPeer'[l] = Append(fromPeer[l], Peer(l, peerSent'[l]))
        /\ UNCHANGED <<given, made, toClient, hear, heard>>
    BY <1>1, Bounds DEF PeerSends, HeardTypes, LinkTypes, hearVars
  <1> DEFINE e == Peer(l, peerSent'[l])
  <1>3. e \in Messages /\ e.link = l /\ e.n = peerSent[l] + 1
    BY <1>2 DEF Peer, Messages
  <1>4. Feed = fromPeer[l] /\ Feed' = Append(fromPeer[l], e)
    BY <1>1, <1>2 DEF Feed
  <1> HIDE DEF e
  <1>5. HeardInOrder'
    BY <1>2 DEF HeardInv, HeardInOrder
  <1>6. ASSUME ~given.endless, hear # "ended"
        PROVE  \E t \in Seq(Messages) : \E m, k \in Nat : Story(t, m, k)'
    <2>1. PICK t \in Seq(Messages), m \in Nat, k \in Nat : Story(t, m, k)
      BY <1>6 DEF HeardInv
    <2>2. PICK n \in Nat : n = Len(t) /\ k <= n /\ m <= k
      BY <2>1 DEF Story
    <2>3. n > 0 /\ t[n].link = l /\ t[n].n = peerSent[l] /\ Chained(t) /\ t[1].n = 0
      BY <1>1, <1>2, <2>1, <2>2 DEF Story
    <2>4. Follows(t[n], e)
      BY <1>3, <2>3 DEF Follows
    <2>a. PICK r \in Seq(Messages) : Longer(r, t, e)
      BY <1>3, <2>2, <2>3, <2>4, LongerChain
    <2>5. /\ Len(r) = n + 1 /\ Chained(r) /\ r[1].n = 0
          /\ \A i \in 1..n : r[i] = t[i]
          /\ r[n + 1] = e
      BY <2>a, <2>2 DEF Longer
    <2>6. /\ \A i \in 1..(n + 1) : i \in 1..n \/ i = n + 1
          /\ \A i \in 1..(k - m) : m + i \in 1..n
          /\ \A i \in 1..(m - 1) : i + 1 \in 1..n
      BY <2>2
    <2>7. Len(toClient') = k - m /\ \A i \in 1..(k - m) : toClient'[i] = r[m + i]
      BY <1>2, <2>1, <2>5, <2>6 DEF Story
    <2>8. IF hear' = "greet"
          THEN m = 0 /\ heard' = <<>>
          ELSE m > 0 /\ Len(heard') = m - 1 /\ \A i \in 1..(m - 1) : heard'[i] = r[i + 1]
      BY <1>2, <2>1, <2>5, <2>6 DEF Story
    <2>9. \A i \in 1..Len(r) : r[i].link <= made'
      <3>1. ASSUME NEW i \in 1..n PROVE r[i].link <= made'
        BY <1>2, <2>1, <2>2, <2>5, <3>1 DEF Story
      <3>2. r[n + 1].link <= made'
        BY <1>2, <1>3, <2>5
      <3> QED
        BY <2>5, <2>6, <3>1, <3>2
    <2>10. Len(Feed') = Len(r) - k /\ \A i \in 1..(Len(r) - k) : Feed'[i] = r[k + i]
      <3>1. Len(Feed) = n - k /\ \A i \in 1..(n - k) : Feed[i] = t[k + i]
        BY <2>1, <2>2 DEF Story
      <3>2. /\ Len(Feed') = (n - k) + 1 /\ Feed'[(n - k) + 1] = e
            /\ \A i \in 1..(n - k) : Feed'[i] = Feed[i]
        BY <1>2, <1>3, <1>4, <3>1, PutLast
      <3>3. (n - k) + 1 = (n + 1) - k /\ k + ((n + 1) - k) = n + 1
        BY <2>2
      <3>4. ASSUME NEW i \in 1..((n + 1) - k) PROVE Feed'[i] = r[k + i]
        <4>1. CASE i = (n + 1) - k
          <5>1. Feed'[i] = e /\ k + i = n + 1
            BY <3>2, <3>3, <4>1
          <5> QED
            BY <2>5, <5>1
        <4>2. CASE i # (n + 1) - k
          <5>1. i \in 1..(n - k) /\ k + i \in 1..n
            BY <2>2, <4>2
          <5> QED
            BY <2>5, <3>1, <3>2, <5>1
        <4> QED
          BY <4>1, <4>2
      <3>5. Len(Feed') = (n + 1) - k /\ Len(r) = n + 1
        BY <2>5, <3>2, <3>3
      <3> QED
        BY <3>4, <3>5
    <2>11. Len(r) > 0 /\ r[Len(r)].link = endpoint' /\ r[Len(r)].n = peerSent'[endpoint']
      BY <1>1, <1>2, <1>3, <2>5, <2>2
    <2>12. m \in Nat /\ k \in Nat /\ m <= k /\ k <= Len(r)
      BY <2>2, <2>5
    <2>13. Story(r, m, k)'
      BY <2>5, <2>7, <2>8, <2>9, <2>10, <2>11, <2>12 DEF Story
    <2> QED
      BY <2>13
  <1> QED
    BY <1>2, <1>5, <1>6 DEF HeardInv

\* The runner hands the next wave of the peer to the client's relay.
LEMMA HeardFed ==
    ASSUME LinkTypes, HeardTypes, HeardInv, FromPeer
    PROVE  HeardInv'
  <1>1. PICK l \in Links : l = endpoint /\ endpoint' = l
    BY Bounds DEF FromPeer, LinkTypes
  <1>2. /\ l # 0 /\ fromPeer[l] \in Seq(Messages) /\ fromPeer[l] # <<>>
        /\ fromPeer'[l] = Tail(fromPeer[l]) /\ toClient \in Seq(Messages)
        /\ hear # "ended" => toClient' = Append(toClient, Head(fromPeer[l]))
        /\ UNCHANGED <<given, made, peerSent, hear, heard>>
    BY <1>1, Bounds DEF FromPeer, HeardTypes
  <1>3. Feed = fromPeer[l] /\ Feed' = Tail(fromPeer[l])
    BY <1>1, <1>2 DEF Feed
  <1>4. HeardInOrder'
    BY <1>2 DEF HeardInv, HeardInOrder
  <1>5. ASSUME ~given.endless, hear # "ended"
        PROVE  \E t \in Seq(Messages) : \E m, k \in Nat : Story(t, m, k)'
    <2>1. PICK t \in Seq(Messages), m \in Nat, k \in Nat : Story(t, m, k)
      BY <1>5 DEF HeardInv
    <2>2. PICK n \in Nat : n = Len(t) /\ k <= n /\ m <= k
      BY <2>1 DEF Story
    <2>3. Len(Feed) = n - k /\ \A i \in 1..(n - k) : Feed[i] = t[k + i]
      BY <2>1, <2>2 DEF Story
    <2>4. /\ Len(Feed) \in Nat \ {0} /\ Head(Feed) = Feed[1] /\ Head(Feed) \in Messages
          /\ Len(Feed') = Len(Feed) - 1
          /\ \A i \in 1..(Len(Feed) - 1) : Feed'[i] = Feed[i + 1]
      BY <1>2, <1>3, TakeFirst
    <2>5. n - k \in Nat \ {0}
      BY <2>3, <2>4
    <2>6. k + 1 <= n /\ 1 \in 1..(n - k) /\ Feed[1] = t[k + 1]
      BY <2>2, <2>3, <2>5
    <2>7. Len(Feed') = n - (k + 1) /\ \A i \in 1..(n - (k + 1)) : Feed'[i] = t[(k + 1) + i]
      <3>1. Len(Feed') = n - (k + 1)
        BY <2>2, <2>3, <2>4
      <3>2. ASSUME NEW i \in 1..(n - (k + 1)) PROVE Feed'[i] = t[(k + 1) + i]
        <4>1. i \in 1..(Len(Feed) - 1) /\ i + 1 \in 1..(n - k) /\ k + (i + 1) = (k + 1) + i
          BY <2>2, <2>3
        <4> QED
          BY <2>3, <2>4, <4>1
      <3> QED
        BY <3>1, <3>2
    <2>8. Len(toClient') = (k + 1) - m /\ \A i \in 1..((k + 1) - m) : toClient'[i] = t[m + i]
      <3>1. Len(toClient) = k - m /\ \A i \in 1..(k - m) : toClient[i] = t[m + i]
        BY <2>1 DEF Story
      <3>2. /\ Len(toClient') = (k - m) + 1 /\ toClient'[(k - m) + 1] = t[k + 1]
            /\ \A i \in 1..(k - m) : toClient'[i] = toClient[i]
        <4>1. PICK e \in Messages : e = Head(fromPeer[l]) /\ e = t[k + 1]
          BY <1>3, <2>4, <2>6
        <4>2. toClient' = Append(toClient, e)
          BY <1>2, <1>5, <4>1
        <4> QED
          BY <1>2, <3>1, <4>1, <4>2, PutLast
      <3>3. /\ (k - m) + 1 = (k + 1) - m /\ m + ((k + 1) - m) = k + 1
            /\ \A i \in 1..((k + 1) - m) : i \in 1..(k - m) \/ i = (k + 1) - m
        BY <2>2
      <3> QED
        BY <3>1, <3>2, <3>3
    <2>9. m \in Nat /\ k + 1 \in Nat /\ m <= k + 1 /\ k + 1 <= Len(t)
      BY <2>2, <2>6
    <2>10. /\ Chained(t)
           /\ Len(t) > 0 => t[1].n = 0
           /\ IF hear = "greet"
              THEN m = 0 /\ heard = <<>>
              ELSE m > 0 /\ Len(heard) = m - 1 /\ \A i \in 1..(m - 1) : heard[i] = t[i + 1]
           /\ \A i \in 1..Len(t) : t[i].link <= made
           /\ endpoint # 0 => Len(t) > 0 /\ t[Len(t)].link = endpoint /\ t[Len(t)].n = peerSent[endpoint]
      BY <2>1 DEF Story
    <2>11. Story(t, m, k + 1)'
      BY <1>1, <1>2, <2>2, <2>7, <2>8, <2>9, <2>10 DEF Story
    <2> QED
      BY <2>9, <2>11
  <1> QED
    BY <1>2, <1>4, <1>5 DEF HeardInv

\* The client's relay takes a wave, the greeting or one that it hands on.
LEMMA HeardTaken ==
    ASSUME LinkTypes, HeardTypes, HeardInv, UNCHANGED <<given, made, endpoint, fromPeer, peerSent>>,
           hear # "ended", toClient # <<>>, toClient' = Tail(toClient), hear' = "run",
           heard' = IF hear = "greet" THEN heard ELSE Append(heard, Head(toClient))
    PROVE  HeardTypes' => HeardInv'
  <1> SUFFICES ASSUME HeardTypes' PROVE HeardInv'
    OBVIOUS
  <1>1. UNCHANGED Feed
    BY DEF Feed
  <1>2. toClient \in Seq(Messages) /\ heard \in Seq(Messages) /\ toClient # <<>> /\ hear \in {"greet", "run"}
    BY DEF HeardTypes
  <1>3. ASSUME ~given.endless
        PROVE  \E t \in Seq(Messages) : \E m, k \in Nat : Story(t, m, k)'
    <2>1. PICK t \in Seq(Messages), m \in Nat, k \in Nat : Story(t, m, k)
      BY <1>3 DEF HeardInv
    <2>2. PICK n \in Nat : n = Len(t) /\ k <= n /\ m <= k
      BY <2>1 DEF Story
    <2>3. Len(toClient) = k - m /\ \A i \in 1..(k - m) : toClient[i] = t[m + i]
      BY <2>1 DEF Story
    <2>4. /\ Len(toClient) \in Nat \ {0} /\ Head(toClient) = toClient[1] /\ Head(toClient) \in Messages
          /\ Len(toClient') = Len(toClient) - 1
          /\ \A i \in 1..(Len(toClient) - 1) : toClient'[i] = toClient[i + 1]
      BY <1>2, TakeFirst
    <2>5. k - m \in Nat \ {0}
      BY <2>3, <2>4
    <2>6. m + 1 <= k /\ 1 \in 1..(k - m) /\ toClient[1] = t[m + 1]
      BY <2>2, <2>3, <2>5
    <2>7. Len(toClient') = k - (m + 1) /\ \A i \in 1..(k - (m + 1)) : toClient'[i] = t[(m + 1) + i]
      <3>1. Len(toClient') = k - (m + 1)
        BY <2>2, <2>3, <2>4
      <3>2. ASSUME NEW i \in 1..(k - (m + 1)) PROVE toClient'[i] = t[(m + 1) + i]
        <4>1. i \in 1..(Len(toClient) - 1) /\ i + 1 \in 1..(k - m) /\ m + (i + 1) = (m + 1) + i
          BY <2>2, <2>3
        <4> QED
          BY <2>3, <2>4, <4>1
      <3> QED
        BY <3>1, <3>2
    <2>8. m + 1 > 0 /\ Len(heard') = (m + 1) - 1 /\ \A i \in 1..((m + 1) - 1) : heard'[i] = t[i + 1]
      <3>1. CASE hear = "greet"
        <4>1. m = 0 /\ heard = <<>> /\ heard' = heard
          BY <2>1, <3>1 DEF Story
        <4>2. Len(heard') = 0 /\ (m + 1) - 1 = 0 /\ m + 1 > 0
          BY <4>1
        <4>3. \A i \in 1..0 : FALSE
          OBVIOUS
        <4> QED
          BY <4>2, <4>3
      <3>2. CASE hear = "run"
        <4>1. m > 0 /\ Len(heard) = m - 1 /\ \A i \in 1..(m - 1) : heard[i] = t[i + 1]
          BY <2>1, <3>2 DEF Story
        <4>2. /\ Len(heard') = (m - 1) + 1 /\ heard'[(m - 1) + 1] = t[m + 1]
              /\ \A i \in 1..(m - 1) : heard'[i] = heard[i]
          BY <1>2, <2>4, <2>6, <3>2, <4>1, PutLast
        <4>3. /\ (m - 1) + 1 = m /\ (m + 1) - 1 = m /\ m + 1 > 0
              /\ \A i \in 1..m : i \in 1..(m - 1) \/ i = m
          OBVIOUS
        <4> QED
          BY <4>1, <4>2, <4>3
      <3> QED
        BY <1>2, <3>1, <3>2
    <2>9. m + 1 \in Nat /\ k \in Nat /\ m + 1 <= k /\ k <= Len(t)
      BY <2>2, <2>6
    <2>10. /\ Chained(t)
           /\ Len(t) > 0 => t[1].n = 0
           /\ Len(Feed) = Len(t) - k /\ \A i \in 1..(Len(t) - k) : Feed[i] = t[k + i]
           /\ \A i \in 1..Len(t) : t[i].link <= made
           /\ endpoint # 0 => Len(t) > 0 /\ t[Len(t)].link = endpoint /\ t[Len(t)].n = peerSent[endpoint]
      BY <2>1 DEF Story
    <2>11. hear' # "greet"
      OBVIOUS
    <2>12. Story(t, m + 1, k)'
      BY <1>1, <2>7, <2>8, <2>9, <2>10, <2>11 DEF Story
    <2> QED
      BY <2>9, <2>12
  <1>4. HeardInOrder'
    <2>1. CASE given.endless
      BY <2>1 DEF HeardInOrder
    <2>2. CASE ~given.endless
      <3>1. hear' # "ended"
        OBVIOUS
      <3>2. PICK t \in Seq(Messages), m \in Nat, k \in Nat : Story(t, m, k)'
        BY <1>3, <2>2
      <3>3. (HeardTypes /\ hear # "ended" /\ Story(t, m, k) => HeardInOrder)'
        BY StorySays, PTL
      <3> QED
        BY <3>1, <3>2, <3>3
    <2> QED
      BY <2>1, <2>2
  <1> QED
    BY <1>3, <1>4 DEF HeardInv

LEMMA InitHeard == ClientInit => HeardInv
  <1> SUFFICES ASSUME ClientInit PROVE HeardInv
    OBVIOUS
  <1>1. HeardInOrder
    BY DEF ClientInit, HeardInOrder
  <1>2. <<>> \in Seq(Messages) /\ Len(<<>>) = 0
    OBVIOUS
  <1>3. Story(<<>>, 0, 0)
    BY <1>2 DEF ClientInit, Story, Feed, Chained
  <1> QED
    BY <1>1, <1>2, <1>3 DEF HeardInv

LEMMA NextHeard ==
    LinkTypes /\ HeardTypes /\ HeardTypes' /\ HeardInv /\ [ClientNext]_clientVars => HeardInv'
  <1> SUFFICES ASSUME LinkTypes, HeardTypes, HeardTypes', HeardInv, [ClientNext]_clientVars PROVE HeardInv'
    OBVIOUS
  <1>1. CASE Create
    <2>1. CASE given.endless
      BY <1>1, <2>1 DEF Create, HeardInv, HeardInOrder
    <2>2. CASE ~given.endless
      BY <1>1, <2>2, HeardAnew
    <2> QED
      BY <2>1, <2>2
  <1>2. CASE Ready
    <2>1. CASE statusOpen
      BY <1>2, <2>1, HeardStays DEF Ready, hearVars
    <2>2. CASE ~statusOpen
      BY <1>2, <2>2, HeardDropped DEF Ready, LetGo, hearVars
    <2> QED
      BY <2>1, <2>2
  <1>3. CASE EndFatal
    <2>1. CASE endpoint = 0
      BY <1>3, <2>1, HeardStays DEF EndFatal, hearVars
    <2>2. CASE endpoint # 0
      BY <1>3, <2>2, HeardDropped DEF EndFatal, LetGo, hearVars
    <2> QED
      BY <2>1, <2>2
  <1>4. CASE Reset
    BY <1>4, HeardDropped DEF Reset, LetGo, hearVars
  <1>5. CASE ToPeer
    <2>1. CASE endpoint \in down
      BY <1>5, <2>1, HeardDropped DEF ToPeer, LetGo, hearVars
    <2>2. CASE endpoint \notin down
      BY <1>5, <2>2, HeardStays DEF ToPeer, hearVars
    <2> QED
      BY <2>1, <2>2
  <1>6. CASE FromPeer
    BY <1>6, HeardFed
  <1>7. CASE HearFirst
    <2>1. UNCHANGED <<given, made, endpoint, fromPeer, peerSent, heard>> /\ hear = "greet" /\ toClient # <<>>
      BY <1>7 DEF HearFirst, linkVars
    <2>2. CASE Head(toClient).kind = "greet"
      BY <1>7, <2>1, <2>2, HeardTaken DEF HearFirst
    <2>3. CASE Head(toClient).kind # "greet"
      BY <1>7, <2>1, <2>3 DEF HearFirst, HeardInv, HeardInOrder
    <2> QED
      BY <2>2, <2>3
  <1>8. CASE Hear
    <2>1. UNCHANGED <<given, made, endpoint, fromPeer, peerSent>> /\ hear = "run" /\ toClient # <<>>
      BY <1>8 DEF Hear, linkVars
    <2>2. CASE Accepted(Head(toClient))
      BY <1>8, <2>1, <2>2, HeardTaken DEF Hear
    <2>3. CASE ~Accepted(Head(toClient))
      BY <1>8, <2>1, <2>3 DEF Hear, HeardInv, HeardInOrder
    <2> QED
      BY <2>2, <2>3
  <1>9. CASE HearEnd
    BY <1>9 DEF HearEnd, HeardInv, HeardInOrder
  <1>10. CASE PeerSends
    BY <1>10, HeardMore
  <1>11. CASE Begin \/ Connecting \/ Close \/ TellClosed \/ NoMoreUsers \/ NoMorePeer
    BY <1>11, HeardStays DEF Begin, Connecting, Close, TellClosed, NoMoreUsers, NoMorePeer, linkVars, hearVars
  <1>12. CASE RelayStatus \/ Route \/ Ask(CloseWave) \/ Ask(ResetWave) \/ Leave \/ Subscribe \/ PeerLeaves
    BY <1>12, HeardStays DEF RelayStatus, Route, Ask, Leave, Subscribe, PeerLeaves, linkVars, hearVars
  <1>13. CASE UNCHANGED clientVars
    BY <1>13, HeardStays DEF clientVars, linkVars, hearVars
  <1> QED
    BY <1>1, <1>2, <1>3, <1>4, <1>5, <1>6, <1>7, <1>8, <1>9, <1>10, <1>11, <1>12, <1>13
    DEF ClientNext, Runner, Others

-----------------------------------------------------------------------------
\* Nothing overtakes or is repeated at the client's end of a hyperway, towards the peer or
\* from it, however often the HyperClientRunner connects again, is reset or closed:
\* HyperClientRunner::start and the client's relay task keep the order across connections.
THEOREM ClientInOrderOnce == ClientSpec => []InOrderOnce
  <1> DEFINE IInv == LinkTypes /\ SentTypes /\ SentInv /\ HeardTypes /\ HeardInv
  <1>1. ClientInit => IInv
    BY InitLinkTypes, InitSent, InitHeardTypes, InitHeard
  <1>2. IInv /\ [ClientNext]_clientVars => IInv'
    BY NextLinkTypes, NextSent, NextHeardTypes, NextHeard
  <1>3. IInv => InOrderOnce
    BY SentInvSays DEF InOrderOnce, HeardInv
  <1> QED
    BY <1>1, <1>2, <1>3, PTL DEF ClientSpec
=============================================================================
