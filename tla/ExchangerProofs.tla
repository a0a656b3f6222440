-------------------------- MODULE ExchangerProofs --------------------------
(* Theorems about Exchanger for any waves, any counts and any reflections, and about Layers   *)
(* for any particles, plans and pipelines.                                                   *)
EXTENDS Exchanger, Layers, FiniteSetTheorems, TLAPS

\* The initial state is well typed.
LEMMA InitTypeOK == Init => TypeOK
  BY WaveAssumption DEF Init, TypeOK, Cap

\* An answer with one reflection, and one with many, are answers.
LEMMA AnswerShapes ==
    /\ \A r \in Reflections \cup {Timeout} : Single(r) \in Answers
    /\ \A s \in Seq(Reflections \cup {Timeout}) : Multi(s) \in Answers
  BY DEF Single, Multi, Answers

\* Claiming a oneshot with a well-formed answer keeps the types of both maps.
LEMMA ClaimType ==
    ASSUME TypeOK, NEW w \in Waves, NEW a \in Answers, ClaimSingle(w, a)
    PROVE  singles' \subseteq Waves /\ answer' \in [Waves -> Answers \cup {None}]
  BY DEF TypeOK, ClaimSingle

\* What an aggregator has collected can be answered.
LEMMA AggIsBody ==
    ASSUME TypeOK, NEW w \in Waves
    PROVE  /\ Multi(agg[w]) \in Answers
           /\ Multi(TimeoutBody(w)) \in Answers
  <1>1. agg[w] \in Seq(Reflections \cup {Timeout})
    BY DEF TypeOK
  <1>2. <<Timeout>> \in Seq(Reflections \cup {Timeout})
    OBVIOUS
  <1>3. TimeoutBody(w) \in Seq(Reflections \cup {Timeout})
    BY <1>1, <1>2 DEF TimeoutBody
  <1> QED
    BY <1>1, <1>3, AnswerShapes

\* Every step keeps the types.
LEMMA NextTypeOK == TypeOK /\ [Next]_vars => TypeOK'
  <1> SUFFICES ASSUME TypeOK, [Next]_vars PROVE TypeOK'
    OBVIOUS
  <1> USE WaveAssumption, ReflectionAssumption DEF exchange, aggregator
  <1>1. ASSUME NEW w \in Waves, Exchange(w) PROVE TypeOK'
    BY <1>1 DEF TypeOK, Exchange, Cap
  <1>2. ASSUME NEW w \in Waves, Route(w) PROVE TypeOK'
    BY <1>2 DEF TypeOK, Route, Cap
  <1>3. ASSUME NEW w \in Waves, Return(w) PROVE TypeOK'
    BY <1>3 DEF TypeOK, Return, Cap
  <1>4. ASSUME NEW w \in Waves, TimeoutSingle(w) PROVE TypeOK'
    <2>1. singles' \subseteq Waves /\ answer' \in [Waves -> Answers \cup {None}]
      <3>1. CASE ClaimSingle(w, Single(Timeout))
        BY <3>1, ClaimType, AnswerShapes
      <3>2. CASE UNCHANGED <<singles, answer>>
        BY <3>2 DEF TypeOK
      <3> QED
        BY <1>4, <3>1, <3>2 DEF TimeoutSingle
    <2> QED
      BY <1>4, <2>1 DEF TypeOK, TimeoutSingle, Cap
  <1>5. ASSUME NEW w \in Waves, TimeoutMulti(w) PROVE TypeOK'
    BY <1>5 DEF TypeOK, TimeoutMulti, Cap
  <1>6. ASSUME NEW w \in Waves, Aggregate(w) PROVE TypeOK'
    <2>1. /\ chan[w] \in Seq(Reflections) /\ chan[w] # <<>>
          /\ Head(chan[w]) \in Reflections /\ Tail(chan[w]) \in Seq(Reflections)
          /\ Len(Tail(chan[w])) <= Len(chan[w]) /\ Len(chan[w]) \in Nat
          /\ Len(Tail(chan[w])) \in Nat /\ Cap(w) \in Nat
      BY <1>6 DEF TypeOK, Aggregate, Cap
    <2>2. Len(Tail(chan[w])) <= Cap(w)
      BY <2>1 DEF TypeOK
    <2>3. Append(agg[w], Head(chan[w])) \in Seq(Reflections)
      BY <2>1 DEF TypeOK
    <2>4. chan' \in [Waves -> Seq(Reflections)] /\ \A v \in Waves : Len(chan'[v]) <= Cap(v)
      BY <1>6, <2>1, <2>2 DEF TypeOK, Aggregate
    <2>5. agg' \in [Waves -> Seq(Reflections)]
      BY <1>6, <2>3 DEF TypeOK, Aggregate
    <2>6. loop' \in [Waves -> {"off", "recv", "full", "done"}]
      BY <1>6 DEF TypeOK, Aggregate
    <2> QED
      BY <1>6, <2>4, <2>5, <2>6 DEF TypeOK, Aggregate, Cap
  <1>7. ASSUME NEW w \in Waves, AggregateFull(w) PROVE TypeOK'
    <2>1. singles' \subseteq Waves /\ answer' \in [Waves -> Answers \cup {None}]
      <3>1. CASE ClaimSingle(w, Multi(agg[w]))
        BY <3>1, ClaimType, AggIsBody
      <3>2. CASE UNCHANGED <<singles, answer>>
        BY <3>2 DEF TypeOK
      <3> QED
        BY <1>7, <3>1, <3>2 DEF AggregateFull
    <2>2. loop' \in [Waves -> {"off", "recv", "full", "done"}]
      <3>1. loop' = [loop EXCEPT ![w] = "done"] \/ loop' = [loop EXCEPT ![w] = "recv"]
        BY <1>7 DEF AggregateFull
      <3> QED
        BY <3>1 DEF TypeOK
    <2>3. UNCHANGED <<pc, timer, multis, chan, agg, at>>
      BY <1>7 DEF AggregateFull
    <2> QED
      BY <2>1, <2>2, <2>3 DEF TypeOK, Cap
  <1>8. ASSUME NEW w \in Waves, AggregateClosed(w) PROVE TypeOK'
    <2>1. singles' \subseteq Waves /\ answer' \in [Waves -> Answers \cup {None}]
      BY <1>8, ClaimType, AggIsBody DEF AggregateClosed
    <2> QED
      BY <1>8, <2>1 DEF TypeOK, AggregateClosed, Cap
  <1>9. ASSUME NEW r \in Reflections, Reflected(r) PROVE TypeOK'
    BY <1>9 DEF TypeOK, Reflected, Cap
  <1>10. ASSUME NEW r \in Reflections, ReflectMulti(r) PROVE TypeOK'
    <2> DEFINE w == Of[r]
    <2>1. w \in Waves /\ chan[w] \in Seq(Reflections) /\ Len(chan[w]) \in Nat /\ Cap(w) \in Nat
      BY DEF TypeOK, Cap
    <2>2. /\ chan' \in [Waves -> Seq(Reflections)]
          /\ \A v \in Waves : Len(chan'[v]) <= Cap(v)
      <3>1. CASE UNCHANGED chan
        BY <3>1 DEF TypeOK
      <3>2. CASE Len(chan[w]) < Cap(w) /\ chan' = [chan EXCEPT ![w] = Append(@, r)]
        <4>1. Append(chan[w], r) \in Seq(Reflections) /\ Len(Append(chan[w], r)) <= Cap(w)
          BY <2>1, <3>2
        <4> QED
          BY <2>1, <3>2, <4>1 DEF TypeOK
      <3> QED
        BY <1>10, <3>1, <3>2 DEF ReflectMulti
    <2>3. at' \in [Reflections ->
                 {"idle", "sending", "claiming", "sent", "dropped", "claimed", "refused"}]
      <3>1. at' = [at EXCEPT ![r] = "dropped"] \/ at' = [at EXCEPT ![r] = "sent"]
        BY <1>10 DEF ReflectMulti
      <3>2. at \in [Reflections ->
                  {"idle", "sending", "claiming", "sent", "dropped", "claimed", "refused"}]
        BY DEF TypeOK
      <3> QED
        BY <3>1, <3>2
    <2> QED
      BY <1>10, <2>2, <2>3 DEF TypeOK, ReflectMulti, Cap
  <1>11. ASSUME NEW r \in Reflections, ReflectSingle(r) PROVE TypeOK'
    <2>1. singles' \subseteq Waves /\ answer' \in [Waves -> Answers \cup {None}]
      <3>1. CASE ClaimSingle(Of[r], Single(r))
        <4>1. Of[r] \in Waves /\ Single(r) \in Answers
          BY AnswerShapes
        <4> QED
          BY <3>1, <4>1, ClaimType
      <3>2. CASE UNCHANGED <<singles, answer>>
        BY <3>2 DEF TypeOK
      <3> QED
        BY <1>11, <3>1, <3>2 DEF ReflectSingle
    <2>2. at' \in [Reflections ->
                 {"idle", "sending", "claiming", "sent", "dropped", "claimed", "refused"}]
      BY <1>11 DEF TypeOK, ReflectSingle
    <2> QED
      BY <1>11, <2>1, <2>2 DEF TypeOK, ReflectSingle, Cap
  <1>12. CASE UNCHANGED vars
    BY <1>12 DEF TypeOK, vars, Cap
  <1> QED
    BY <1>1, <1>2, <1>3, <1>4, <1>5, <1>6, <1>7, <1>8, <1>9, <1>10, <1>11, <1>12 DEF Next

\* The exchanger's state keeps its type, and no channel exceeds its capacity.
THEOREM TypeCorrect == Spec => []TypeOK
  BY InitTypeOK, NextTypeOK, PTL DEF Spec

-----------------------------------------------------------------------------
(* Who holds a wave's oneshot.  The three invariants about answers follow    *)
(* from one that says what direct, the maps and the reflectors know of each  *)
(* other.                                                                    *)

\* Before a wave is registered nothing knows of it; only one that expects to be
\* answered is registered.
Fresh ==
    /\ \A w \in Waves : pc[w] \in {"registered", "waiting"} => BounceBacks[w] # "None"
    /\ \A w \in Waves : pc[w] = "start" =>
          w \notin singles /\ w \notin multis /\ loop[w] = "off" /\ answer[w] = None

\* From its registration on, a wave has a sender in `singles` or an answer.
SenderOrAnswer ==
    \A w \in Waves :
        pc[w] # "start" /\ BounceBacks[w] # "None" => (w \in singles <=> answer[w] = None)

\* A reflector has work only for a routed wave, and one that found the wave missing
\* from `multis` will not see it come back.
ReflectorKnows ==
    \A r \in Reflections :
        /\ at[r] # "idle" => pc[Of[r]] \notin {"start", "registered"}
        /\ at[r] = "claiming" => Of[r] \notin multis

\* Aggregators belong to ripples, and one that has ended has answered.
AggregatorKnows ==
    \A w \in Waves :
        /\ loop[w] # "off" => IsMulti(w)
        /\ loop[w] = "done" => answer[w] # None

OneshotInv ==
    /\ Fresh
    /\ SenderOrAnswer
    /\ ReflectorKnows
    /\ AggregatorKnows
    /\ RefusedOnlyLate
    /\ OrphanedOnlyByLateReply

\* Before the first wave nothing is owed, answered or orphaned.
LEMMA InitOneshot == Init => OneshotInv
  BY ReflectionAssumption
  DEF Init, OneshotInv, Fresh, SenderOrAnswer, ReflectorKnows, AggregatorKnows,
      RefusedOnlyLate, OrphanedOnlyByLateReply

\* Claiming a oneshot moves one wave from `singles` to the answered.
LEMMA ClaimEffect ==
    ASSUME TypeOK, NEW w \in Waves, NEW a \in Answers, ClaimSingle(w, a)
    PROVE  /\ w \in singles
           /\ \A v \in Waves : v \in singles' <=> v \in singles /\ v # w
           /\ \A v \in Waves : answer'[v] = IF v = w THEN a ELSE answer[v]
           /\ a # None
  BY NoneAssumption DEF TypeOK, ClaimSingle

\* A step that claims the oneshot of w keeps the invariant, provided an aggregator
\* it leaves behind is one whose wave a late reply has answered.
LEMMA ClaimKeeps ==
    ASSUME TypeOK, OneshotInv, NEW w \in Waves, NEW a \in Answers, ClaimSingle(w, a),
           UNCHANGED <<pc, multis>>,
           \A v \in Waves : v # w => loop'[v] = loop[v],
           \/ loop[w] # "off" /\ loop'[w] = "done"
           \/ loop'[w] = loop[w] /\ (loop[w] = "off" \/ (w \notin multis /\ a.shape = "Single")),
           \A r \in Reflections : \/ at'[r] = at[r]
                                  \/ at[r] = "claiming" /\ at'[r] = "claimed"
    PROVE  OneshotInv'
  <1>1. /\ w \in singles
        /\ \A v \in Waves : v \in singles' <=> v \in singles /\ v # w
        /\ \A v \in Waves : v # w => answer'[v] = answer[v]
        /\ answer'[w] = a /\ a # None
    BY ClaimEffect
  <1>2. pc[w] # "start" /\ pc' = pc /\ multis' = multis
    BY <1>1 DEF OneshotInv, Fresh
  <1>3. Fresh'
    BY <1>1, <1>2 DEF OneshotInv, Fresh
  <1>4. SenderOrAnswer'
    BY <1>1, <1>2 DEF OneshotInv, SenderOrAnswer
  <1>5. ReflectorKnows'
    BY <1>2 DEF OneshotInv, ReflectorKnows
  <1>6. AggregatorKnows'
    BY <1>1 DEF OneshotInv, AggregatorKnows, IsMulti
  <1>7. RefusedOnlyLate'
    BY <1>1, ReflectionAssumption DEF OneshotInv, RefusedOnlyLate
  <1>8. OrphanedOnlyByLateReply'
    <2> SUFFICES ASSUME NEW v \in Waves, loop'[v] \in {"recv", "full"}, v \notin singles'
                 PROVE  v \notin multis' /\ answer'[v] # None /\ answer'[v].shape = "Single"
      BY DEF OrphanedOnlyByLateReply
    <2>1. CASE v = w
      BY <1>1, <1>2, <2>1
    <2>2. CASE v # w
      BY <1>1, <1>2, <2>2 DEF OneshotInv, OrphanedOnlyByLateReply
    <2> QED
      BY <2>1, <2>2
  <1> QED
    BY <1>3, <1>4, <1>5, <1>6, <1>7, <1>8 DEF OneshotInv

\* Every step keeps the oneshot senders accounted for.
LEMMA NextOneshot == TypeOK /\ OneshotInv /\ [Next]_vars => OneshotInv'
  <1> SUFFICES ASSUME TypeOK, OneshotInv, [Next]_vars PROVE OneshotInv'
    OBVIOUS
  <1> USE WaveAssumption, ReflectionAssumption DEF exchange, aggregator, OneshotInv
  <1> USE DEF Fresh, SenderOrAnswer, ReflectorKnows, AggregatorKnows, RefusedOnlyLate,
          OrphanedOnlyByLateReply
  <1>1. ASSUME NEW w \in Waves, Exchange(w) PROVE OneshotInv'
    BY <1>1 DEF TypeOK, Exchange, IsMulti
  <1>2. ASSUME NEW w \in Waves, Route(w) PROVE OneshotInv'
    BY <1>2 DEF TypeOK, Route, IsMulti
  <1>3. ASSUME NEW w \in Waves, Return(w) PROVE OneshotInv'
    <2>1. \A v \in Waves : v # w => pc'[v] = pc[v]
      BY <1>3 DEF Return, TypeOK
    <2>2. pc[w] = "waiting" /\ pc'[w] \in {"returned", "failed"}
      BY <1>3 DEF Return, TypeOK
    <2> QED
      BY <1>3, <2>1, <2>2 DEF Return, TypeOK, IsMulti
  <1>4. ASSUME NEW w \in Waves, TimeoutSingle(w) PROVE OneshotInv'
    <2>1. CASE ClaimSingle(w, Single(Timeout))
      <3>1. Single(Timeout) \in Answers
        BY AnswerShapes
      <3>2. loop[w] = "off" /\ UNCHANGED <<pc, multis, loop, at>>
        BY <1>4 DEF TimeoutSingle, IsMulti
      <3> QED
        BY <2>1, <3>1, <3>2, ClaimKeeps
    <2>2. CASE UNCHANGED <<singles, answer>>
      BY <1>4, <2>2 DEF TimeoutSingle, TypeOK, IsMulti
    <2> QED
      BY <1>4, <2>1, <2>2 DEF TimeoutSingle
  <1>5. ASSUME NEW w \in Waves, TimeoutMulti(w) PROVE OneshotInv'
    BY <1>5 DEF TypeOK, TimeoutMulti, IsMulti
  <1>6. ASSUME NEW w \in Waves, Aggregate(w) PROVE OneshotInv'
    <2>1. \A v \in Waves : v # w => loop'[v] = loop[v]
      BY <1>6 DEF Aggregate, TypeOK
    <2>2. loop[w] = "recv" /\ loop'[w] \in {"recv", "full"}
      BY <1>6 DEF Aggregate, TypeOK
    <2> QED
      BY <1>6, <2>1, <2>2 DEF TypeOK, Aggregate, IsMulti
  <1>7. ASSUME NEW w \in Waves, AggregateFull(w) PROVE OneshotInv'
    <2>1. CASE ClaimSingle(w, Multi(agg[w])) /\ loop' = [loop EXCEPT ![w] = "done"]
      <3>1. loop[w] = "full" /\ \A v \in Waves : loop'[v] = IF v = w THEN "done" ELSE loop[v]
        BY <1>7, <2>1 DEF AggregateFull, TypeOK
      <3> QED
        BY <1>7, <2>1, <3>1, AggIsBody, ClaimKeeps DEF AggregateFull
    <2>2. CASE UNCHANGED <<singles, answer>> /\ loop' = [loop EXCEPT ![w] = "recv"]
      BY <1>7, <2>2 DEF AggregateFull, TypeOK, IsMulti
    <2> QED
      BY <1>7, <2>1, <2>2 DEF AggregateFull
  <1>8. ASSUME NEW w \in Waves, AggregateClosed(w) PROVE OneshotInv'
    <2>1. ClaimSingle(w, Multi(TimeoutBody(w))) /\ UNCHANGED <<pc, multis, at>>
      BY <1>8 DEF AggregateClosed
    <2>2. loop[w] = "recv" /\ \A v \in Waves : loop'[v] = IF v = w THEN "done" ELSE loop[v]
      BY <1>8 DEF AggregateClosed, TypeOK
    <2> QED
      BY <2>1, <2>2, AggIsBody, ClaimKeeps
  <1>9. ASSUME NEW r \in Reflections, Reflected(r) PROVE OneshotInv'
    BY <1>9 DEF Reflected, TypeOK, IsMulti
  <1>10. ASSUME NEW r \in Reflections, ReflectMulti(r) PROVE OneshotInv'
    BY <1>10 DEF ReflectMulti, TypeOK, IsMulti
  <1>11. ASSUME NEW r \in Reflections, ReflectSingle(r) PROVE OneshotInv'
    <2>1. CASE ClaimSingle(Of[r], Single(r)) /\ at' = [at EXCEPT ![r] = "claimed"]
      <3>1. Of[r] \in Waves /\ Single(r) \in Answers /\ Single(r).shape = "Single"
        BY AnswerShapes DEF Single
      <3>2. at[r] = "claiming" /\ UNCHANGED <<pc, multis, loop>>
        BY <1>11 DEF ReflectSingle
      <3>3. \A q \in Reflections : at'[q] = IF q = r THEN "claimed" ELSE at[q]
        BY <2>1 DEF TypeOK
      <3>4. Of[r] \notin multis
        BY <3>2
      <3> HIDE DEF Fresh, SenderOrAnswer, ReflectorKnows, AggregatorKnows, RefusedOnlyLate,
              OrphanedOnlyByLateReply, OneshotInv
      <3> QED
        BY <2>1, <3>1, <3>2, <3>3, <3>4, ClaimKeeps
    <2>2. CASE /\ Of[r] \notin singles /\ UNCHANGED <<singles, answer>>
               /\ at' = [at EXCEPT ![r] = "refused"]
      BY <1>11, <2>2 DEF ReflectSingle, TypeOK, IsMulti
    <2> QED
      BY <1>11, <2>1, <2>2 DEF ReflectSingle
  <1>12. CASE UNCHANGED vars
    BY <1>12 DEF vars, IsMulti
  <1> QED
    BY <1>1, <1>2, <1>3, <1>4, <1>5, <1>6, <1>7, <1>8, <1>9, <1>10, <1>11, <1>12 DEF Next

\* No oneshot sender is dropped unused: direct's wait never ends in a RecvError.
THEOREM AnswersAreOwed == Spec => []AnswerOwed
  <1>1. TypeOK /\ OneshotInv => AnswerOwed
    BY WaveAssumption DEF TypeOK, OneshotInv, Fresh, SenderOrAnswer, AnswerOwed
  <1> QED
    BY <1>1, InitOneshot, NextOneshot, TypeCorrect, PTL DEF Spec

\* No reply is turned away while its wave is unanswered.
THEOREM OnlyLateRepliesRefused == Spec => []RefusedOnlyLate
  <1>1. OneshotInv => RefusedOnlyLate
    BY DEF OneshotInv
  <1> QED
    BY <1>1, InitOneshot, NextOneshot, TypeCorrect, PTL DEF Spec

\* The late reply is the only way to an aggregator that can never answer.
THEOREM OrphansHaveOneCause == Spec => []OrphanedOnlyByLateReply
  <1>1. OneshotInv => OrphanedOnlyByLateReply
    BY DEF OneshotInv
  <1> QED
    BY <1>1, InitOneshot, NextOneshot, TypeCorrect, PTL DEF Spec

-----------------------------------------------------------------------------
(* What a ripple is answered with.  A reply that was sent is in its wave's     *)
(* channel or with its aggregator, in one place, and stays there: the answer   *)
(* is what the aggregator has when it ends.                                    *)

Holds(q, r) == \E i \in DOMAIN q : q[i] = r
NoTwice(q) == \A i, j \in DOMAIN q : q[i] = q[j] => i = j

\* What an aggregator has or is about to get was sent, and by a reflector of its wave.
Sound ==
    \A w \in Waves, r \in Reflections :
        Holds(agg[w], r) \/ Holds(chan[w], r) => at[r] = "sent" /\ Of[r] = w

\* What was sent is there.
Complete ==
    \A r \in Reflections : at[r] = "sent" => Holds(agg[Of[r]], r) \/ Holds(chan[Of[r]], r)

\* No reply is there twice.
Distinct ==
    \A w \in Waves :
        /\ NoTwice(agg[w]) /\ NoTwice(chan[w])
        /\ \A r \in Reflections : ~(Holds(agg[w], r) /\ Holds(chan[w], r))

\* An aggregator is full with exactly what was asked for.
FullMeans ==
    \A w \in Waves : loop[w] = "full" => BounceBacks[w] = "Count" /\ Len(agg[w]) = Count[w]

\* The answer of an aggregator is what it ended with.
AnsweredWith ==
    \A w \in Waves : answer[w] # None /\ answer[w].shape = "Multi" =>
        /\ loop[w] = "done"
        /\ BounceBacks[w] = "Count" =>
              \/ answer[w].body = <<Timeout>>
              \/ answer[w].body = agg[w] /\ Len(agg[w]) = Count[w]
        /\ BounceBacks[w] = "Timer" => answer[w].body = agg[w] /\ chan[w] = <<>>

KeptInv == Sound /\ Complete /\ Distinct /\ FullMeans /\ AnsweredWith

\* A sequence with one more element holds that one as well.
LEMMA AppendHolds ==
    ASSUME NEW q \in Seq(Reflections), NEW r \in Reflections
    PROVE  /\ \A x : Holds(Append(q, r), x) <=> Holds(q, x) \/ x = r
           /\ NoTwice(q) /\ ~Holds(q, r) => NoTwice(Append(q, r))
  <1> DEFINE p == Append(q, r)
  <1>1. /\ Len(p) = Len(q) + 1 /\ Len(q) \in Nat /\ p[Len(q) + 1] = r
        /\ DOMAIN p = 1..Len(q) + 1 /\ DOMAIN q = 1..Len(q)
        /\ \A i \in 1..Len(q) : p[i] = q[i]
    OBVIOUS
  <1> HIDE DEF p
  <1>2. \A x : Holds(p, x) <=> Holds(q, x) \/ x = r
    BY <1>1 DEF Holds
  <1>3. NoTwice(q) /\ ~Holds(q, r) => NoTwice(p)
    BY <1>1 DEF NoTwice, Holds
  <1> QED
    BY <1>2, <1>3 DEF p

\* A sequence's head and tail hold what it held, the tail its head no more.
LEMMA TailHolds ==
    ASSUME NEW q \in Seq(Reflections), q # <<>>
    PROVE  /\ Head(q) \in Reflections /\ Tail(q) \in Seq(Reflections)
           /\ \A x : Holds(q, x) <=> x = Head(q) \/ Holds(Tail(q), x)
           /\ NoTwice(q) => NoTwice(Tail(q)) /\ ~Holds(Tail(q), Head(q))
  <1> DEFINE p == Tail(q)
  <1>1. /\ Head(q) = q[1] /\ Len(q) \in Nat \ {0} /\ Len(p) = Len(q) - 1
        /\ DOMAIN p = 1..Len(q) - 1 /\ DOMAIN q = 1..Len(q)
        /\ \A i \in 1..Len(q) - 1 : p[i] = q[i + 1]
        /\ Head(q) \in Reflections /\ p \in Seq(Reflections)
    OBVIOUS
  <1> HIDE DEF p
  <1>2. ASSUME NEW x PROVE Holds(q, x) <=> x = Head(q) \/ Holds(p, x)
    <2>1. ASSUME Holds(q, x), x # Head(q) PROVE Holds(p, x)
      <3>1. PICK i \in 1..Len(q) : q[i] = x
        BY <1>1, <2>1 DEF Holds
      <3>2. i - 1 \in 1..Len(q) - 1 /\ p[i - 1] = q[(i - 1) + 1] /\ (i - 1) + 1 = i
        BY <1>1, <2>1, <3>1
      <3> QED
        BY <1>1, <3>1, <3>2 DEF Holds
    <2>2. ASSUME Holds(p, x) PROVE Holds(q, x)
      <3>1. PICK i \in 1..Len(q) - 1 : p[i] = x
        BY <1>1, <2>2 DEF Holds
      <3>2. i + 1 \in 1..Len(q) /\ q[i + 1] = x
        BY <1>1, <3>1
      <3> QED
        BY <1>1, <3>2 DEF Holds
    <2>3. Holds(q, Head(q))
      BY <1>1 DEF Holds
    <2> QED
      BY <2>1, <2>2, <2>3
  <1>3. ASSUME NoTwice(q) PROVE NoTwice(p) /\ ~Holds(p, Head(q))
    <2>1. ASSUME NEW i \in 1..Len(q) - 1, NEW j \in 1..Len(q) - 1, p[i] = p[j] PROVE i = j
      <3>1. i + 1 \in 1..Len(q) /\ j + 1 \in 1..Len(q) /\ q[i + 1] = q[j + 1]
        BY <1>1, <2>1
      <3>2. i + 1 = j + 1
        BY <1>1, <1>3, <3>1 DEF NoTwice
      <3> QED
        BY <1>1, <3>2
    <2>2. ASSUME NEW i \in 1..Len(q) - 1, p[i] = Head(q) PROVE FALSE
      <3>1. i + 1 \in 1..Len(q) /\ 1 \in 1..Len(q) /\ q[i + 1] = q[1] /\ i + 1 # 1
        BY <1>1, <2>2
      <3> QED
        BY <1>1, <1>3, <3>1 DEF NoTwice
    <2> QED
      BY <1>1, <2>1, <2>2 DEF NoTwice, Holds
  <1> QED
    BY <1>1, <1>2, <1>3 DEF p

\* Before the first wave nothing is collected or answered.
LEMMA InitKept == Init => KeptInv
  BY DEF Init, KeptInv, Sound, Complete, Distinct, FullMeans, AnsweredWith, Holds, NoTwice

\* A step that moves no reply keeps all but what it says of answers.
LEMMA Unmoved ==
    ASSUME KeptInv, UNCHANGED <<chan, agg>>, AnsweredWith',
           \A r \in Reflections : at'[r] = "sent" <=> at[r] = "sent",
           \A w \in Waves : loop'[w] = "full" => loop[w] = "full"
    PROVE  KeptInv'
  <1>1. Sound'
    BY DEF KeptInv, Sound
  <1>2. Complete'
    BY ReflectionAssumption DEF KeptInv, Complete
  <1>3. Distinct'
    BY DEF KeptInv, Distinct
  <1>4. FullMeans'
    BY DEF KeptInv, FullMeans
  <1> QED
    BY <1>1, <1>2, <1>3, <1>4 DEF KeptInv

\* A step that gives no aggregator's answer keeps the ones that were given.
LEMMA NoAnswer ==
    ASSUME KeptInv, UNCHANGED <<chan, agg>>,
           \A w \in Waves : \/ answer'[w] = answer[w]
                            \/ answer'[w].shape = "Single",
           \A w \in Waves : loop[w] = "done" /\ answer[w] # None => loop'[w] = "done"
    PROVE  AnsweredWith'
  BY DEF KeptInv, AnsweredWith

\* The aggregator of w takes a reply from its channel.
LEMMA AggregateKeeps ==
    ASSUME TypeOK, KeptInv, NEW w \in Waves, Aggregate(w)
    PROVE  KeptInv'
  <1> DEFINE r == Head(chan[w])
  <1>1. /\ loop[w] = "recv" /\ chan[w] # <<>> /\ at' = at /\ answer' = answer
        /\ chan[w] \in Seq(Reflections) /\ agg[w] \in Seq(Reflections)
    BY DEF Aggregate, TypeOK
  <1>2. /\ r \in Reflections
        /\ \A x : Holds(chan[w], x) <=> x = r \/ Holds(Tail(chan[w]), x)
        /\ NoTwice(chan[w]) => NoTwice(Tail(chan[w])) /\ ~Holds(Tail(chan[w]), r)
    BY <1>1, TailHolds
  <1>3. /\ \A x : Holds(Append(agg[w], r), x) <=> Holds(agg[w], x) \/ x = r
        /\ NoTwice(agg[w]) /\ ~Holds(agg[w], r) => NoTwice(Append(agg[w], r))
    BY <1>1, <1>2, AppendHolds
  <1>4. /\ chan'[w] = Tail(chan[w]) /\ agg'[w] = Append(agg[w], r)
        /\ \A v \in Waves : v # w => chan'[v] = chan[v] /\ agg'[v] = agg[v] /\ loop'[v] = loop[v]
        /\ loop'[w] \in {"recv", "full"}
        /\ loop'[w] = "full" => BounceBacks[w] = "Count" /\ Len(agg'[w]) = Count[w]
    BY DEF Aggregate, TypeOK
  <1> HIDE DEF r
  <1>5. \A v \in Waves : \A x : Holds(agg'[v], x) \/ Holds(chan'[v], x)
                                <=> Holds(agg[v], x) \/ Holds(chan[v], x)
    BY <1>2, <1>3, <1>4
  <1>6. Sound'
    BY <1>1, <1>5 DEF KeptInv, Sound
  <1>7. Complete'
    BY <1>1, <1>5, ReflectionAssumption DEF KeptInv, Complete
  <1>8. Distinct'
    <2> SUFFICES ASSUME NEW v \in Waves
                 PROVE  /\ NoTwice(agg'[v]) /\ NoTwice(chan'[v])
                        /\ \A x \in Reflections : ~(Holds(agg'[v], x) /\ Holds(chan'[v], x))
      BY DEF Distinct
    <2>1. /\ NoTwice(agg[v]) /\ NoTwice(chan[v])
          /\ \A x \in Reflections : ~(Holds(agg[v], x) /\ Holds(chan[v], x))
      BY DEF KeptInv, Distinct
    <2>2. CASE v = w
      BY <1>2, <1>3, <1>4, <2>1, <2>2
    <2>3. CASE v # w
      BY <1>4, <2>1, <2>3
    <2> QED
      BY <2>2, <2>3
  <1>9. FullMeans'
    BY <1>4 DEF KeptInv, FullMeans
  <1>10. AnsweredWith'
    BY <1>1, <1>4 DEF KeptInv, AnsweredWith
  <1> QED
    BY <1>6, <1>7, <1>8, <1>9, <1>10 DEF KeptInv

\* A reflector puts its reply into the channel of its wave.
LEMMA ReflectKeeps ==
    ASSUME TypeOK, KeptInv, NEW r \in Reflections, ReflectMulti(r)
    PROVE  KeptInv'
  <1> DEFINE w == Of[r]
  <1>1. /\ at[r] = "sending" /\ w \in Waves /\ chan[w] \in Seq(Reflections)
        /\ agg' = agg /\ loop' = loop /\ answer' = answer
    BY ReflectionAssumption DEF ReflectMulti, TypeOK, aggregator
  <1>2. CASE UNCHANGED chan /\ at' = [at EXCEPT ![r] = "dropped"]
    <2>1. \A q \in Reflections : at'[q] = "sent" <=> at[q] = "sent"
      BY <1>1, <1>2 DEF TypeOK
    <2>2. AnsweredWith'
      BY <1>1, <1>2 DEF KeptInv, AnsweredWith
    <2> QED
      BY <1>1, <1>2, <2>1, <2>2, Unmoved
  <1>3. CASE /\ loop[w] # "done"
             /\ chan' = [chan EXCEPT ![w] = Append(@, r)] /\ at' = [at EXCEPT ![r] = "sent"]
    <2>1. /\ chan'[w] = Append(chan[w], r)
          /\ \A v \in Waves : v # w => chan'[v] = chan[v]
          /\ \A q \in Reflections : at'[q] = "sent" <=> at[q] = "sent" \/ q = r
      BY <1>1, <1>3 DEF TypeOK
    <2>2. /\ \A x : Holds(chan'[w], x) <=> Holds(chan[w], x) \/ x = r
          /\ NoTwice(chan[w]) /\ ~Holds(chan[w], r) => NoTwice(chan'[w])
      BY <1>1, <2>1, AppendHolds
    <2>3. ~Holds(chan[w], r) /\ ~Holds(agg[w], r)
      BY <1>1 DEF KeptInv, Sound
    <2> HIDE DEF w
    <2>4. Sound'
      <3> SUFFICES ASSUME NEW v \in Waves, NEW q \in Reflections,
                          Holds(agg'[v], q) \/ Holds(chan'[v], q)
                   PROVE  at'[q] = "sent" /\ Of[q] = v
        BY DEF Sound
      <3>1. Holds(agg[v], q) \/ Holds(chan[v], q) \/ (v = w /\ q = r)
        BY <1>1, <2>1, <2>2
      <3>2. CASE Holds(agg[v], q) \/ Holds(chan[v], q)
        BY <2>1, <3>2 DEF KeptInv, Sound
      <3>3. CASE v = w /\ q = r
        BY <2>1, <3>3 DEF w
      <3> QED
        BY <3>1, <3>2, <3>3
    <2>5. Complete'
      BY <1>1, <2>1, <2>2, ReflectionAssumption DEF KeptInv, Complete, w
    <2>6. Distinct'
      BY <1>1, <2>1, <2>2, <2>3 DEF KeptInv, Distinct
    <2>7. FullMeans'
      BY <1>1 DEF KeptInv, FullMeans
    <2>8. AnsweredWith'
      BY <1>1, <1>3, <2>1 DEF KeptInv, AnsweredWith
    <2> QED
      BY <2>4, <2>5, <2>6, <2>7, <2>8 DEF KeptInv
  <1> QED
    BY <1>2, <1>3 DEF ReflectMulti

\* An aggregator that answers answers with what it has, or for its timer.
LEMMA AnswerKeeps ==
    ASSUME TypeOK, KeptInv, NEW w \in Waves,
           \/ AggregateFull(w)
           \/ AggregateClosed(w)
    PROVE  KeptInv'
  <1>1. /\ UNCHANGED <<chan, agg, at>> /\ loop[w] \in {"recv", "full"}
        /\ \A v \in Waves : v # w => loop'[v] = loop[v]
        /\ loop'[w] \in {"recv", "done"}
    BY DEF AggregateFull, AggregateClosed, TypeOK
  <1>2. CASE UNCHANGED answer
    <2>1. AnsweredWith'
      BY <1>1, <1>2, NoAnswer
    <2> QED
      BY <1>1, <2>1, Unmoved
  <1>3. CASE /\ AggregateFull(w) /\ ClaimSingle(w, Multi(agg[w]))
             /\ loop' = [loop EXCEPT ![w] = "done"]
    <2>1. /\ loop[w] = "full" /\ loop'[w] = "done"
          /\ answer'[w] = Multi(agg[w]) /\ \A v \in Waves : v # w => answer'[v] = answer[v]
      BY <1>3 DEF AggregateFull, ClaimSingle, TypeOK
    <2>2. BounceBacks[w] = "Count" /\ Len(agg[w]) = Count[w] /\ Multi(agg[w]).body = agg[w]
      BY <2>1 DEF KeptInv, FullMeans, Multi
    <2>3. AnsweredWith'
      BY <1>1, <2>1, <2>2 DEF KeptInv, AnsweredWith
    <2> QED
      BY <1>1, <2>1, <2>3, Unmoved
  <1>4. CASE AggregateClosed(w)
    <2>1. /\ chan[w] = <<>> /\ loop'[w] = "done"
          /\ answer'[w] = Multi(TimeoutBody(w)) /\ \A v \in Waves : v # w => answer'[v] = answer[v]
      BY <1>4 DEF AggregateClosed, ClaimSingle, TypeOK
    <2>2. /\ BounceBacks[w] = "Count" => Multi(TimeoutBody(w)).body = <<Timeout>>
          /\ BounceBacks[w] = "Timer" => Multi(TimeoutBody(w)).body = agg[w]
      BY DEF TimeoutBody, Multi
    <2>3. AnsweredWith'
      BY <1>1, <2>1, <2>2 DEF KeptInv, AnsweredWith
    <2> QED
      BY <1>1, <2>1, <2>3, Unmoved
  <1> QED
    BY <1>2, <1>3, <1>4 DEF AggregateFull

\* Every step keeps the replies where the answers will find them.
LEMMA NextKept == TypeOK /\ OneshotInv /\ KeptInv /\ [Next]_vars => KeptInv'
  <1> SUFFICES ASSUME TypeOK, OneshotInv, KeptInv, [Next]_vars PROVE KeptInv'
    OBVIOUS
  <1> USE DEF exchange, aggregator
  <1>1. ASSUME NEW w \in Waves, Exchange(w) PROVE KeptInv'
    <2>1. /\ UNCHANGED <<chan, agg, at, answer>> /\ answer[w] = None
          /\ \A v \in Waves : loop'[v] = loop[v] \/ (v = w /\ loop'[v] = "recv")
      BY <1>1 DEF Exchange, OneshotInv, Fresh, TypeOK
    <2>2. AnsweredWith'
      BY <2>1, NoAnswer
    <2> QED
      BY <2>1, <2>2, Unmoved
  <1>2. ASSUME UNCHANGED <<chan, agg, loop, answer, at>> PROVE KeptInv'
    <2>1. AnsweredWith'
      BY <1>2, NoAnswer
    <2> QED
      BY <1>2, <2>1, Unmoved
  <1>3. ASSUME NEW w \in Waves, Route(w) \/ Return(w) \/ TimeoutMulti(w) PROVE KeptInv'
    BY <1>2, <1>3 DEF Route, Return, TimeoutMulti
  <1>4. ASSUME NEW w \in Waves, TimeoutSingle(w) PROVE KeptInv'
    <2>1. /\ UNCHANGED <<chan, agg, loop, at>>
          /\ \A v \in Waves : answer'[v] = answer[v] \/ answer'[v].shape = "Single"
      BY <1>4 DEF TimeoutSingle, ClaimSingle, Single, TypeOK
    <2>2. AnsweredWith'
      BY <2>1, NoAnswer
    <2> QED
      BY <2>1, <2>2, Unmoved
  <1>5. ASSUME NEW r \in Reflections, ReflectSingle(r) PROVE KeptInv'
    <2>1. /\ UNCHANGED <<chan, agg, loop>> /\ at[r] = "claiming"
          /\ \A v \in Waves : answer'[v] = answer[v] \/ answer'[v].shape = "Single"
      BY <1>5 DEF ReflectSingle, ClaimSingle, Single, TypeOK
    <2>2. \A q \in Reflections : at'[q] = "sent" <=> at[q] = "sent"
      BY <1>5 DEF ReflectSingle, TypeOK
    <2>3. AnsweredWith'
      BY <2>1, NoAnswer
    <2> QED
      BY <2>1, <2>2, <2>3, Unmoved
  <1>6. ASSUME NEW r \in Reflections, Reflected(r) PROVE KeptInv'
    <2>1. UNCHANGED <<chan, agg, loop, answer>>
      BY <1>6 DEF Reflected
    <2>2. \A q \in Reflections : at'[q] = "sent" <=> at[q] = "sent"
      BY <1>6 DEF Reflected, TypeOK
    <2>3. AnsweredWith'
      BY <2>1, NoAnswer
    <2> QED
      BY <2>1, <2>2, <2>3, Unmoved
  <1>7. CASE UNCHANGED vars
    BY <1>2, <1>7 DEF vars
  <1> QED
    BY <1>1, <1>3, <1>4, <1>5, <1>6, <1>7, AggregateKeeps, AnswerKeeps, ReflectKeeps DEF Next

\* A counting ripple is answered with its count of different replies or a timeout, a
\* timed one with every reply that was put into its channel, whatever races the timer.
THEOREM RepliesAreKept == Spec => []RepliesKept
  <1>1. TypeOK /\ KeptInv => RepliesKept
    <2> SUFFICES ASSUME TypeOK, KeptInv PROVE CountExact /\ TimerComplete
      BY DEF RepliesKept
    <2>1. CountExact
      <3> SUFFICES ASSUME NEW w \in Waves, BounceBacks[w] = "Count",
                          answer[w] # None, answer[w].shape = "Multi",
                          answer[w].body # <<Timeout>>
                   PROVE  /\ Len(answer[w].body) = Count[w]
                          /\ \A i \in DOMAIN answer[w].body :
                                at[answer[w].body[i]] = "sent" /\ Of[answer[w].body[i]] = w
                          /\ \A i, j \in DOMAIN answer[w].body :
                                answer[w].body[i] = answer[w].body[j] => i = j
        BY DEF CountExact
      <3>1. answer[w].body = agg[w] /\ Len(agg[w]) = Count[w] /\ agg[w] \in Seq(Reflections)
        BY DEF KeptInv, AnsweredWith, TypeOK
      <3>2. \A i \in DOMAIN agg[w] : agg[w][i] \in Reflections /\ Holds(agg[w], agg[w][i])
        BY <3>1 DEF Holds
      <3>3. \A i \in DOMAIN agg[w] : at[agg[w][i]] = "sent" /\ Of[agg[w][i]] = w
        BY <3>2 DEF KeptInv, Sound
      <3>4. \A i, j \in DOMAIN agg[w] : agg[w][i] = agg[w][j] => i = j
        BY DEF KeptInv, Distinct, NoTwice
      <3> QED
        BY <3>1, <3>3, <3>4
    <2>2. TimerComplete
      <3> SUFFICES ASSUME NEW w \in Waves, NEW r \in Reflections, BounceBacks[w] = "Timer",
                          answer[w] # None, answer[w].shape = "Multi", Of[r] = w, at[r] = "sent"
                   PROVE  \E i \in DOMAIN answer[w].body : answer[w].body[i] = r
        BY DEF TimerComplete
      <3>1. answer[w].body = agg[w] /\ chan[w] = <<>>
        BY DEF KeptInv, AnsweredWith
      <3>2. Holds(agg[w], r) \/ Holds(chan[w], r)
        BY DEF KeptInv, Complete
      <3>3. ~Holds(chan[w], r)
        BY <3>1 DEF Holds
      <3> QED
        BY <3>1, <3>2, <3>3 DEF Holds
    <2> QED
      BY <2>1, <2>2
  <1> QED
    BY <1>1, InitOneshot, NextOneshot, InitKept, NextKept, TypeCorrect, PTL DEF Spec
-----------------------------------------------------------------------------
(* The layers of a star's particles.                                       *)

\* What flies and what runs, the stops of pipelines by their names among it.
Surfaces == [point : Points, layer : Gravity..Core]
StopNames == [of : Surfaces, stop : Points \cup {"core", "reflect"}, left : Nat]
Names == Asks \cup StopNames
Pings == [kind : {"ping"}, id : Seq(Names), from : Surfaces, to : Surfaces, back : Surfaces]
Pongs == [kind : {"pong"}, id : Seq(Names), from : Surfaces, to : Surfaces, outcome : {"ok", "err"}]
Injections == [step : {"inject"}, wave : Pings \cup Pongs, layer : Gravity..Core, gravity : BOOLEAN]
Gravities == [step : {"gravity"}, wave : Pings \cup Pongs]
Traversals ==
    [step : {"visit", "next", "driver"}, wave : Pings \cup Pongs, to : Surfaces,
     dir : {"core", "fabric"}, dest : Gravity..Nowhere, point : Points, layer : Gravity..Core]
Flights == Injections \cup Gravities \cup Traversals
Pipelines == [traversal : Traversals, rest : Seq(Points \cup {"core", "reflect"}), asks : BOOLEAN]

LayersTypes ==
    /\ flight \subseteq Flights
    /\ pipes \subseteq Pipelines

\* The stop that an asking is named after, and who has to answer an asking well.
StopOf(id) == id[Len(id)]
Owed(id) ==
    IF Len(id) = 1 THEN AnswerersOf(id[1])
    ELSE IF StopOf(id).stop = "core" THEN {Answerer(StopOf(id).of)}
    ELSE Answerers(Surface(StopOf(id).stop, Core))

\* They have.
Fulfilled(id) ==
    \A s \in Owed(id) : \E h \in handled : h.id[1] = id[1] /\ h.at = s /\ h.outcome = "ok"

\* An ask of a core, and a ping whose recipient has to run its pipeline for it.
CoreAsks(ping) ==
    /\ Len(ping.id) = 1 /\ ping.id[1] \in Asks
    /\ ping.from = Surface(Asker[ping.id[1]], Core) /\ ping.to = Asked[ping.id[1]]
Outer(ping) ==
    IF Len(ping.id) = 1 THEN CoreAsks(ping) /\ ~Direct(ping.id[1])
    ELSE /\ Len(ping.id) > 1 /\ StopOf(ping.id).stop \in Points
         /\ ping.to = Surface(StopOf(ping.id).stop, Core)

\* A ping on its way up from the core that asks, which finds its own shell first or not at all;
\* at the Field of whom it asks; and from there, as a stop, to the shell or the core.
Rises(t) ==
    /\ t.dir = "fabric" /\ t.step # "driver" /\ CoreAsks(t.wave)
    /\ t.to = t.wave.to /\ t.point = t.wave.from.point
    /\ t.dest # Nowhere => t.wave.to = Surface(t.point, t.dest)
    /\ t.dest = Shell => Direct(t.wave.id[1]) /\ t.step = "visit" /\ t.layer = Shell
    /\ Direct(t.wave.id[1]) => t.dest = Shell
AtField(t) ==
    /\ t.dir = "core" /\ t.step = "visit" /\ t.layer = Field /\ Outer(t.wave)
    /\ t.to = t.wave.to /\ t.to = Surface(t.point, t.dest)
Descends(t) ==
    /\ t.dir = "core" /\ t.dest # Field /\ t.to = Surface(t.point, t.dest)
    /\ t.wave.back = Surface(t.point, Field)
    /\ Len(t.wave.id) > 1 /\ StopOf(t.wave.id).stop = "core" /\ StopOf(t.wave.id).of = t.to
    /\ \/ t.step = "next" /\ t.layer = Field
       \/ t.dest = Shell /\ t.step = "visit" /\ t.layer = Shell
       \/ t.dest # Shell /\ t.layer > Field

GoesWell(f) ==
    IF f.wave.kind = "pong" THEN f.wave.outcome = "ok" => Fulfilled(f.wave.id)
    ELSE /\ f.step = "gravity" => Outer(f.wave)
         /\ f.step = "inject" => IF f.gravity THEN f.layer = Gravity /\ Outer(f.wave)
                                 ELSE f.layer = Core /\ CoreAsks(f.wave)
         /\ f.step \in {"visit", "next", "driver"} => Rises(f) \/ AtField(f) \/ Descends(f)

\* A pipeline is what its particle is bound to without the stops that were answered well.
RunsWell(x) ==
    /\ x.traversal.wave.kind = "ping" /\ AtField(x.traversal) /\ x.traversal.dest # Field
    /\ x.asks => x.rest # <<>> /\ Head(x.rest) # "reflect"
    /\ \E n \in 0..Len(Bind[x.traversal.point]) :
          /\ Len(x.rest) = Len(Bind[x.traversal.point]) - n
          /\ \A i \in 1..Len(x.rest) : x.rest[i] = Bind[x.traversal.point][n + i]
          /\ \A j \in 1..n : Bind[x.traversal.point][j] # "reflect" =>
                \E e \in StopNames :
                   /\ e.of = x.traversal.to /\ e.stop = Bind[x.traversal.point][j]
                   /\ Fulfilled(Append(x.traversal.wave.id, e))

LayersInv ==
    /\ \A id \in DOMAIN heard : heard[id] = "ok" => Fulfilled(id)
    /\ \A f \in flight : GoesWell(f)
    /\ \A x \in pipes : RunsWell(x)
    /\ ThroughField

\* Numbers up to six have a greatest and a least one.
LEMMA Bounded ==
    ASSUME NEW S \in SUBSET (1..6), S # {}
    PROVE  /\ Max(S) \in S /\ \A y \in S : Max(S) >= y
           /\ Min(S) \in S /\ \A y \in S : Min(S) <= y
  <1>1. \E x \in S : \A y \in S : x >= y
    <2>1. CASE 6 \in S
      BY <2>1
    <2>2. CASE 6 \notin S /\ 5 \in S
      BY <2>2
    <2>3. CASE 6 \notin S /\ 5 \notin S /\ 4 \in S
      BY <2>3
    <2>4. CASE 6 \notin S /\ 5 \notin S /\ 4 \notin S /\ 3 \in S
      BY <2>4
    <2>5. CASE 6 \notin S /\ 5 \notin S /\ 4 \notin S /\ 3 \notin S
      <3>1. \A y \in S : y = 1 \/ y = 2
        BY <2>5
      <3>2. CASE 2 \in S
        BY <3>1, <3>2
      <3>3. CASE 2 \notin S
        <4>1. 1 \in S
          BY <3>1, <3>3
        <4>2. \A y \in S : y = 1
          BY <3>1, <3>3
        <4> QED
          BY <4>1, <4>2
      <3> QED
        BY <3>2, <3>3
    <2> QED
      BY <2>1, <2>2, <2>3, <2>4, <2>5
  <1>2. \E x \in S : \A y \in S : x <= y
    <2>1. CASE 1 \in S
      BY <2>1
    <2>2. CASE 1 \notin S /\ 2 \in S
      BY <2>2
    <2>3. CASE 1 \notin S /\ 2 \notin S /\ 3 \in S
      BY <2>3
    <2>4. CASE 1 \notin S /\ 2 \notin S /\ 3 \notin S /\ 4 \in S
      BY <2>4
    <2>5. CASE 1 \notin S /\ 2 \notin S /\ 3 \notin S /\ 4 \notin S
      <3>1. \A y \in S : y = 5 \/ y = 6
        BY <2>5
      <3>2. CASE 5 \in S
        BY <3>1, <3>2
      <3>3. CASE 5 \notin S
        <4>1. 6 \in S
          BY <3>1, <3>3
        <4>2. \A y \in S : y = 6
          BY <3>1, <3>3
        <4> QED
          BY <4>1, <4>2
      <3> QED
        BY <3>2, <3>3
    <2> QED
      BY <2>1, <2>2, <2>3, <2>4, <2>5
  <1> QED
    BY <1>1, <1>2 DEF Max, Min

\* What is next in a plan, which has Field, Shell and Core in it.
LEMMA PlanFacts ==
    ASSUME NEW p \in Points, NEW layer \in Gravity..Core
    PROVE  /\ \A dir \in {"core", "fabric"} :
                NextLayer(p, dir, layer) = Nowhere \/ NextLayer(p, dir, layer) \in Field..Core
           /\ layer = Gravity => NextLayer(p, "core", layer) = Field
           /\ layer = Field => NextLayer(p, "core", layer) = Shell
           /\ layer > Field => NextLayer(p, "core", layer) > Shell
           /\ layer = Core => NextLayer(p, "fabric", layer) \in Shell..Guest
  <1> DEFINE up == Above(p, layer)
             down == Below(p, layer)
  <1>1. Plan[p] \in SUBSET (1..6) /\ {1, 2, 6} \subseteq Plan[p]
    BY LayersAssumption DEF Field, Shell, Core
  <1>2. up \in SUBSET (1..6) /\ down \in SUBSET (1..6)
    BY <1>1 DEF Above, Below
  <1>3. /\ \A l \in up : l < layer
        /\ \A l \in down : l > layer
        /\ \A l \in {1, 2, 6} : l < layer => l \in up
        /\ \A l \in {1, 2, 6} : l > layer => l \in down
    BY <1>1 DEF Above, Below
  <1>4. layer \in 0..6
    BY DEF Gravity, Core
  <1>5. /\ up = {} => NextLayer(p, "fabric", layer) = 7
        /\ up # {} => /\ NextLayer(p, "fabric", layer) \in up
                      /\ \A y \in up : NextLayer(p, "fabric", layer) >= y
    BY <1>2, Bounded DEF NextLayer, Nowhere
  <1>6. /\ down = {} => NextLayer(p, "core", layer) = 7
        /\ down # {} => /\ NextLayer(p, "core", layer) \in down
                        /\ \A y \in down : NextLayer(p, "core", layer) <= y
    BY <1>2, Bounded DEF NextLayer, Nowhere
  <1>7. PICK u : u = NextLayer(p, "fabric", layer)
    OBVIOUS
  <1>8. PICK d : d = NextLayer(p, "core", layer)
    OBVIOUS
  <1> HIDE DEF up, down
  <1>9. layer = 0 => d = 1
    <2> SUFFICES ASSUME layer = 0 PROVE d = 1
      OBVIOUS
    <2>1. 1 \in down
      BY <1>3
    <2>2. d \in down /\ d <= 1
      BY <1>6, <1>8, <2>1
    <2> QED
      BY <1>2, <1>3, <2>2
  <1>10. layer = 1 => d = 2
    <2> SUFFICES ASSUME layer = 1 PROVE d = 2
      OBVIOUS
    <2>1. 2 \in down
      BY <1>3
    <2>2. d \in down /\ d <= 2
      BY <1>6, <1>8, <2>1
    <2>3. d \in 1..6 /\ d > 1
      BY <1>2, <1>3, <2>2
    <2> QED
      BY <2>2, <2>3
  <1>11. layer > 1 => d > 2
    <2> SUFFICES ASSUME layer > 1 PROVE d > 2
      OBVIOUS
    <2>1. CASE down = {}
      BY <1>6, <1>8, <2>1
    <2>2. CASE down # {}
      <3>1. d \in 1..6 /\ d > layer
        BY <1>2, <1>3, <1>6, <1>8, <2>2
      <3> QED
        BY <1>4, <3>1
    <2> QED
      BY <2>1, <2>2
  <1>12. layer = 6 => u \in 2..5
    <2> SUFFICES ASSUME layer = 6 PROVE u \in 2..5
      OBVIOUS
    <2>1. 2 \in up
      BY <1>3
    <2>2. u \in up /\ u >= 2
      BY <1>5, <1>7, <2>1
    <2>3. u \in 1..6 /\ u < 6
      BY <1>2, <1>3, <2>2
    <2> QED
      BY <2>2, <2>3
  <1>13. \A dir \in {"core", "fabric"} : NextLayer(p, dir, layer) = 7 \/ NextLayer(p, dir, layer) \in 1..6
    BY <1>2, <1>5, <1>6
  <1> QED
    BY <1>7, <1>8, <1>9, <1>10, <1>11, <1>12, <1>13 DEF Nowhere, Gravity, Field, Shell, Guest, Core

\* A surface is its point and its layer.
LEMMA SurfaceFacts ==
    ASSUME NEW p, NEW l
    PROVE  /\ Surface(p, l).point = p /\ Surface(p, l).layer = l
           /\ p \in Points /\ l \in Gravity..Core => Surface(p, l) \in Surfaces
           /\ \A s \in Surfaces : s = Surface(s.point, s.layer) /\ s.point \in Points /\ s.layer \in Gravity..Core
  BY DEF Surface, Surfaces

\* The name of a stop is that of the asking it is for and of the stop itself.
LEMMA NameFacts ==
    ASSUME NEW id \in Seq(Names), Len(id) > 0, NEW e \in Names
    PROVE  /\ Append(id, e) \in Seq(Names) /\ Len(Append(id, e)) > 1
           /\ StopOf(Append(id, e)) = e /\ Append(id, e)[1] = id[1]
  BY DEF StopOf

\* What was handled stays handled, so whoever was served stays served.
LEMMA FulfilledStays ==
    ASSUME handled \subseteq handled', NEW id, Fulfilled(id)
    PROVE  Fulfilled(id)'
  BY DEF Fulfilled

\* What flies well does so after somebody else was served.
LEMMA GoesWellStays ==
    ASSUME handled \subseteq handled', NEW f, GoesWell(f)
    PROVE  GoesWell(f)'
  <1>1. f.wave.kind = "pong" => (f.wave.outcome = "ok" => Fulfilled(f.wave.id)')
    BY FulfilledStays DEF GoesWell
  <1> QED
    BY <1>1 DEF GoesWell

\* So does what runs.
LEMMA RunsWellStays ==
    ASSUME handled \subseteq handled', NEW x, RunsWell(x)
    PROVE  RunsWell(x)'
  <1>1. \A id : Fulfilled(id) => Fulfilled(id)'
    BY FulfilledStays
  <1> QED
    BY <1>1 DEF RunsWell

\* It is enough to look at what is new.
LEMMA KeptWell ==
    ASSUME LayersTypes, LayersInv, handled \subseteq handled', ThroughField',
           \A id \in DOMAIN heard' : heard'[id] = "ok" =>
              (id \in DOMAIN heard /\ heard[id] = "ok") \/ Fulfilled(id),
           \A g \in flight' : g \in flight \/ (g \in Flights /\ GoesWell(g)'),
           \A x \in pipes' : x \in pipes \/ (x \in Pipelines /\ RunsWell(x))
    PROVE  LayersTypes' /\ LayersInv'
  <1>1. LayersTypes'
    BY DEF LayersTypes
  <1>2. \A id \in DOMAIN heard' : heard'[id] = "ok" => Fulfilled(id)'
    BY FulfilledStays DEF LayersInv
  <1>3. \A g \in flight' : GoesWell(g)'
    BY GoesWellStays DEF LayersInv
  <1>4. \A x \in pipes' : RunsWell(x)'
    BY RunsWellStays DEF LayersInv
  <1> QED
    BY <1>1, <1>2, <1>3, <1>4 DEF LayersInv

\* Most steps handle nothing.
LEMMA KeptUnhandled ==
    ASSUME LayersTypes, LayersInv, UNCHANGED handled,
           \A id \in DOMAIN heard' : heard'[id] = "ok" =>
              (id \in DOMAIN heard /\ heard[id] = "ok") \/ Fulfilled(id),
           \A g \in flight' : g \in flight \/ (g \in Flights /\ GoesWell(g)),
           \A x \in pipes' : x \in pipes \/ (x \in Pipelines /\ RunsWell(x))
    PROVE  LayersTypes' /\ LayersInv'
  <1>1. ThroughField'
    BY DEF LayersInv, ThroughField
  <1>2. \A g \in flight' : g \in flight \/ (g \in Flights /\ GoesWell(g)')
    BY GoesWellStays
  <1> QED
    BY <1>1, <1>2, KeptWell

\* A traversal as its fields.
Going(step, wave, to, dir, dest, point, layer) ==
    [step |-> step, wave |-> wave, to |-> to, dir |-> dir, dest |-> dest, point |-> point, layer |-> layer]

LEMMA GoingFacts ==
    ASSUME NEW t \in Traversals
    PROVE  /\ t = Going(t.step, t.wave, t.to, t.dir, t.dest, t.point, t.layer)
           /\ \A step : [t EXCEPT !.step = step] = Going(step, t.wave, t.to, t.dir, t.dest, t.point, t.layer)
           /\ \A layer : [t EXCEPT !.layer = layer] = Going(t.step, t.wave, t.to, t.dir, t.dest, t.point, layer)
           /\ t.wave \in Pings \cup Pongs /\ t.to \in Surfaces /\ t.dir \in {"core", "fabric"}
           /\ t.dest \in Gravity..Nowhere /\ t.point \in Points /\ t.layer \in Gravity..Core
           /\ t.step \in {"visit", "next", "driver"}
  <1>1. /\ t.wave \in Pings \cup Pongs /\ t.to \in Surfaces /\ t.dir \in {"core", "fabric"}
        /\ t.dest \in Gravity..Nowhere /\ t.point \in Points /\ t.layer \in Gravity..Core
        /\ t.step \in {"visit", "next", "driver"}
    BY DEF Traversals
  <1>2. t = Going(t.step, t.wave, t.to, t.dir, t.dest, t.point, t.layer)
    BY DEF Traversals, Going
  <1>3. ASSUME NEW step PROVE [t EXCEPT !.step = step] = Going(step, t.wave, t.to, t.dir, t.dest, t.point, t.layer)
    BY DEF Traversals, Going
  <1>4. ASSUME NEW layer PROVE [t EXCEPT !.layer = layer] = Going(t.step, t.wave, t.to, t.dir, t.dest, t.point, layer)
    BY DEF Traversals, Going
  <1> QED
    BY <1>1, <1>2, <1>3, <1>4

\* The fields of a traversal.
LEMMA GoingFields ==
    ASSUME NEW step, NEW wave, NEW to, NEW dir, NEW dest, NEW point, NEW layer
    PROVE  LET t == Going(step, wave, to, dir, dest, point, layer)
           IN  /\ t.step = step /\ t.wave = wave /\ t.to = to /\ t.dir = dir
               /\ t.dest = dest /\ t.point = point /\ t.layer = layer
  BY DEF Going

\* A traversal that visits a layer or leaves the layers, which is where it was going to.
Visited(v, wave, to, dir, dest, point, layer) ==
    /\ v \in Flights /\ v.wave = wave
    /\ \/ layer \in {Field, Shell} /\ v = Going("visit", wave, to, dir, dest, point, layer)
       \/ layer \notin {Field, Shell} /\ dir = "fabric" /\ v = AtGravity(wave)
       \/ layer \notin {Field, Shell} /\ dir = "core" /\ v = Going("driver", wave, to, dir, dest, point, layer)

LEMMA VisitFacts ==
    ASSUME NEW step, NEW wave \in Pings \cup Pongs, NEW to \in Surfaces, NEW dir \in {"core", "fabric"},
           NEW dest \in Gravity..Nowhere, NEW point \in Points, NEW layer \in Gravity..Core,
           NEW v, v = VisitLayer(Going(step, wave, to, dir, dest, point, layer))
    PROVE  Visited(v, wave, to, dir, dest, point, layer)
  <1>1. PICK t : t = Going(step, wave, to, dir, dest, point, layer)
    OBVIOUS
  <1>2. \A s : [t EXCEPT !.step = s] = Going(s, wave, to, dir, dest, point, layer)
    BY <1>1 DEF Going
  <1>3. t.layer = layer /\ t.dir = dir /\ t.wave = wave
    BY <1>1 DEF Going
  <1>4. v = VisitLayer(t)
    BY <1>1
  <1>5. \/ layer \in {Field, Shell} /\ v = Going("visit", wave, to, dir, dest, point, layer)
        \/ layer \notin {Field, Shell} /\ dir = "fabric" /\ v = AtGravity(wave)
        \/ layer \notin {Field, Shell} /\ dir = "core" /\ v = Going("driver", wave, to, dir, dest, point, layer)
    BY <1>2, <1>3, <1>4 DEF VisitLayer, HasLayer, Exit
  <1>6. \A s \in {"visit", "driver"} : Going(s, wave, to, dir, dest, point, layer) \in Flights
    BY DEF Going, Flights, Traversals
  <1>7. AtGravity(wave) \in Flights /\ AtGravity(wave).wave = wave
    BY DEF AtGravity, Flights, Gravities
  <1>8. \A s : Going(s, wave, to, dir, dest, point, layer).wave = wave
    BY DEF Going
  <1> QED
    BY <1>5, <1>6, <1>7, <1>8 DEF Visited

\* What flies is one of three kinds.
LEMMA FlightKinds ==
    ASSUME NEW f \in Flights
    PROVE  /\ f.wave \in Pings \cup Pongs
           /\ f.step = "inject" => f \in Injections
           /\ f.step = "gravity" => f \in Gravities
           /\ f.step \in {"visit", "next", "driver"} => f \in Traversals
  BY DEF Flights, Injections, Gravities, Traversals

\* A pong may go anywhere; so may a ping whose recipient's Field is still ahead.
LEMMA PongGoes ==
    ASSUME NEW f, NEW g, f.wave.kind = "pong", g.wave = f.wave, GoesWell(f)
    PROVE  GoesWell(g)
  BY DEF GoesWell

\* A wave at gravity, where a ping may be whose recipient's Field is still ahead.
LEMMA ToField ==
    ASSUME NEW wave \in Pings \cup Pongs
    PROVE  /\ AtGravity(wave) \in Flights
           /\ wave.kind = "ping" /\ Outer(wave) => GoesWell(AtGravity(wave))
  BY DEF AtGravity, Flights, Gravities, GoesWell

\* A ping that is where one of the three ways puts it.
LEMMA GoingWell ==
    ASSUME NEW t, t.wave.kind = "ping", t.step \in {"visit", "next", "driver"},
           Rises(t) \/ AtField(t) \/ Descends(t)
    PROVE  GoesWell(t)
  BY DEF GoesWell

\* An error reflected, and a pong that goes back where it is due.
LEMMA PongMade ==
    ASSUME NEW ping \in Pings, NEW from \in Surfaces, NEW outcome \in {"ok", "err"}
    PROVE  LET pong == Pong(ping, from, outcome)
           IN  /\ pong \in Pings \cup Pongs /\ pong.kind = "pong" /\ pong.outcome = outcome /\ pong.id = ping.id
               /\ \A layer \in Gravity..Core :
                     Injected(pong, layer, FALSE) \in Flights /\ Injected(pong, layer, FALSE).wave = pong
               /\ AtGravity(pong) \in Flights /\ AtGravity(pong).wave = pong
  <1>1. Pong(ping, from, outcome) \in Pongs
    BY DEF Pong, Pings, Pongs
  <1> QED
    BY <1>1 DEF Pong, Pongs, Injected, AtGravity, Flights, Injections, Gravities

\* A pong that says ok of who was served.
LEMMA PongWell ==
    ASSUME NEW f, f.wave.kind = "pong", f.wave.outcome = "ok" => Fulfilled(f.wave.id)
    PROVE  GoesWell(f)
  BY DEF GoesWell

\* A flight ends, or goes on as another one.
LEMMA FlightEnds ==
    ASSUME LayersTypes, LayersInv, flight' \subseteq flight, UNCHANGED <<pipes, heard, handled>>
    PROVE  LayersTypes' /\ LayersInv'
  <1>1. \A id \in DOMAIN heard' : heard'[id] = "ok" => id \in DOMAIN heard /\ heard[id] = "ok"
    OBVIOUS
  <1> QED
    BY <1>1, KeptUnhandled

\* A flight that goes on as another one.
LEMMA FlightGoesOn ==
    ASSUME LayersTypes, LayersInv, NEW f, NEW g \in Flights, GoesWell(g), Becomes(f, {g}),
           UNCHANGED <<pipes, heard, handled>>
    PROVE  LayersTypes' /\ LayersInv'
  <1>1. \A id \in DOMAIN heard' : heard'[id] = "ok" => id \in DOMAIN heard /\ heard[id] = "ok"
    OBVIOUS
  <1>2. \A h \in flight' : h \in flight \/ (h \in Flights /\ GoesWell(h))
    BY DEF Becomes
  <1> QED
    BY <1>1, <1>2, KeptUnhandled

\* What starts from gravity starts at the Field, what a core sends rises.
LEMMA StartWell ==
    ASSUME NEW i \in Injections, GoesWell(i)
    PROVE  VisitLayer(Traversal(i)) \in Flights /\ GoesWell(VisitLayer(Traversal(i)))
  <1>1. /\ i.wave \in Pings \cup Pongs /\ i.layer \in Gravity..Core /\ i.gravity \in BOOLEAN
        /\ i.step = "inject" /\ i.wave.to \in Surfaces /\ i.wave.from \in Surfaces
    BY DEF Injections, Pings, Pongs
  <1> DEFINE dir == Direction(i)
             dest == Destination(i)
             owner == IF dir = "core" THEN i.wave.to.point ELSE i.wave.from.point
             next == NextLayer(i.wave.to.point, dir, i.layer)
             layer == IF HasLayer(i.layer) \/ next = Nowhere THEN i.layer ELSE next
  <1>2. Traversal(i) = Going("start", i.wave, i.wave.to, dir, dest, owner, layer)
    BY DEF Traversal, Going
  <1>3. /\ i.wave.to.point \in Points /\ i.wave.from.point \in Points
        /\ i.wave.to.layer \in Gravity..Core /\ dir \in {"core", "fabric"}
    BY <1>1, SurfaceFacts DEF Direction
  <1>4. dest \in Gravity..Nowhere /\ owner \in Points
    BY <1>3 DEF Destination, Gravity, Core, Nowhere
  <1>5. layer \in Gravity..Core
    <2>1. next = Nowhere \/ next \in Field..Core
      BY <1>1, <1>3, PlanFacts
    <2> QED
      BY <1>1, <2>1 DEF Field, Gravity, Core
  <1> HIDE DEF dir, dest, owner, next, layer
  <1>6. PICK v : v = VisitLayer(Going("start", i.wave, i.wave.to, dir, dest, owner, layer))
    OBVIOUS
  <1> USE DEF dir, dest, owner, next, layer
  <1>71. Visited(v, i.wave, i.wave.to, dir, dest, owner, layer)
    <2> HIDE DEF dir, dest, owner, next, layer
    <2> QED
      BY <1>1, <1>3, <1>4, <1>5, <1>6, VisitFacts
  <1>7. /\ v \in Flights /\ v.wave = i.wave
        /\ \/ layer \in {Field, Shell} /\ v = Going("visit", i.wave, i.wave.to, dir, dest, owner, layer)
           \/ layer \notin {Field, Shell} /\ dir = "fabric" /\ v = AtGravity(i.wave)
           \/ layer \notin {Field, Shell} /\ dir = "core" /\ v = Going("driver", i.wave, i.wave.to, dir, dest, owner, layer)
    <2> HIDE DEF dir, dest, owner, next, layer
    <2> QED
      BY <1>71 DEF Visited
  <1>8. CASE i.wave.kind = "pong"
    BY <1>2, <1>6, <1>7, <1>8, PongGoes
  <1>9. CASE i.wave.kind = "ping" /\ i.gravity
    <2>1. i.layer = Gravity /\ Outer(i.wave)
      BY <1>1, <1>9 DEF GoesWell
    <2>2. dir = "core" /\ dest = i.wave.to.layer /\ owner = i.wave.to.point
      BY <1>9 DEF Direction, Destination
    <2>3. layer = Field
      <3>1. next = Field
        BY <1>1, <1>3, <2>1, <2>2, PlanFacts
      <3> QED
        BY <2>1, <3>1 DEF HasLayer, Gravity, Field, Shell, Nowhere
    <2>4. v = Going("visit", i.wave, i.wave.to, "core", dest, owner, Field)
      BY <1>7, <2>2, <2>3
    <2>5. i.wave.to = Surface(owner, dest)
      BY <1>1, <2>2, SurfaceFacts
    <2>6. AtField(v)
      BY <2>1, <2>4, <2>5, GoingFields DEF AtField
    <2>7. v.step = "visit"
      BY <2>4, GoingFields
    <2>8. GoesWell(v)
      BY <1>7, <1>9, <2>6, <2>7, GoingWell
    <2> QED
      BY <1>2, <1>6, <1>7, <2>8
  <1>10. CASE i.wave.kind = "ping" /\ ~i.gravity
    <2>1. i.layer = Core /\ CoreAsks(i.wave)
      BY <1>1, <1>10 DEF GoesWell
    <2> DEFINE k == i.wave.id[1]
    <2>2. dir = "fabric" /\ owner = i.wave.from.point
      BY <1>3, <1>10, <2>1 DEF Direction, Gravity, Core
    <2>3. next \in Shell..Guest /\ layer = next
      <3>1. next \in Shell..Guest
        BY <1>1, <1>3, <2>1, <2>2, PlanFacts
      <3> QED
        BY <2>1, <3>1 DEF HasLayer, Shell, Guest, Core, Field, Nowhere
    <2>4. /\ k \in Asks /\ Len(i.wave.id) = 1 /\ i.wave.to = Asked[k]
          /\ i.wave.from.point = Asker[k]
      BY <2>1, SurfaceFacts DEF CoreAsks
    <2>5. /\ dest # Nowhere => i.wave.to = Surface(owner, dest)
          /\ SamePoint(i.wave) => dest = i.wave.to.layer
          /\ ~SamePoint(i.wave) => dest = Nowhere
      BY <1>1, <1>10, <2>2, SurfaceFacts DEF Destination, SamePoint
    <2>6. Direct(k) <=> dest = Shell /\ layer = Shell
      <3>1. CASE SamePoint(i.wave)
        <4>1. Asked[k] = Surface(Asker[k], Shell) <=> dest = Shell
          BY <1>1, <2>4, <2>5, <3>1, SurfaceFacts DEF SamePoint, Surface
        <4>2. next = NextLayer(Asker[k], "fabric", Core)
          BY <2>1, <2>2, <2>4, <3>1 DEF SamePoint
        <4> QED
          BY <2>3, <4>1, <4>2 DEF Direct
      <3>2. CASE ~SamePoint(i.wave)
        <4>1. Asked[k].point # Asker[k]
          BY <2>4, <3>2 DEF SamePoint
        <4>2. dest # Shell
          BY <2>5, <3>2 DEF Nowhere, Shell
        <4> QED
          BY <4>1, <4>2, SurfaceFacts DEF Direct
      <3> QED
        BY <3>1, <3>2
    <2> HIDE DEF k
    <2>7. CASE layer = Shell
      <3>1. v = Going("visit", i.wave, i.wave.to, "fabric", dest, owner, Shell)
        BY <1>7, <2>2, <2>7
      <3>2. v.step = "visit" /\ Rises(v)
        BY <2>1, <2>2, <2>5, <2>6, <2>7, <3>1, GoingFields DEF Rises, k
      <3>3. GoesWell(v)
        BY <1>7, <1>10, <3>2, GoingWell
      <3> QED
        BY <1>2, <1>6, <1>7, <3>3
    <2>8. CASE layer # Shell
      <3>1. layer \notin {Field, Shell}
        BY <2>3, <2>8 DEF Shell, Field, Guest
      <3>2. v = AtGravity(i.wave)
        BY <1>7, <2>2, <3>1
      <3>3. Outer(i.wave)
        BY <2>1, <2>4, <2>6, <2>8 DEF Outer, k
      <3>4. GoesWell(v)
        BY <1>1, <1>10, <3>2, <3>3, ToField
      <3> QED
        BY <1>2, <1>6, <1>7, <3>4
    <2> QED
      BY <2>7, <2>8
  <1> QED
    BY <1>1, <1>8, <1>9, <1>10 DEF Pings, Pongs

\* What flies and runs is as it should be.
LEMMA Flown ==
    ASSUME LayersTypes, LayersInv, NEW f \in flight
    PROVE  /\ f \in Flights /\ GoesWell(f) /\ f.wave \in Pings \cup Pongs
           /\ f.wave.kind = "ping" => f.wave \in Pings
           /\ f.wave.kind # "ping" => f.wave.kind = "pong"
           /\ f.step = "inject" => f \in Injections
           /\ f.step = "gravity" => f \in Gravities
           /\ f.step \in {"visit", "next", "driver"} => f \in Traversals
  <1>1. f \in Flights /\ GoesWell(f)
    BY DEF LayersTypes, LayersInv
  <1>2. f.wave \in Pings \cup Pongs
    BY <1>1, FlightKinds
  <1> QED
    BY <1>1, <1>2, FlightKinds DEF Pings, Pongs

\* What is injected starts, with its invariant.
LEMMA StartKeeps ==
    ASSUME LayersTypes, LayersInv, NEW f \in flight, Start(f)
    PROVE  LayersTypes' /\ LayersInv'
  <1>1. f \in Injections /\ GoesWell(f)
    BY Flown DEF Start
  <1>2. PICK g : g = VisitLayer(Traversal(f))
    OBVIOUS
  <1>3. g \in Flights /\ GoesWell(g)
    BY <1>1, <1>2, StartWell
  <1>4. Becomes(f, {g}) /\ UNCHANGED <<pipes, heard, handled>>
    BY <1>2 DEF Start
  <1> QED
    BY <1>3, <1>4, FlightGoesOn

\* The star's own core is a surface.
LEMMA StarSurface == Surface(Star, Core) \in Surfaces
  BY LayersAssumption DEF Surface, Surfaces, Gravity, Core

\* What cannot start comes back as an error, or ends.
LEMMA StartFailsKeeps ==
    ASSUME LayersTypes, LayersInv, NEW f \in flight, StartFails(f)
    PROVE  LayersTypes' /\ LayersInv'
  <1>1. f \in Injections
    BY Flown DEF StartFails
  <1>2. f.layer \in Gravity..Core
    BY <1>1 DEF Injections
  <1>3. CASE f.wave.kind = "ping"
    <2>1. f.wave \in Pings
      BY <1>3, Flown
    <2>2. PICK pong : pong = Pong(f.wave, Surface(Star, Core), "err")
      OBVIOUS
    <2>3. PICK g : g = Injected(pong, f.layer, FALSE)
      OBVIOUS
    <2>4. pong.kind = "pong" /\ pong.outcome = "err" /\ g \in Flights /\ g.wave = pong
      BY <1>2, <2>1, <2>2, <2>3, StarSurface, PongMade
    <2>5. GoesWell(g)
      BY <2>4, PongWell
    <2>6. Becomes(f, {g}) /\ UNCHANGED <<pipes, heard, handled>>
      BY <1>3, <2>2, <2>3 DEF StartFails
    <2> QED
      BY <2>4, <2>5, <2>6, FlightGoesOn
  <1>4. CASE f.wave.kind # "ping"
    <2>1. flight' \subseteq flight /\ UNCHANGED <<pipes, heard, handled>>
      BY <1>4 DEF StartFails, Logged
    <2> QED
      BY <2>1, FlightEnds
  <1> QED
    BY <1>3, <1>4

\* Where a traversal goes from a layer.
LEMMA NextWell ==
    ASSUME NEW t \in Traversals, t.step = "next", GoesWell(t),
           NEW layer, layer = IF t.layer = t.dest THEN t.layer ELSE NextLayer(t.to.point, t.dir, t.layer),
           layer # Nowhere,
           NEW v, v = VisitLayer(Going(t.step, t.wave, t.to, t.dir, t.dest, t.point, layer))
    PROVE  v \in Flights /\ GoesWell(v)
  <1>1. /\ t.wave \in Pings \cup Pongs /\ t.to \in Surfaces /\ t.dir \in {"core", "fabric"}
        /\ t.dest \in Gravity..Nowhere /\ t.point \in Points /\ t.layer \in Gravity..Core
    BY GoingFacts
  <1>2. t.to.point \in Points
    BY <1>1, SurfaceFacts
  <1>3. /\ NextLayer(t.to.point, t.dir, t.layer) = Nowhere \/ NextLayer(t.to.point, t.dir, t.layer) \in Field..Core
        /\ t.layer = Field => NextLayer(t.to.point, "core", t.layer) = Shell
        /\ t.layer > Field => NextLayer(t.to.point, "core", t.layer) > Shell
    BY <1>1, <1>2, PlanFacts
  <1>4. layer \in Gravity..Core
    BY <1>1, <1>3 DEF Gravity, Field, Core
  <1>5. /\ v \in Flights /\ v.wave = t.wave
        /\ \/ layer \in {Field, Shell} /\ v = Going("visit", t.wave, t.to, t.dir, t.dest, t.point, layer)
           \/ layer \notin {Field, Shell} /\ t.dir = "fabric" /\ v = AtGravity(t.wave)
           \/ /\ layer \notin {Field, Shell} /\ t.dir = "core"
              /\ v = Going("driver", t.wave, t.to, t.dir, t.dest, t.point, layer)
    <2> DEFINE step == t.step
               wave == t.wave
               to == t.to
               dir == t.dir
               dest == t.dest
               point == t.point
    <2>1. /\ wave \in Pings \cup Pongs /\ to \in Surfaces /\ dir \in {"core", "fabric"}
          /\ dest \in Gravity..Nowhere /\ point \in Points
          /\ v = VisitLayer(Going(step, wave, to, dir, dest, point, layer))
      BY <1>1
    <2> HIDE DEF step, wave, to, dir, dest, point
    <2>2. Visited(v, wave, to, dir, dest, point, layer)
      BY <1>4, <2>1, VisitFacts
    <2> QED
      BY <2>2 DEF Visited, step, wave, to, dir, dest, point
  <1>6. CASE t.wave.kind = "pong"
    BY <1>5, <1>6, PongGoes
  <1>7. CASE t.wave.kind = "ping"
    <2>1. Rises(t) \/ Descends(t)
      BY <1>7 DEF GoesWell, AtField
    <2>2. CASE Rises(t)
      <3>1. /\ t.dir = "fabric" /\ CoreAsks(t.wave) /\ t.dest # Shell /\ ~Direct(t.wave.id[1])
            /\ t.to = t.wave.to /\ t.point = t.wave.from.point
            /\ t.dest # Nowhere => t.wave.to = Surface(t.point, t.dest)
        BY <2>2 DEF Rises
      <3>2. CASE v = AtGravity(t.wave)
        <4>1. Outer(t.wave)
          BY <3>1 DEF Outer, CoreAsks
        <4> QED
          BY <1>1, <1>5, <1>7, <3>2, <4>1, ToField
      <3>3. CASE v = Going("visit", t.wave, t.to, t.dir, t.dest, t.point, layer)
        <4>1. /\ v.step = "visit" /\ v.wave = t.wave /\ v.to = t.to /\ v.dir = t.dir
              /\ v.dest = t.dest /\ v.point = t.point
          BY <3>3, GoingFields
        <4>2. Rises(v)
          BY <3>1, <4>1 DEF Rises
        <4> QED
          BY <1>5, <1>7, <4>1, <4>2, GoingWell
      <3> QED
        BY <1>5, <3>1, <3>2, <3>3
    <2>3. CASE Descends(t)
      <3>1. /\ t.dir = "core" /\ t.dest # Field /\ t.to = Surface(t.point, t.dest)
            /\ t.wave.back = Surface(t.point, Field)
            /\ Len(t.wave.id) > 1 /\ StopOf(t.wave.id).stop = "core" /\ StopOf(t.wave.id).of = t.to
            /\ t.layer = Field \/ (t.dest # Shell /\ t.layer > Field)
        BY <2>3 DEF Descends
      <3>2. CASE t.layer = Field
        <4>1. layer = Shell
          BY <1>3, <3>1, <3>2
        <4>2. v = Going("visit", t.wave, t.to, t.dir, t.dest, t.point, Shell)
          BY <1>5, <4>1
        <4>3. Shell > Field
          BY DEF Shell, Field
        <4>4. v.step = "visit" /\ Descends(v)
          BY <3>1, <4>2, <4>3, GoingFields DEF Descends
        <4> QED
          BY <1>5, <1>7, <4>4, GoingWell
      <3>3. CASE t.dest # Shell /\ t.layer > Field
        <4>1. layer > Field /\ layer \notin {Field, Shell}
          BY <1>1, <1>3, <1>4, <3>1, <3>3 DEF Field, Shell, Gravity, Core
        <4>2. v = Going("driver", t.wave, t.to, t.dir, t.dest, t.point, layer)
          BY <1>5, <3>1, <4>1
        <4>3. v.step = "driver" /\ Descends(v)
          BY <3>1, <3>3, <4>1, <4>2, GoingFields DEF Descends
        <4> QED
          BY <1>5, <1>7, <4>3, GoingWell
      <3> QED
        BY <3>1, <3>2, <3>3
    <2> QED
      BY <2>1, <2>2, <2>3
  <1> QED
    BY <1>1, <1>6, <1>7 DEF Pings, Pongs

\* A traversal that goes to its next layer.
LEMMA TraverseKeeps ==
    ASSUME LayersTypes, LayersInv, NEW t \in flight, TraverseToNextLayer(t)
    PROVE  LayersTypes' /\ LayersInv'
  <1>1. t \in Traversals /\ GoesWell(t) /\ t.step = "next" /\ t.wave \in Pings \cup Pongs
    BY Flown DEF TraverseToNextLayer
  <1>2. PICK next : next = NextLayer(t.to.point, t.dir, t.layer)
    OBVIOUS
  <1>3. PICK there : there = IF t.layer = t.dest THEN t ELSE [t EXCEPT !.layer = next]
    OBVIOUS
  <1>4. /\ IF t.layer # t.dest /\ next = Nowhere
           THEN IF t.dir = "fabric" THEN Becomes(t, {Exit(t)}) ELSE Logged(t)
           ELSE IF CanVisit(there) THEN Becomes(t, {VisitLayer(there)}) ELSE Logged(t)
        /\ UNCHANGED <<pipes, heard, handled>>
    BY <1>2, <1>3 DEF TraverseToNextLayer
  <1>5. CASE Logged(t)
    <2>1. flight' \subseteq flight
      BY <1>5 DEF Logged
    <2> QED
      BY <1>4, <2>1, FlightEnds
  <1>6. CASE t.layer # t.dest /\ next = Nowhere /\ t.dir = "fabric"
    <2>1. PICK g : g = AtGravity(t.wave)
      OBVIOUS
    <2>2. Becomes(t, {g})
      BY <1>4, <1>6, <2>1 DEF Exit
    <2>3. g \in Flights /\ g.wave = t.wave
      BY <1>1, <2>1, ToField DEF AtGravity
    <2>4. CASE t.wave.kind = "pong"
      BY <1>1, <1>4, <2>2, <2>3, <2>4, PongGoes, FlightGoesOn
    <2>5. CASE t.wave.kind = "ping"
      <3>1. Rises(t)
        BY <1>1, <1>6, <2>5 DEF GoesWell, AtField, Descends
      <3>2. Outer(t.wave)
        BY <1>1, <3>1 DEF Outer, Rises, CoreAsks
      <3>3. GoesWell(g)
        BY <1>1, <2>1, <2>5, <3>2, ToField
      <3> QED
        BY <1>4, <2>2, <2>3, <3>3, FlightGoesOn
    <2> QED
      BY <2>4, <2>5, Flown
  <1>7. CASE ~(t.layer # t.dest /\ next = Nowhere) /\ Becomes(t, {VisitLayer(there)})
    <2>1. PICK layer : layer = IF t.layer = t.dest THEN t.layer ELSE next
      OBVIOUS
    <2>2. there = Going(t.step, t.wave, t.to, t.dir, t.dest, t.point, layer)
      BY <1>1, <1>3, <2>1, GoingFacts
    <2>3. layer # Nowhere
      <3>1. t.layer \in Gravity..Core
        BY <1>1, GoingFacts
      <3>2. t.layer # Nowhere
        BY <3>1 DEF Gravity, Core, Nowhere
      <3> QED
        BY <1>7, <2>1, <3>2
    <2>4. PICK v : v = VisitLayer(there)
      OBVIOUS
    <2>5. v \in Flights /\ GoesWell(v)
      BY <1>1, <1>2, <2>1, <2>2, <2>3, <2>4, NextWell
    <2> QED
      BY <1>4, <1>7, <2>4, <2>5, FlightGoesOn
  <1> QED
    BY <1>4, <1>5, <1>6, <1>7

\* A layer that a traversal only passes.
LEMMA PassOnKeeps ==
    ASSUME LayersTypes, LayersInv, NEW t \in flight, PassOn(t)
    PROVE  LayersTypes' /\ LayersInv'
  <1>1. t \in Traversals /\ GoesWell(t) /\ t.step = "visit" /\ t.dest # t.layer
    BY Flown DEF PassOn
  <1>2. PICK g : g = [t EXCEPT !.step = "next"]
    OBVIOUS
  <1>3. g = Going("next", t.wave, t.to, t.dir, t.dest, t.point, t.layer)
    BY <1>1, <1>2, GoingFacts
  <1>4. /\ g.step = "next" /\ g.wave = t.wave /\ g.to = t.to /\ g.dir = t.dir
        /\ g.dest = t.dest /\ g.point = t.point /\ g.layer = t.layer
    BY <1>3, GoingFields
  <1>5. g \in Flights
    <2>1. g \in Traversals
      BY <1>1, <1>3, GoingFacts DEF Going, Traversals
    <2> QED
      BY <2>1 DEF Flights
  <1>6. Becomes(t, {g}) /\ UNCHANGED <<pipes, heard, handled>>
    BY <1>2 DEF PassOn
  <1>7. GoesWell(g)
    <2>1. CASE t.wave.kind = "pong"
      BY <1>1, <1>4, <2>1, PongGoes
    <2>2. CASE t.wave.kind = "ping"
      <3>1. ~(t.layer = Field /\ t.dir = "core")
        BY <2>2 DEF PassOn, Directed
      <3>2. CASE Rises(t)
        BY <1>1, <1>4, <2>2, <3>2, GoingWell DEF Rises
      <3>3. CASE Descends(t)
        BY <1>1, <1>4, <2>2, <3>3, GoingWell DEF Descends
      <3> QED
        BY <1>1, <2>2, <3>1, <3>2, <3>3 DEF GoesWell, AtField
    <2> QED
      BY <2>1, <2>2, Flown
  <1> QED
    BY <1>5, <1>6, <1>7, FlightGoesOn

\* Gravity injects at the recipient's lowest layer.
LEMMA ToGravityKeeps ==
    ASSUME LayersTypes, LayersInv, NEW g \in flight, ToGravity(g)
    PROVE  LayersTypes' /\ LayersInv'
  <1>1. g.step = "gravity" /\ GoesWell(g) /\ g.wave \in Pings \cup Pongs
    BY Flown DEF ToGravity
  <1>2. UNCHANGED <<pipes, heard, handled>>
    BY DEF ToGravity
  <1>3. CASE g.wave.to.point \in scene.registered
    <2>1. PICK i : i = Injected(g.wave, Gravity, TRUE)
      OBVIOUS
    <2>2. /\ i.step = "inject" /\ i.wave = g.wave /\ i.layer = Gravity /\ i.gravity = TRUE
          /\ i \in Flights
      BY <1>1, <2>1 DEF Injected, Flights, Injections, Gravity, Core
    <2>3. GoesWell(i)
      BY <1>1, <2>2 DEF GoesWell
    <2>4. Becomes(g, {i})
      BY <1>3, <2>1 DEF ToGravity
    <2> QED
      BY <1>2, <2>2, <2>3, <2>4, FlightGoesOn
  <1>4. CASE g.wave.to.point \notin scene.registered
    <2>1. flight' \subseteq flight
      BY <1>4 DEF ToGravity, Logged
    <2> QED
      BY <1>2, <2>1, FlightEnds
  <1> QED
    BY <1>3, <1>4

\* What is logged ends.
LEMMA LoggedKeeps ==
    ASSUME LayersTypes, LayersInv, NEW t \in flight, FieldRefuses(t) \/ NoRoute(t) \/ NoItem(t)
    PROVE  LayersTypes' /\ LayersInv'
  <1>1. flight' \subseteq flight /\ UNCHANGED <<pipes, heard, handled>>
    BY DEF FieldRefuses, NoRoute, NoItem, Logged
  <1> QED
    BY <1>1, FlightEnds

\* A pong that comes says only what the pong says.
LEMMA PongComesKeeps ==
    ASSUME LayersTypes, LayersInv, NEW t \in flight, DeliverReflected(t) \/ HearAnswer(t)
    PROVE  LayersTypes' /\ LayersInv'
  <1>1. t.wave.kind = "pong" /\ GoesWell(t)
    BY Flown DEF DeliverReflected, HearAnswer, Directed
  <1>2. PongComes(t)
    BY DEF DeliverReflected, HearAnswer
  <1>3. flight' \subseteq flight /\ UNCHANGED <<pipes, handled>>
    BY <1>2 DEF PongComes, Becomes
  <1>4. t.wave.outcome = "ok" => Fulfilled(t.wave.id)
    BY <1>1 DEF GoesWell
  <1>5. \A id \in DOMAIN heard' : heard'[id] = "ok" =>
           (id \in DOMAIN heard /\ heard[id] = "ok") \/ Fulfilled(id)
    <2>1. CASE UNCHANGED heard
      BY <2>1
    <2>2. CASE Tell(t.wave.id, t.wave.outcome)
      <3>1. /\ DOMAIN heard' = DOMAIN heard \cup {t.wave.id}
            /\ \A i \in DOMAIN heard' : heard'[i] = IF i = t.wave.id THEN t.wave.outcome ELSE heard[i]
        BY <2>2 DEF Tell
      <3> QED
        BY <1>4, <3>1
    <2> QED
      BY <1>2, <2>1, <2>2 DEF PongComes
  <1> QED
    BY <1>3, <1>5, KeptUnhandled

\* What a timer tells is no success.
LEMMA TimeoutKeeps ==
    ASSUME LayersTypes, LayersInv, NEW id \in waiting, AskTimesOut(id)
    PROVE  LayersTypes' /\ LayersInv'
  <1>1. UNCHANGED <<flight, pipes, handled>>
    BY DEF AskTimesOut
  <1>2. \A i \in DOMAIN heard' : heard'[i] = "ok" => i \in DOMAIN heard /\ heard[i] = "ok"
    <2>1. /\ DOMAIN heard' = DOMAIN heard \cup {id}
          /\ \A i \in DOMAIN heard' : heard'[i] = IF i = id THEN "timeout" ELSE heard[i]
      BY DEF AskTimesOut, Tell
    <2> QED
      BY <2>1
  <1> QED
    BY <1>1, <1>2, KeptUnhandled

\* What a core asks starts at that core.
LEMMA AskKeeps ==
    ASSUME LayersTypes, LayersInv, NEW k \in Asks, Ask(k)
    PROVE  LayersTypes' /\ LayersInv'
  <1>1. PICK core : core = Surface(Asker[k], Core)
    OBVIOUS
  <1>2. PICK ping : ping = Ping(<<k>>, core, Asked[k], core)
    OBVIOUS
  <1>3. PICK i : i = Injected(ping, Core, FALSE)
    OBVIOUS
  <1>4. Asker[k] \in Points /\ Asked[k] \in Surfaces
    BY LayersAssumption DEF Surfaces
  <1>5. core \in Surfaces
    BY <1>1, <1>4, SurfaceFacts DEF Gravity, Core
  <1>6. <<k>> \in Seq(Names) /\ Len(<<k>>) = 1 /\ <<k>>[1] = k
    BY DEF Names
  <1>7. ping \in Pings /\ ping.kind = "ping" /\ ping.id = <<k>> /\ ping.from = core /\ ping.to = Asked[k]
    BY <1>2, <1>4, <1>5, <1>6 DEF Ping, Pings
  <1>8. /\ i \in Flights /\ i.step = "inject" /\ i.wave = ping /\ i.layer = Core /\ i.gravity = FALSE
    BY <1>3, <1>7 DEF Injected, Flights, Injections, Gravity, Core
  <1>9. CoreAsks(ping)
    BY <1>1, <1>6, <1>7 DEF CoreAsks
  <1>10. GoesWell(i)
    BY <1>7, <1>8, <1>9 DEF GoesWell
  <1>11. flight' = flight \cup {i} /\ UNCHANGED <<pipes, heard, handled>>
    BY <1>1, <1>2, <1>3 DEF Ask
  <1>12. \A id \in DOMAIN heard' : heard'[id] = "ok" => id \in DOMAIN heard /\ heard[id] = "ok"
    BY <1>11
  <1> QED
    BY <1>8, <1>10, <1>11, <1>12, KeptUnhandled

\* Who handles a ping: the asker's own shell, or the shell or the core below its own Field.
LEMMA HandlersWell ==
    ASSUME NEW t \in Traversals, t.wave.kind = "ping", GoesWell(t),
           NEW s, \/ t.step = "visit" /\ t.layer = Shell /\ t.dest = Shell /\ s = Surface(t.point, Shell)
                  \/ t.step = "driver" /\ s = Surface(t.to.point, Core)
    PROVE  /\ t.wave.from.point # s.point => t.wave.back = Surface(s.point, Field)
           /\ Owed(t.wave.id) = {s}
  <1>1. t.point \in Points /\ t.to \in Surfaces /\ Shell # Field
    <2>1. t.point \in Points /\ t.to \in Surfaces
      BY DEF Traversals
    <2> QED
      BY <2>1 DEF Shell, Field
  <1>2. CASE Rises(t)
    <2>1. /\ t.step = "visit" /\ t.layer = Shell /\ t.dest = Shell /\ s = Surface(t.point, Shell)
          /\ Direct(t.wave.id[1]) /\ Len(t.wave.id) = 1 /\ t.wave.to = s /\ t.wave.to = Asked[t.wave.id[1]]
          /\ t.point = t.wave.from.point
      BY <1>2 DEF Rises, CoreAsks, Shell, Nowhere
    <2>2. s.point = t.point
      BY <2>1 DEF Surface
    <2>3. Owed(t.wave.id) = {s}
      BY <2>1 DEF Owed, AnswerersOf
    <2> QED
      BY <2>1, <2>2, <2>3
  <1>3. CASE Descends(t)
    <2>1. /\ t.to = Surface(t.point, t.dest) /\ t.wave.back = Surface(t.point, Field)
          /\ Len(t.wave.id) > 1 /\ StopOf(t.wave.id).stop = "core" /\ StopOf(t.wave.id).of = t.to
      BY <1>3 DEF Descends
    <2>2. t.to.point = t.point /\ t.to.layer = t.dest
      BY <2>1, SurfaceFacts
    <2>3. s.point = t.point
      BY <2>2, SurfaceFacts
    <2>4. Answerer(t.to) = s
      <3>1. CASE t.step = "visit"
        BY <2>1, <2>2, <3>1 DEF Answerer
      <3>2. CASE t.step = "driver"
        <4>1. t.dest # Shell
          BY <1>3, <3>2 DEF Descends
        <4> QED
          BY <2>2, <3>2, <4>1 DEF Answerer
      <3> QED
        BY <3>1, <3>2
    <2>5. Owed(t.wave.id) = {s}
      <3>1. t.wave \in Pings \cup Pongs
        BY DEF Traversals
      <3>2. t.wave.id \in Seq(Names)
        BY <3>1 DEF Pings, Pongs
      <3>3. PICK n : n = Len(t.wave.id)
        OBVIOUS
      <3>4. n \in Nat
        BY <3>2, <3>3
      <3>5. n > 1
        BY <2>1, <3>3
      <3>6. n # 1
        BY <3>4, <3>5
      <3> QED
        BY <2>1, <2>4, <3>3, <3>6 DEF Owed
    <2> QED
      BY <2>1, <2>3, <2>5
  <1>4. ~AtField(t)
    BY <1>1 DEF AtField
  <1>5. t.step \in {"visit", "next", "driver"}
    BY GoingFacts
  <1> QED
    BY <1>2, <1>3, <1>4, <1>5 DEF GoesWell

\* The one that handled it well has fulfilled it.
LEMMA RecordWell ==
    ASSUME LayersInv, NEW wave, NEW s, NEW outcome, Record(wave, s, outcome),
           wave.from.point # s.point => wave.back = Surface(s.point, Field), Owed(wave.id) = {s}
    PROVE  handled \subseteq handled' /\ ThroughField' /\ (outcome = "ok" => Fulfilled(wave.id)')
  <1>1. PICK h : h = [id |-> wave.id, at |-> s, outcome |-> outcome,
                      from |-> wave.from.point, back |-> wave.back]
    OBVIOUS
  <1>2. handled' = handled \cup {h}
    BY <1>1 DEF Record
  <1>3. h.id = wave.id /\ h.at = s /\ h.outcome = outcome /\ h.from = wave.from.point /\ h.back = wave.back
    BY <1>1
  <1>4. ThroughField'
    BY <1>2, <1>3 DEF LayersInv, ThroughField
  <1>5. outcome = "ok" => Fulfilled(wave.id)'
    <2>1. h \in handled' /\ h.id[1] = wave.id[1] /\ h.at = s /\ h.outcome = outcome
      BY <1>2, <1>3
    <2> QED
      BY <2>1 DEF Fulfilled
  <1> QED
    BY <1>2, <1>4, <1>5

\* A ping that was handled is answered as it was, or not at all.
LEMMA HandledKeeps ==
    ASSUME LayersTypes, LayersInv, NEW t \in flight, t \in Traversals, t.wave.kind = "ping",
           NEW s \in Surfaces, NEW outcome,
           \/ t.step = "visit" /\ t.layer = Shell /\ t.dest = Shell /\ s = Surface(t.point, Shell)
           \/ t.step = "driver" /\ s = Surface(t.to.point, Core),
           Record(t.wave, s, outcome), NEW layer \in Gravity..Core,
           \/ outcome \in {"ok", "err"} /\ Becomes(t, {Injected(Pong(t.wave, s, outcome), layer, FALSE)})
           \/ Becomes(t, {}),
           UNCHANGED <<pipes, heard>>
    PROVE  LayersTypes' /\ LayersInv'
  <1>1. t.wave \in Pings /\ GoesWell(t)
    BY Flown
  <1>2. /\ t.wave.from.point # s.point => t.wave.back = Surface(s.point, Field)
        /\ Owed(t.wave.id) = {s}
    BY <1>1, HandlersWell
  <1>3. PICK wave : wave = t.wave
    OBVIOUS
  <1>4. handled \subseteq handled' /\ ThroughField' /\ (outcome = "ok" => Fulfilled(t.wave.id)')
    <2>1. handled \subseteq handled' /\ ThroughField' /\ (outcome = "ok" => Fulfilled(wave.id)')
      BY <1>2, <1>3, RecordWell
    <2> QED
      BY <1>3, <2>1
  <1>5. \A g \in flight' : g \in flight \/ (g \in Flights /\ GoesWell(g)')
    <2>1. CASE Becomes(t, {})
      BY <2>1 DEF Becomes
    <2>2. CASE outcome \in {"ok", "err"} /\ Becomes(t, {Injected(Pong(t.wave, s, outcome), layer, FALSE)})
      <3>1. PICK pong : pong = Pong(t.wave, s, outcome)
        OBVIOUS
      <3>2. PICK i : i = Injected(pong, layer, FALSE)
        OBVIOUS
      <3>3. pong.kind = "pong" /\ pong.outcome = outcome /\ pong.id = t.wave.id /\ i \in Flights /\ i.wave = pong
        BY <1>1, <2>2, <3>1, <3>2, PongMade
      <3>4. GoesWell(i)'
        BY <1>4, <3>3 DEF GoesWell
      <3>5. flight' = (flight \ {t}) \cup {i}
        BY <2>2, <3>1, <3>2 DEF Becomes
      <3> QED
        BY <3>3, <3>4, <3>5
    <2> QED
      BY <2>1, <2>2
  <1>6. /\ \A id \in DOMAIN heard' : heard'[id] = "ok" => id \in DOMAIN heard /\ heard[id] = "ok"
        /\ \A x \in pipes' : x \in pipes
    OBVIOUS
  <1> QED
    BY <1>4, <1>5, <1>6, KeptWell

\* A shell that handles a ping.
LEMMA ShellHandlesKeeps ==
    ASSUME LayersTypes, LayersInv, NEW t \in flight, ShellHandles(t)
    PROVE  LayersTypes' /\ LayersInv'
  <1>1. t \in Traversals /\ t.step = "visit" /\ t.layer = Shell /\ t.dest = Shell /\ t.wave.kind = "ping"
    BY Flown DEF ShellHandles, Visits, Directed
  <1>2. PICK s : s = Surface(t.point, Shell)
    OBVIOUS
  <1>3. PICK outcome : outcome = IF t.wave.from.point = t.point THEN "ok" ELSE "err"
    OBVIOUS
  <1>4. /\ Record(t.wave, s, outcome)
        /\ Becomes(t, {Injected(Pong(t.wave, s, outcome), Shell, FALSE)})
        /\ UNCHANGED <<pipes, heard>>
    BY <1>2, <1>3 DEF ShellHandles
  <1>5. s \in Surfaces /\ Shell \in Gravity..Core
    BY <1>1, <1>2, GoingFacts, SurfaceFacts DEF Gravity, Core, Shell
  <1>6. outcome \in {"ok", "err"}
    BY <1>3
  <1> QED
    BY <1>1, <1>2, <1>4, <1>5, <1>6, HandledKeeps

\* An item that handles a ping, or absorbs it.
LEMMA HandleKeeps ==
    ASSUME LayersTypes, LayersInv, NEW t \in flight, Handle(t)
    PROVE  LayersTypes' /\ LayersInv'
  <1>1. t \in Traversals /\ t.step = "driver" /\ t.wave.kind = "ping"
    BY Flown DEF Handle, ToDriver, Directed
  <1>2. PICK s : s = Surface(t.to.point, Core)
    OBVIOUS
  <1>3. PICK outcome \in {"ok", "err", "absorbed"} :
           /\ Record(t.wave, s, outcome)
           /\ Becomes(t, IF outcome = "absorbed" THEN {}
                         ELSE {Injected(Pong(t.wave, s, outcome), Guest, FALSE)})
    BY <1>2 DEF Handle
  <1>4. UNCHANGED <<pipes, heard>>
    BY DEF Handle
  <1>5. s \in Surfaces /\ Guest \in Gravity..Core
    <2>1. t.to \in Surfaces
      BY <1>1, GoingFacts
    <2> QED
      BY <1>2, <2>1, SurfaceFacts DEF Gravity, Core, Guest
  <1>6. CASE outcome = "absorbed"
    BY <1>1, <1>2, <1>3, <1>4, <1>5, <1>6, HandledKeeps
  <1>7. CASE outcome \in {"ok", "err"}
    BY <1>1, <1>2, <1>3, <1>4, <1>5, <1>7, HandledKeeps
  <1> QED
    BY <1>3, <1>6, <1>7

\* A pipeline as it is: its traversal is at the Field of whom the ping asks.
LEMMA Piped ==
    ASSUME LayersTypes, LayersInv, NEW x \in pipes
    PROVE  /\ x \in Pipelines /\ RunsWell(x)
           /\ x.traversal \in Traversals /\ x.traversal.wave \in Pings
           /\ x.rest \in Seq(Points \cup {"core", "reflect"}) /\ x.asks \in BOOLEAN
           /\ AtField(x.traversal) /\ x.traversal.dest # Field
           /\ x.traversal.point \in Points /\ x.traversal.to \in Surfaces
           /\ x.traversal.to = Surface(x.traversal.point, x.traversal.dest)
           /\ Len(x.traversal.wave.id) > 0
  <1>1. x \in Pipelines /\ RunsWell(x)
    BY DEF LayersTypes, LayersInv
  <1>2. x.traversal \in Traversals /\ x.rest \in Seq(Points \cup {"core", "reflect"}) /\ x.asks \in BOOLEAN
    BY <1>1 DEF Pipelines
  <1>3. x.traversal.wave.kind = "ping" /\ AtField(x.traversal) /\ x.traversal.dest # Field
    BY <1>1 DEF RunsWell
  <1>4. x.traversal.wave \in Pings /\ x.traversal.point \in Points /\ x.traversal.to \in Surfaces
    <2>1. x.traversal.wave \in Pings \cup Pongs /\ x.traversal.point \in Points /\ x.traversal.to \in Surfaces
      BY <1>2 DEF Traversals
    <2> QED
      BY <1>3, <2>1 DEF Pongs
  <1>5. x.traversal.to = Surface(x.traversal.point, x.traversal.dest) /\ Outer(x.traversal.wave)
    BY <1>3 DEF AtField
  <1>6. Len(x.traversal.wave.id) > 0
    <2>1. PICK n : n = Len(x.traversal.wave.id)
      OBVIOUS
    <2>2. n \in Nat
      BY <1>4, <2>1 DEF Pings
    <2>3. n = 1 \/ n > 1
      BY <1>5, <2>1 DEF Outer
    <2>4. n > 0
      BY <2>2, <2>3
    <2> QED
      BY <2>1, <2>4
  <1> QED
    BY <1>1, <1>2, <1>3, <1>4, <1>5, <1>6

\* A pipeline as its fields.
Running(t, rest, asks) == [traversal |-> t, rest |-> rest, asks |-> asks]

\* A change of a pipeline, by its fields.
LEMMA RunningFacts ==
    ASSUME NEW x \in Pipelines
    PROVE  /\ \A asks : [x EXCEPT !.asks = asks] = Running(x.traversal, x.rest, asks)
           /\ \A rest : [x EXCEPT !.rest = rest] = Running(x.traversal, rest, x.asks)
  <1>1. ASSUME NEW asks PROVE [x EXCEPT !.asks = asks] = Running(x.traversal, x.rest, asks)
    BY DEF Pipelines, Running
  <1>2. ASSUME NEW rest PROVE [x EXCEPT !.rest = rest] = Running(x.traversal, rest, x.asks)
    BY DEF Pipelines, Running
  <1> QED
    BY <1>1, <1>2

\* The fields of a pipeline.
LEMMA RunningFields ==
    ASSUME NEW t, NEW rest, NEW asks, NEW y, y = Running(t, rest, asks)
    PROVE  y.traversal = t /\ y.rest = rest /\ y.asks = asks
  BY DEF Running

\* The stop that a pipeline is at, and the name of what it asks there.
LEMMA PipeNamed ==
    ASSUME LayersTypes, LayersInv, NEW x \in pipes, x.rest # <<>>
    PROVE  /\ PipeId(x) \in Seq(Names) /\ Len(PipeId(x)) > 1
           /\ \E e \in StopNames : /\ PipeId(x) = Append(x.traversal.wave.id, e) /\ StopOf(PipeId(x)) = e
                                   /\ e.of = x.traversal.to /\ e.stop = Head(x.rest)
  <1>1. /\ x.traversal.wave.id \in Seq(Names) /\ Len(x.traversal.wave.id) > 0
        /\ x.traversal.to \in Surfaces /\ x.rest \in Seq(Points \cup {"core", "reflect"})
    BY Piped DEF Pings
  <1>2. PICK e : e = [of |-> x.traversal.to, stop |-> Head(x.rest), left |-> Len(x.rest)]
    OBVIOUS
  <1>3. Head(x.rest) \in Points \cup {"core", "reflect"} /\ Len(x.rest) \in Nat
    BY <1>1
  <1>4. e \in StopNames /\ e.of = x.traversal.to /\ e.stop = Head(x.rest)
    BY <1>1, <1>2, <1>3 DEF StopNames
  <1>5. PipeId(x) = Append(x.traversal.wave.id, e)
    BY <1>2 DEF PipeId
  <1>6. e \in Names
    BY <1>4 DEF Names
  <1>7. PICK id : id = x.traversal.wave.id
    OBVIOUS
  <1>8. Append(id, e) \in Seq(Names) /\ Len(Append(id, e)) > 1 /\ StopOf(Append(id, e)) = e
    BY <1>1, <1>6, <1>7, NameFacts
  <1> QED
    BY <1>4, <1>5, <1>7, <1>8

\* A pipeline that asks, or no longer does, is as it was.
LEMMA AsksWell ==
    ASSUME NEW x \in Pipelines, RunsWell(x), NEW asks \in BOOLEAN,
           asks => x.rest # <<>> /\ Head(x.rest) # "reflect",
           NEW y, y = Running(x.traversal, x.rest, asks)
    PROVE  y \in Pipelines /\ RunsWell(y)
  <1>1. y.traversal = x.traversal /\ y.rest = x.rest /\ y.asks = asks
    BY RunningFields
  <1>2. y \in Pipelines
    BY DEF Running, Pipelines
  <1>3. RunsWell(y)
    BY <1>1 DEF RunsWell
  <1> QED
    BY <1>2, <1>3

\* So is one that has a stop behind it that was answered well.
LEMMA StopsWell ==
    ASSUME LayersTypes, LayersInv, NEW x \in pipes, x.rest # <<>>,
           Head(x.rest) # "reflect" => Fulfilled(PipeId(x)),
           NEW asks \in BOOLEAN, asks => x.asks /\ Head(x.rest) = "reflect",
           NEW y, y = Running(x.traversal, Tail(x.rest), asks)
    PROVE  y \in Pipelines /\ RunsWell(y)
  <1>1. y.traversal = x.traversal /\ y.rest = Tail(x.rest) /\ y.asks = asks
    BY RunningFields
  <1>2. /\ x \in Pipelines /\ RunsWell(x) /\ x.rest \in Seq(Points \cup {"core", "reflect"})
        /\ x.traversal \in Traversals /\ x.traversal.point \in Points
    BY Piped
  <1>3. y \in Pipelines
    <2>1. Tail(x.rest) \in Seq(Points \cup {"core", "reflect"})
      BY <1>2
    <2> QED
      BY <1>2, <2>1 DEF Running, Pipelines
  <1>4. asks = FALSE
    BY DEF LayersInv, RunsWell
  <1>5. PICK B : B = Bind[x.traversal.point]
    OBVIOUS
  <1>6. Len(B) \in Nat
    <2>1. Bind[x.traversal.point] \in Seq(Points \cup {"core", "reflect"})
      BY <1>2, LayersAssumption
    <2> QED
      BY <1>5, <2>1
  <1>7. PICK n \in 0..Len(B) :
          /\ Len(x.rest) = Len(B) - n
          /\ \A i \in 1..Len(x.rest) : x.rest[i] = B[n + i]
          /\ \A j \in 1..n : B[j] # "reflect" =>
                \E e \in StopNames :
                   /\ e.of = x.traversal.to /\ e.stop = B[j]
                   /\ Fulfilled(Append(x.traversal.wave.id, e))
    BY <1>2, <1>5 DEF RunsWell
  <1>8. PICK rest : rest = x.rest
    OBVIOUS
  <1>9. PICK k : k = Len(rest)
    OBVIOUS
  <1>10. /\ k \in Nat /\ k > 0 /\ Len(Tail(rest)) = k - 1
         /\ \A i \in 1..k - 1 : Tail(rest)[i] = rest[i + 1]
         /\ Head(rest) = rest[1]
    BY <1>2, <1>8, <1>9
  <1>11. /\ k = Len(B) - n /\ \A i \in 1..k : rest[i] = B[n + i]
    BY <1>7, <1>8, <1>9
  <1>12. B[n + 1] = Head(x.rest) /\ n + 1 \in 0..Len(B)
    BY <1>6, <1>8, <1>10, <1>11
  <1>13. Len(y.rest) = k - 1 /\ Len(y.rest) = Len(B) - (n + 1)
    <2>1. k - 1 = Len(B) - (n + 1)
      BY <1>6, <1>10, <1>11
    <2> QED
      BY <1>1, <1>8, <1>10, <2>1
  <1>14. \A i \in 1..Len(y.rest) : y.rest[i] = B[(n + 1) + i]
    <2> SUFFICES ASSUME NEW i \in 1..k - 1 PROVE y.rest[i] = B[(n + 1) + i]
      BY <1>13
    <2>1. y.rest[i] = rest[i + 1]
      BY <1>1, <1>8, <1>10
    <2>2. i + 1 \in 1..k
      BY <1>10
    <2>3. rest[i + 1] = B[n + (i + 1)]
      BY <1>11, <2>2
    <2>4. n + (i + 1) = (n + 1) + i
      BY <1>6, <1>7
    <2> QED
      BY <2>1, <2>3, <2>4
  <1>15. \A j \in 1..n + 1 : B[j] # "reflect" =>
            \E e \in StopNames :
               /\ e.of = x.traversal.to /\ e.stop = B[j]
               /\ Fulfilled(Append(x.traversal.wave.id, e))
    <2> SUFFICES ASSUME NEW j \in 1..n + 1, B[j] # "reflect"
                 PROVE  \E e \in StopNames : /\ e.of = x.traversal.to /\ e.stop = B[j]
                                             /\ Fulfilled(Append(x.traversal.wave.id, e))
      OBVIOUS
    <2>1. j \in 1..n \/ j = n + 1
      BY <1>6, <1>7
    <2>2. CASE j \in 1..n
      BY <1>7, <2>2
    <2>3. CASE j = n + 1
      BY <1>12, <2>3, PipeNamed
    <2> QED
      BY <2>1, <2>2, <2>3
  <1>16. RunsWell(y)
    <2>1. y.traversal.wave.kind = "ping" /\ AtField(y.traversal) /\ y.traversal.dest # Field
      BY <1>1, <1>2 DEF RunsWell
    <2>2. PICK m \in 0..Len(B) : m = n + 1
      BY <1>12
    <2>3. /\ Len(y.rest) = Len(B) - m /\ \A i \in 1..Len(y.rest) : y.rest[i] = B[m + i]
          /\ \A j \in 1..m : B[j] # "reflect" =>
                \E e \in StopNames :
                   /\ e.of = y.traversal.to /\ e.stop = B[j]
                   /\ Fulfilled(Append(y.traversal.wave.id, e))
      BY <1>1, <1>13, <1>14, <1>15, <2>2
    <2>4. B = Bind[y.traversal.point] /\ y.asks = FALSE
      BY <1>1, <1>4, <1>5
    <2> QED
      BY <2>1, <2>3, <2>4 DEF RunsWell
  <1> QED
    BY <1>3, <1>16

\* What a step adds to the flights and to the pipelines is all there is to look at.
LEMMA AddedKeeps ==
    ASSUME LayersTypes, LayersInv, UNCHANGED <<heard, handled>>,
           \A g \in flight' : g \in flight \/ (g \in Flights /\ GoesWell(g)),
           \A x \in pipes' : x \in pipes \/ (x \in Pipelines /\ RunsWell(x))
    PROVE  LayersTypes' /\ LayersInv'
  <1>1. \A id \in DOMAIN heard' : heard'[id] = "ok" => id \in DOMAIN heard /\ heard[id] = "ok"
    OBVIOUS
  <1> QED
    BY <1>1, KeptUnhandled

\* A pipeline begins with all its stops ahead.
LEMMA RunPipelineKeeps ==
    ASSUME LayersTypes, LayersInv, NEW t \in flight, RunPipeline(t)
    PROVE  LayersTypes' /\ LayersInv'
  <1>1. /\ t \in Traversals /\ t.step = "visit" /\ t.layer = Field /\ t.dest # Field
        /\ t.dir = "core" /\ t.wave.kind = "ping" /\ GoesWell(t)
    BY Flown DEF RunPipeline, Visits, Directed
  <1>2. Shell # Field /\ ~(Field > Field)
    BY DEF Shell, Field
  <1>3. AtField(t)
    BY <1>1, <1>2 DEF GoesWell, Rises, Descends
  <1>4. t.point \in Points
    BY <1>1, GoingFacts
  <1>5. PICK B : B = Bind[t.point]
    OBVIOUS
  <1>6. B \in Seq(Points \cup {"core", "reflect"})
    BY <1>4, <1>5, LayersAssumption
  <1>7. PICK y : y = Running(t, B, FALSE)
    OBVIOUS
  <1>8. y.traversal = t /\ y.rest = B /\ y.asks = FALSE /\ y \in Pipelines
    BY <1>1, <1>6, <1>7 DEF Running, Pipelines
  <1>9. RunsWell(y)
    <2>1. PICK n : n = 0
      OBVIOUS
    <2>2. Len(B) \in Nat
      BY <1>6
    <2>3. n \in 0..Len(B) /\ Len(B) = Len(B) - n
      BY <2>1, <2>2
    <2>4. \A i \in 1..Len(B) : B[i] = B[n + i]
      <3>1. \A i \in 1..Len(B) : i = n + i
        BY <2>1
      <3> QED
        BY <3>1
    <2>5. \A j \in 1..n : FALSE
      BY <2>1
    <2> QED
      BY <1>1, <1>3, <1>5, <1>8, <2>3, <2>4, <2>5 DEF RunsWell
  <1>10. flight' \subseteq flight /\ pipes' = pipes \cup {y} /\ UNCHANGED <<heard, handled>>
    BY <1>5, <1>7 DEF RunPipeline, Becomes, Running
  <1> QED
    <2>1. \A h \in flight' : h \in flight \/ (h \in Flights /\ GoesWell(h))
      BY <1>8, <1>9, <1>10
    <2>2. \A z \in pipes' : z \in pipes \/ (z \in Pipelines /\ RunsWell(z))
      BY <1>8, <1>9, <1>10
    <2>3. UNCHANGED <<heard, handled>>
      BY <1>8, <1>9, <1>10
    <2> QED
      BY <2>1, <2>2, <2>3, AddedKeeps

\* A stop at the core sends its ping down from the Field.
LEMMA StopCoreKeeps ==
    ASSUME LayersTypes, LayersInv, NEW x \in pipes, StopCore(x)
    PROVE  LayersTypes' /\ LayersInv'
  <1>1. /\ x \in Pipelines /\ RunsWell(x) /\ x.traversal \in Traversals /\ x.traversal.wave \in Pings
        /\ AtField(x.traversal) /\ x.traversal.dest # Field /\ x.traversal.point \in Points
        /\ x.traversal.to = Surface(x.traversal.point, x.traversal.dest)
    BY Piped
  <1>2. x.rest # <<>> /\ Head(x.rest) = "core"
    BY DEF StopCore
  <1>3. PICK t : t = x.traversal
    OBVIOUS
  <1>4. PICK ping : ping = CorePing(x)
    OBVIOUS
  <1>5. PICK g : g = [t EXCEPT !.wave = ping, !.step = "next"]
    OBVIOUS
  <1>6. PICK y : y = Running(x.traversal, x.rest, TRUE)
    OBVIOUS
  <1>7. y \in Pipelines /\ RunsWell(y)
    BY <1>1, <1>2, <1>6, AsksWell
  <1>8. /\ flight' = flight \cup {g} /\ UNCHANGED <<heard, handled>>
        /\ pipes' = (pipes \ {x}) \cup {y}
    <2>1. y = [x EXCEPT !.asks = TRUE]
      BY <1>1, <1>6, RunningFacts
    <2> QED
      BY <1>3, <1>4, <1>5, <2>1 DEF StopCore
  <1>9. PICK e \in StopNames : /\ PipeId(x) = Append(x.traversal.wave.id, e) /\ StopOf(PipeId(x)) = e
                               /\ e.of = x.traversal.to /\ e.stop = Head(x.rest)
    BY <1>2, PipeNamed
  <1>10. /\ ping \in Pings /\ ping.kind = "ping" /\ ping.id = PipeId(x)
         /\ ping.back = Surface(t.point, Field)
    <2>1. PipeId(x) \in Seq(Names)
      BY <1>2, PipeNamed
    <2>2. Surface(t.point, Core) \in Surfaces /\ Surface(t.point, Field) \in Surfaces
      BY <1>1, <1>3, SurfaceFacts DEF Gravity, Field, Core
    <2>3. x.traversal.wave.from \in Surfaces
      BY <1>1 DEF Pings
    <2> QED
      BY <1>3, <1>4, <2>1, <2>2, <2>3 DEF CorePing, Ping, Pings, PipeField
  <1>11. g = Going("next", ping, t.to, t.dir, t.dest, t.point, t.layer)
    <2>1. t \in Traversals
      BY <1>1, <1>3
    <2>2. PICK u : u = [t EXCEPT !.step = "next"]
      OBVIOUS
    <2>3. u = Going("next", t.wave, t.to, t.dir, t.dest, t.point, t.layer)
      BY <2>1, <2>2, GoingFacts
    <2>4. [u EXCEPT !.wave = ping] = Going("next", ping, t.to, t.dir, t.dest, t.point, t.layer)
      BY <2>3 DEF Going
    <2>5. [t EXCEPT !.wave = ping, !.step = "next"] = [u EXCEPT !.wave = ping]
      BY <2>1, <2>2 DEF Traversals
    <2> QED
      BY <1>5, <2>4, <2>5
  <1>12. /\ g.step = "next" /\ g.wave = ping /\ g.to = t.to /\ g.dir = t.dir
         /\ g.dest = t.dest /\ g.point = t.point /\ g.layer = t.layer
    BY <1>11, GoingFields
  <1>13. g \in Flights
    <2>1. g \in Traversals
      BY <1>1, <1>3, <1>10, <1>11, GoingFacts DEF Going, Traversals
    <2> QED
      BY <2>1 DEF Flights
  <1>14. GoesWell(g)
    <2>1. t.dir = "core" /\ t.layer = Field
      BY <1>1, <1>3 DEF AtField
    <2>2. Len(ping.id) > 1 /\ StopOf(ping.id).stop = "core" /\ StopOf(ping.id).of = t.to
      BY <1>2, <1>3, <1>9, <1>10, PipeNamed
    <2>3. Descends(g)
      BY <1>1, <1>3, <1>10, <1>12, <2>1, <2>2 DEF Descends
    <2> QED
      BY <1>10, <1>12, <2>3, GoingWell
  <1>15. flight' \subseteq flight \cup {g} /\ pipes' \subseteq pipes \cup {y}
    BY <1>8
  <1> QED
    <2>1. \A h \in flight' : h \in flight \/ (h \in Flights /\ GoesWell(h))
      BY <1>7, <1>8, <1>13, <1>14, <1>15
    <2>2. \A z \in pipes' : z \in pipes \/ (z \in Pipelines /\ RunsWell(z))
      BY <1>7, <1>8, <1>13, <1>14, <1>15
    <2>3. UNCHANGED <<heard, handled>>
      BY <1>7, <1>8, <1>13, <1>14, <1>15
    <2> QED
      BY <2>1, <2>2, <2>3, AddedKeeps

\* A stop at another particle sends its ping to that one's Field.
LEMMA StopPointKeeps ==
    ASSUME LayersTypes, LayersInv, NEW x \in pipes, StopPoint(x)
    PROVE  LayersTypes' /\ LayersInv'
  <1>1. /\ x \in Pipelines /\ RunsWell(x) /\ x.traversal.point \in Points
    BY Piped
  <1>2. x.rest # <<>> /\ Head(x.rest) \in Points /\ Head(x.rest) # "reflect"
    BY LayersAssumption DEF StopPoint
  <1>3. PICK ping : ping = Ping(PipeId(x), Surface(Star, Core), Surface(Head(x.rest), Core), PipeField(x))
    OBVIOUS
  <1>4. PICK g : g = AtGravity(ping)
    OBVIOUS
  <1>5. PICK y : y = Running(x.traversal, x.rest, TRUE)
    OBVIOUS
  <1>6. y \in Pipelines /\ RunsWell(y)
    BY <1>1, <1>2, <1>5, AsksWell
  <1>7. /\ flight' = flight \cup {g} /\ UNCHANGED <<heard, handled>>
        /\ pipes' = (pipes \ {x}) \cup {y}
    <2>1. y = [x EXCEPT !.asks = TRUE]
      BY <1>1, <1>5, RunningFacts
    <2> QED
      BY <1>3, <1>4, <2>1 DEF StopPoint
  <1>8. PICK e \in StopNames : StopOf(PipeId(x)) = e /\ e.stop = Head(x.rest)
    BY <1>2, PipeNamed
  <1>9. /\ ping \in Pings /\ ping.kind = "ping" /\ ping.id = PipeId(x)
        /\ ping.to = Surface(Head(x.rest), Core)
    <2>1. PipeId(x) \in Seq(Names)
      BY <1>2, PipeNamed
    <2>2. Surface(Head(x.rest), Core) \in Surfaces /\ PipeField(x) \in Surfaces
      BY <1>1, <1>2, SurfaceFacts DEF PipeField, Gravity, Field, Core
    <2> QED
      BY <1>3, <2>1, <2>2, StarSurface DEF Ping, Pings
  <1>10. Outer(ping)
    <2>1. PICK n : n = Len(ping.id)
      OBVIOUS
    <2>2. n \in Nat
      BY <1>9, <2>1 DEF Pings
    <2>3. n > 1
      BY <1>2, <1>9, <2>1, PipeNamed
    <2>4. n # 1
      BY <2>2, <2>3
    <2>5. StopOf(ping.id).stop \in Points /\ ping.to = Surface(StopOf(ping.id).stop, Core)
      BY <1>2, <1>8, <1>9
    <2> QED
      BY <2>1, <2>3, <2>4, <2>5 DEF Outer
  <1>11. g \in Flights /\ GoesWell(g)
    BY <1>4, <1>9, <1>10, ToField
  <1>12. flight' \subseteq flight \cup {g} /\ pipes' \subseteq pipes \cup {y}
    BY <1>7
  <1> QED
    <2>1. \A h \in flight' : h \in flight \/ (h \in Flights /\ GoesWell(h))
      BY <1>6, <1>7, <1>11, <1>12
    <2>2. \A z \in pipes' : z \in pipes \/ (z \in Pipelines /\ RunsWell(z))
      BY <1>6, <1>7, <1>11, <1>12
    <2>3. UNCHANGED <<heard, handled>>
      BY <1>6, <1>7, <1>11, <1>12
    <2> QED
      BY <2>1, <2>2, <2>3, AddedKeeps

\* A stop that was answered well is behind the pipeline.
LEMMA StopAnsweredKeeps ==
    ASSUME LayersTypes, LayersInv, NEW x \in pipes, StopAnswered(x)
    PROVE  LayersTypes' /\ LayersInv'
  <1>1. x \in Pipelines /\ RunsWell(x)
    BY Piped
  <1>2. x.rest # <<>> /\ PipeId(x) \in DOMAIN heard /\ heard[PipeId(x)] = "ok"
    BY <1>1 DEF RunsWell, StopAnswered, Answered, Succeeded
  <1>3. Fulfilled(PipeId(x))
    BY <1>2 DEF LayersInv
  <1>4. PICK y : y = Running(x.traversal, Tail(x.rest), FALSE)
    OBVIOUS
  <1>5. y \in Pipelines /\ RunsWell(y)
    BY <1>2, <1>3, <1>4, StopsWell
  <1>6. y = [x EXCEPT !.asks = FALSE, !.rest = Tail(x.rest)]
    <2>1. PICK rest : rest = Tail(x.rest)
      OBVIOUS
    <2>2. PICK no : no = FALSE
      OBVIOUS
    <2>3. PICK u : u = [x EXCEPT !.asks = no]
      OBVIOUS
    <2>4. u = Running(x.traversal, x.rest, no)
      BY <1>1, <2>3, RunningFacts
    <2>5. [u EXCEPT !.rest = rest] = Running(x.traversal, rest, no)
      BY <2>4 DEF Running
    <2>6. [x EXCEPT !.asks = no, !.rest = rest] = [u EXCEPT !.rest = rest]
      BY <1>1, <2>3 DEF Pipelines
    <2>7. [x EXCEPT !.asks = no, !.rest = rest] = Running(x.traversal, rest, no)
      BY <2>5, <2>6
    <2> QED
      BY <1>4, <2>1, <2>2, <2>7
  <1>7. flight' \subseteq flight /\ pipes' \subseteq pipes \cup {y} /\ UNCHANGED <<heard, handled>>
    BY <1>6 DEF StopAnswered
  <1> QED
    <2>1. \A h \in flight' : h \in flight \/ (h \in Flights /\ GoesWell(h))
      BY <1>5, <1>7
    <2>2. \A z \in pipes' : z \in pipes \/ (z \in Pipelines /\ RunsWell(z))
      BY <1>5, <1>7
    <2>3. UNCHANGED <<heard, handled>>
      BY <1>5, <1>7
    <2> QED
      BY <2>1, <2>2, <2>3, AddedKeeps

\* A pipeline that fails reflects an error.
LEMMA PipeFails ==
    ASSUME LayersTypes, LayersInv, NEW x \in pipes, ReflectError(x)
    PROVE  LayersTypes' /\ LayersInv'
  <1>1. x.traversal.wave \in Pings /\ x.traversal.point \in Points
    BY Piped
  <1>2. PipeField(x) \in Surfaces
    BY <1>1, SurfaceFacts DEF PipeField, Gravity, Field, Core
  <1>3. PICK pong : pong = Pong(x.traversal.wave, PipeField(x), "err")
    OBVIOUS
  <1>4. PICK g : g = AtGravity(pong)
    OBVIOUS
  <1>5. pong.kind = "pong" /\ pong.outcome = "err" /\ g \in Flights /\ g.wave = pong
    BY <1>1, <1>2, <1>3, <1>4, PongMade
  <1>6. GoesWell(g)
    BY <1>5, PongWell
  <1>7. flight' \subseteq flight \cup {g} /\ pipes' \subseteq pipes /\ UNCHANGED <<heard, handled>>
    BY <1>3, <1>4 DEF ReflectError
  <1> QED
    <2>1. \A h \in flight' : h \in flight \/ (h \in Flights /\ GoesWell(h))
      BY <1>5, <1>6, <1>7
    <2>2. \A z \in pipes' : z \in pipes \/ (z \in Pipelines /\ RunsWell(z))
      BY <1>5, <1>6, <1>7
    <2>3. UNCHANGED <<heard, handled>>
      BY <1>5, <1>6, <1>7
    <2> QED
      BY <2>1, <2>2, <2>3, AddedKeeps

\* A pipeline that is through.
LEMMA PipeEndsKeeps ==
    ASSUME LayersTypes, LayersInv, NEW x \in pipes, PipeEnds(x)
    PROVE  LayersTypes' /\ LayersInv'
  <1>1. flight' \subseteq flight /\ pipes' \subseteq pipes /\ UNCHANGED <<heard, handled>>
    BY DEF PipeEnds
  <1> QED
    <2>1. \A h \in flight' : h \in flight \/ (h \in Flights /\ GoesWell(h))
      BY <1>1
    <2>2. \A z \in pipes' : z \in pipes \/ (z \in Pipelines /\ RunsWell(z))
      BY <1>1
    <2>3. UNCHANGED <<heard, handled>>
      BY <1>1
    <2> QED
      BY <2>1, <2>2, <2>3, AddedKeeps

\* A way of more than one particle goes on as a way of fewer to the same end.
LEMMA WayGoesOn ==
    ASSUME NEW w \in Ways, NEW k, k = Len(w)
    PROVE  /\ k \in Nat /\ k >= 1
           /\ k > 1 => /\ w[2] \in Stops(w[1]) /\ w[2] \in Points
                       /\ \E v \in Ways : /\ v[1] = w[2] /\ v[Len(v)] = w[k]
                                          /\ Len(v) = 1 => w[2] = w[k]
  <1>1. PICK n \in 1..Cardinality(Points) : w \in [1..n -> Points]
    BY DEF Ways
  <1>2. Cardinality(Points) \in Nat
    BY LayersAssumption, FS_CardinalityType
  <1>3. n \in Nat /\ n >= 1 /\ n <= Cardinality(Points) /\ n = k
    <2>1. n \in Nat /\ n >= 1 /\ n <= Cardinality(Points)
      BY <1>1, <1>2
    <2> QED
      BY <1>1, <2>1
  <1>4. k \in Nat /\ k >= 1 /\ k <= Cardinality(Points) /\ w \in [1..k -> Points]
    BY <1>1, <1>3
  <1>5. \A i \in 1..k - 1 : w[i + 1] \in Stops(w[i])
    BY DEF Ways
  <1>6. ASSUME k > 1
        PROVE  /\ w[2] \in Stops(w[1]) /\ w[2] \in Points
               /\ \E v \in Ways : /\ v[1] = w[2] /\ v[Len(v)] = w[k]
                                  /\ Len(v) = 1 => w[2] = w[k]
    <2>1. w[2] \in Stops(w[1]) /\ w[2] \in Points
      <3>1. 1 \in 1..k - 1 /\ 2 \in 1..k
        BY <1>4, <1>6
      <3>2. w[1 + 1] \in Stops(w[1])
        BY <1>5, <3>1
      <3> QED
        BY <1>4, <3>1, <3>2
    <2>2. PICK m : m = k - 1
      OBVIOUS
    <2>3. m \in Nat /\ m >= 1 /\ m \in 1..Cardinality(Points) /\ k = m + 1
      BY <1>2, <1>4, <1>6, <2>2
    <2>4. PICK v : v = [i \in 1..m |-> w[i + 1]]
      OBVIOUS
    <2>5. \A i \in 1..m : v[i] = w[i + 1] /\ i + 1 \in 1..k
      BY <2>3, <2>4
    <2>6. v \in [1..m -> Points]
      BY <1>4, <2>4, <2>5
    <2>7. Len(v) = m
      BY <2>3, <2>6
    <2>8. \A i \in 1..m - 1 : v[i + 1] \in Stops(v[i])
      <3> SUFFICES ASSUME NEW i \in 1..m - 1 PROVE v[i + 1] \in Stops(v[i])
        OBVIOUS
      <3>1. i \in 1..m /\ i + 1 \in 1..m /\ i + 1 \in 1..k - 1
        BY <2>3
      <3>2. v[i] = w[i + 1] /\ v[i + 1] = w[(i + 1) + 1]
        BY <2>5, <3>1
      <3>3. w[(i + 1) + 1] \in Stops(w[i + 1])
        BY <1>5, <3>1
      <3> QED
        BY <3>2, <3>3
    <2>9. v \in Ways
      BY <2>3, <2>6, <2>7, <2>8 DEF Ways
    <2>10. v[1] = w[2] /\ v[m] = w[k]
      <3>1. v[1] = w[1 + 1] /\ v[m] = w[m + 1]
        BY <2>3, <2>5
      <3> QED
        BY <2>3, <3>1
    <2>11. m = 1 => w[2] = w[k]
      BY <2>3
    <2> QED
      BY <2>1, <2>7, <2>9, <2>10, <2>11
  <1> QED
    BY <1>4, <1>6

\* Whoever has to answer for a particle is the particle's own, if a stop is its core, or has to
\* answer for a particle that it asks.
LEMMA AnswerersSplit ==
    ASSUME NEW to \in Surfaces, NEW s \in Answerers(to)
    PROVE  \/ "core" \in Stops(to.point) /\ s = Answerer(to)
           \/ \E q \in Stops(to.point) \cap Points : s \in Answerers(Surface(q, Core))
  <1>1. PICK w \in Ways : w[1] = to.point /\ "core" \in Stops(w[Len(w)]) /\ s = WayEnd(w, to)
    BY DEF Answerers
  <1>2. PICK k : k = Len(w)
    OBVIOUS
  <1>3. k \in Nat /\ k >= 1
    BY <1>2, WayGoesOn
  <1>4. CASE k = 1
    BY <1>1, <1>2, <1>4 DEF WayEnd
  <1>5. CASE k > 1
    <2>1. w[2] \in Stops(w[1]) /\ w[2] \in Points
      BY <1>2, <1>5, WayGoesOn
    <2>2. PICK v \in Ways : /\ v[1] = w[2] /\ v[Len(v)] = w[k]
                            /\ Len(v) = 1 => w[2] = w[k]
      BY <1>2, <1>5, WayGoesOn
    <2>3. k # 1
      BY <1>3, <1>5
    <2>4. s = Surface(w[k], Core)
      BY <1>1, <1>2, <2>3 DEF WayEnd
    <2>5. PICK q : q = w[2]
      OBVIOUS
    <2>6. PICK r : r = Surface(q, Core)
      OBVIOUS
    <2>7. r.point = q /\ r.layer = Core /\ Core # Shell
      BY <2>6 DEF Surface, Core, Shell
    <2>8. s = WayEnd(v, r)
      <3>1. CASE Len(v) = 1
        BY <2>2, <2>4, <2>5, <2>7, <3>1 DEF WayEnd, Answerer
      <3>2. CASE Len(v) # 1
        BY <2>2, <2>4, <3>2 DEF WayEnd
      <3> QED
        BY <3>1, <3>2
    <2>9. s \in Answerers(r)
      BY <1>1, <1>2, <2>2, <2>5, <2>7, <2>8 DEF Answerers
    <2> QED
      BY <1>1, <2>1, <2>5, <2>6, <2>9
  <1> QED
    BY <1>3, <1>4, <1>5

\* A pipeline that comes to its reflect has every stop before it behind it.
LEMMA StopsBehind ==
    ASSUME LayersTypes, LayersInv, NEW x \in pipes, x.rest # <<>>, Head(x.rest) = "reflect",
           NEW q \in Stops(x.traversal.point)
    PROVE  \E e \in StopNames : /\ e.of = x.traversal.to /\ e.stop = q
                                /\ Fulfilled(Append(x.traversal.wave.id, e))
  <1>1. PICK B : B = Bind[x.traversal.point]
    OBVIOUS
  <1>2. /\ x.traversal.point \in Points /\ RunsWell(x) /\ x.rest \in Seq(Points \cup {"core", "reflect"})
    BY Piped
  <1>3. Len(B) \in Nat /\ DOMAIN B = 1..Len(B)
    <2>1. Bind[x.traversal.point] \in Seq(Points \cup {"core", "reflect"})
      BY <1>2, LayersAssumption
    <2> QED
      BY <1>1, <2>1
  <1>4. PICK n \in 0..Len(B) :
          /\ Len(x.rest) = Len(B) - n
          /\ \A i \in 1..Len(x.rest) : x.rest[i] = B[n + i]
          /\ \A j \in 1..n : B[j] # "reflect" =>
                \E e \in StopNames :
                   /\ e.of = x.traversal.to /\ e.stop = B[j]
                   /\ Fulfilled(Append(x.traversal.wave.id, e))
    BY <1>1, <1>2 DEF RunsWell
  <1>5. Len(x.rest) \in Nat /\ Len(x.rest) > 0 /\ x.rest[1] = "reflect"
    BY <1>2
  <1>6. B[n + 1] = "reflect"
    <2>1. 1 \in 1..Len(x.rest)
      BY <1>5
    <2> QED
      BY <1>4, <1>5, <2>1
  <1>7. PICK j \in DOMAIN B : q = B[j] /\ \A i \in 1..j : B[i] # "reflect"
    BY <1>1 DEF Stops
  <1>8. j \in 1..Len(B)
    BY <1>3
  <1>9. ~(n + 1 \in 1..j)
    BY <1>6, <1>7
  <1>10. j \in 1..n
    BY <1>3, <1>8, <1>9
  <1>11. j \in 1..j
    BY <1>8
  <1>12. B[j] # "reflect"
    BY <1>7, <1>11
  <1> QED
    BY <1>4, <1>7, <1>10, <1>12

\* So the ping that it reflects is fulfilled.
LEMMA ReflectFulfills ==
    ASSUME LayersTypes, LayersInv, NEW x \in pipes, x.rest # <<>>, Head(x.rest) = "reflect"
    PROVE  Fulfilled(x.traversal.wave.id)
  <1>1. PICK t : t = x.traversal
    OBVIOUS
  <1>2. PICK id : id = t.wave.id
    OBVIOUS
  <1>3. /\ AtField(t) /\ t.to \in Surfaces /\ t.to = Surface(t.point, t.dest)
        /\ t.wave \in Pings /\ id \in Seq(Names) /\ Len(id) > 0
    BY <1>1, <1>2, Piped DEF Pings
  <1>4. t.to.point = t.point
    BY <1>3 DEF Surface
  <1>5. "core" \notin Points
    BY LayersAssumption
  <1>6. Owed(id) = Answerers(t.to)
    <2>1. Outer(t.wave) /\ t.to = t.wave.to
      BY <1>3 DEF AtField
    <2>2. CASE Len(id) = 1
      BY <1>2, <2>1, <2>2 DEF Outer, CoreAsks, Owed, AnswerersOf
    <2>3. CASE Len(id) # 1
      <3>1. StopOf(id).stop \in Points /\ t.to = Surface(StopOf(id).stop, Core)
        BY <1>2, <2>1, <2>3 DEF Outer
      <3> QED
        BY <1>5, <2>3, <3>1 DEF Owed
    <2> QED
      BY <2>2, <2>3
  <1>7. ASSUME NEW s \in Answerers(t.to)
        PROVE  \E h \in handled : h.id[1] = id[1] /\ h.at = s /\ h.outcome = "ok"
    <2>1. ASSUME NEW e \in StopNames, Fulfilled(Append(id, e)), s \in Owed(Append(id, e))
          PROVE  \E h \in handled : h.id[1] = id[1] /\ h.at = s /\ h.outcome = "ok"
      <3>1. Append(id, e)[1] = id[1]
        BY <1>3, NameFacts DEF Names
      <3>2. \E h \in handled : h.id[1] = Append(id, e)[1] /\ h.at = s /\ h.outcome = "ok"
        BY <2>1 DEF Fulfilled
      <3> QED
        BY <3>1, <3>2
    <2>2. ASSUME NEW e \in StopNames
          PROVE  Owed(Append(id, e)) = IF e.stop = "core" THEN {Answerer(e.of)}
                                       ELSE Answerers(Surface(e.stop, Core))
      <3>1. Append(id, e) \in Seq(Names) /\ Len(Append(id, e)) > 1 /\ StopOf(Append(id, e)) = e
        BY <1>3, NameFacts DEF Names
      <3>2. PICK n : n = Len(Append(id, e))
        OBVIOUS
      <3>3. n \in Nat /\ n > 1
        BY <3>1, <3>2
      <3>4. n # 1
        BY <3>3
      <3> QED
        BY <3>1, <3>2, <3>4 DEF Owed
    <2>3. CASE "core" \in Stops(t.to.point) /\ s = Answerer(t.to)
      <3>1. PICK e \in StopNames : e.of = t.to /\ e.stop = "core" /\ Fulfilled(Append(id, e))
        BY <1>1, <1>2, <1>4, <2>3, StopsBehind
      <3> QED
        BY <2>1, <2>2, <2>3, <3>1
    <2>4. ASSUME NEW q \in Stops(t.to.point) \cap Points, s \in Answerers(Surface(q, Core))
          PROVE  \E h \in handled : h.id[1] = id[1] /\ h.at = s /\ h.outcome = "ok"
      <3>1. PICK e \in StopNames : e.of = t.to /\ e.stop = q /\ Fulfilled(Append(id, e))
        BY <1>1, <1>2, <1>4, StopsBehind
      <3> QED
        BY <1>5, <2>1, <2>2, <2>4, <3>1
    <2> QED
      BY <1>3, <2>3, <2>4, AnswerersSplit
  <1> QED
    BY <1>1, <1>2, <1>6, <1>7 DEF Fulfilled

\* A pipeline that reflects well may do so.
LEMMA StopReflectKeeps ==
    ASSUME LayersTypes, LayersInv, NEW x \in pipes, StopReflect(x)
    PROVE  LayersTypes' /\ LayersInv'
  <1>1. x \in Pipelines /\ x.traversal.wave \in Pings /\ x.traversal.to \in Surfaces
    BY Piped
  <1>2. x.rest # <<>> /\ Head(x.rest) = "reflect"
    BY DEF StopReflect
  <1>3. PICK pong : pong = Pong(x.traversal.wave, x.traversal.to, "ok")
    OBVIOUS
  <1>4. PICK g : g = AtGravity(pong)
    OBVIOUS
  <1>5. pong.kind = "pong" /\ pong.id = x.traversal.wave.id /\ g \in Flights /\ g.wave = pong
    BY <1>1, <1>3, <1>4, PongMade
  <1>6. Fulfilled(pong.id)
    BY <1>2, <1>5, ReflectFulfills
  <1>7. GoesWell(g)
    BY <1>5, <1>6, PongWell
  <1>8. PICK y : y = Running(x.traversal, Tail(x.rest), x.asks)
    OBVIOUS
  <1>9. x.asks \in BOOLEAN
    BY Piped
  <1>10. y \in Pipelines /\ RunsWell(y)
    BY <1>2, <1>8, <1>9, StopsWell
  <1>11. y = [x EXCEPT !.rest = Tail(x.rest)]
    BY <1>1, <1>8, RunningFacts
  <1>12. /\ pipes' = (pipes \ {x}) \cup {y} /\ flight' = flight \cup {g}
         /\ UNCHANGED <<heard, handled>>
    BY <1>3, <1>4, <1>11 DEF StopReflect
  <1>13. \A h \in flight' : h \in flight \/ (h \in Flights /\ GoesWell(h))
    BY <1>5, <1>7, <1>12
  <1>14. \A z \in pipes' : z \in pipes \/ (z \in Pipelines /\ RunsWell(z))
    BY <1>10, <1>12
  <1> QED
    BY <1>12, <1>13, <1>14, AddedKeeps

\* Nothing has flown, run or been heard at the start.
LEMMA LayersStart == LayersInit => LayersTypes /\ LayersInv
  BY DEF LayersInit, LayersTypes, LayersInv, ThroughField

\* Every step keeps the invariant.
LEMMA LayersStep == LayersTypes /\ LayersInv /\ [LayersNext]_layersVars => LayersTypes' /\ LayersInv'
  <1> SUFFICES ASSUME LayersTypes, LayersInv, [LayersNext]_layersVars
               PROVE  LayersTypes' /\ LayersInv'
    OBVIOUS
  <1>1. ASSUME NEW f \in flight, Fly(f)
        PROVE  LayersTypes' /\ LayersInv'
    <2>1. CASE Start(f)
      BY <2>1, StartKeeps
    <2>2. CASE StartFails(f)
      BY <2>2, StartFailsKeeps
    <2>3. CASE TraverseToNextLayer(f)
      BY <2>3, TraverseKeeps
    <2>4. CASE PassOn(f)
      BY <2>4, PassOnKeeps
    <2>5. CASE DeliverReflected(f) \/ HearAnswer(f)
      BY <2>5, PongComesKeeps
    <2>6. CASE FieldRefuses(f) \/ NoRoute(f) \/ NoItem(f)
      BY <2>6, LoggedKeeps
    <2>7. CASE ShellHandles(f)
      BY <2>7, ShellHandlesKeeps
    <2>8. CASE RunPipeline(f)
      BY <2>8, RunPipelineKeeps
    <2>9. CASE ToGravity(f)
      BY <2>9, ToGravityKeeps
    <2>10. CASE Handle(f)
      BY <2>10, HandleKeeps
    <2> QED
      BY <1>1, <2>1, <2>2, <2>3, <2>4, <2>5, <2>6, <2>7, <2>8, <2>9, <2>10 DEF Fly
  <1>2. ASSUME NEW x \in pipes, Pipe(x)
        PROVE  LayersTypes' /\ LayersInv'
    <2>1. CASE StopCore(x)
      BY <2>1, StopCoreKeeps
    <2>2. CASE StopPoint(x)
      BY <2>2, StopPointKeeps
    <2>3. CASE StopAnswered(x)
      BY <2>3, StopAnsweredKeeps
    <2>4. CASE StopFails(x) \/ StepFails(x)
      BY <2>4, PipeFails DEF StopFails, StepFails
    <2>5. CASE StopReflect(x)
      BY <2>5, StopReflectKeeps
    <2>6. CASE PipeEnds(x)
      BY <2>6, PipeEndsKeeps
    <2> QED
      BY <1>2, <2>1, <2>2, <2>3, <2>4, <2>5, <2>6 DEF Pipe
  <1>3. ASSUME NEW id \in waiting, AskTimesOut(id)
        PROVE  LayersTypes' /\ LayersInv'
    BY <1>3, TimeoutKeeps
  <1>4. ASSUME NEW k \in Asks, Ask(k)
        PROVE  LayersTypes' /\ LayersInv'
    BY <1>4, AskKeeps
  <1>5. CASE UNCHANGED layersVars
    <2>1. UNCHANGED <<flight, pipes, heard, handled>>
      BY <1>5 DEF layersVars
    <2> QED
      BY <2>1, AddedKeeps
  <1> QED
    BY <1>1, <1>2, <1>3, <1>4, <1>5 DEF LayersNext, Work

\* The invariant holds always.
LEMMA LayersInvariant == LayersSpec => [](LayersTypes /\ LayersInv)
  BY LayersStart, LayersStep, PTL DEF LayersSpec

\* Who is told that all is well is told so because every surface that its ask was for has handled
\* it well: no timer's answer, no other stop's and no pong for somebody else is taken for one
\* (Reflection::make, PipeEx::direct, Exchanger::reflected), whatever the pipelines are.
THEOREM LayersAnswersWell == LayersSpec => []AnsweredAsAsked
  <1>1. LayersTypes /\ LayersInv => AnsweredAsAsked
    <2> SUFFICES ASSUME LayersInv, NEW id \in DOMAIN heard, Len(id) = 1, heard[id] = "ok",
                        NEW s \in AnswerersOf(id[1])
                 PROVE  \E h \in handled : h.id[1] = id[1] /\ h.at = s /\ h.outcome = "ok"
      BY DEF AnsweredAsAsked
    <2>1. Fulfilled(id)
      BY DEF LayersInv
    <2> QED
      BY <2>1 DEF Fulfilled, Owed
  <1> QED
    BY <1>1, LayersInvariant, PTL

\* A core or a shell handles a ping of another particle only as a stop of its own Field's pipeline:
\* no way through a plan passes a Field by (TraversalPlan, start_layer_traversal, visit).
THEOREM LayersPassField == LayersSpec => []ThroughField
  <1>1. LayersTypes /\ LayersInv => ThroughField
    BY DEF LayersInv
  <1> QED
    BY <1>1, LayersInvariant, PTL
=============================================================================
