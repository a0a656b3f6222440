---------------------------- MODULE RouterProofs ----------------------------
(***************************************************************************)
(* Proofs about module Router, for any stars, webs, waves and capacities:  *)
(* its type invariant, that a web with a hub gives up no transport, that   *)
(* the web of a machine's default template is one, and that no wave is     *)
(* lost without a trace or arrives twice.                                  *)
(***************************************************************************)
EXTENDS Router, FiniteSetTheorems, TLAPS

-----------------------------------------------------------------------------
(* Calls, and channels of them.                                            *)

LEMMA SceneTyped ==
    ASSUME TypeOK
    PROVE  /\ scene \in SceneType
           /\ scene.from \in [Waves -> Stars]
           /\ scene.adjacents \in [Stars -> SUBSET Stars]
           /\ scene.to \in [Waves -> Stars \cup {Everyone, Global}]
           /\ scene.forwarders \subseteq Stars
  BY RouterAssumption DEF TypeOK, SceneType

LEMMA CallTyped ==
    ASSUME NEW op \in Ops, NEW w \in Waves, NEW t \in Stars \cup {Nothing}
    PROVE  Call(op, w, t, 0) \in Calls
  BY RouterAssumption DEF Call, Calls

LEMMA AsTyped ==
    ASSUME NEW op \in Ops, NEW c \in Calls
    PROVE  /\ As(op, c) \in Calls
           /\ As(op, c).op = op /\ As(op, c).wave = c.wave /\ As(op, c).to = c.to
           /\ As(op, c).hops = c.hops
  BY DEF As, Calls

LEMMA CountedTyped ==
    ASSUME NEW c \in Calls, ~TooFar(c)
    PROVE  /\ Counted(c) \in Calls
           /\ Counted(c).op = c.op /\ Counted(c).wave = c.wave /\ Counted(c).to = c.to
           /\ Counted(c).hops = c.hops + 1
  <1>1. c.hops \in 0..MaxHops /\ MaxHops \in Nat
    BY RouterAssumption DEF Calls
  <1>2. Counted(c).hops = c.hops + 1
    BY DEF Counted, Calls
  <1>3. c.hops + 1 \in 0..MaxHops
    BY <1>1, <1>2 DEF TooFar
  <1> QED
    BY <1>2, <1>3 DEF Counted, Calls

LEMMA TailIn ==
    ASSUME NEW q \in Seq(Calls), q # <<>>
    PROVE  /\ Tail(q) \in Seq(Calls)
           /\ Len(Tail(q)) <= Len(q)
           /\ Head(q) \in Calls
           /\ Head(q) \in In(q)
           /\ In(Tail(q)) \subseteq In(q)
  <1>1. Len(q) \in Nat /\ Len(q) >= 1 /\ DOMAIN q = 1..Len(q)
    OBVIOUS
  <1>2. Tail(q) \in Seq(Calls) /\ Len(Tail(q)) = Len(q) - 1
    OBVIOUS
  <1>3. \A i \in 1..(Len(q) - 1) : Tail(q)[i] = q[i + 1] /\ i + 1 \in 1..Len(q)
    BY <1>1
  <1>4. Head(q) = q[1] /\ q[1] \in Calls
    BY <1>1
  <1> QED
    BY <1>1, <1>2, <1>3, <1>4 DEF In

LEMMA AppendIn ==
    ASSUME NEW q \in Seq(Calls), NEW c \in Calls
    PROVE  /\ Append(q, c) \in Seq(Calls)
           /\ Len(Append(q, c)) = Len(q) + 1
           /\ In(Append(q, c)) = In(q) \cup {c}
  <1>1. Len(q) \in Nat /\ DOMAIN q = 1..Len(q)
    OBVIOUS
  <1>2. Append(q, c) \in Seq(Calls) /\ Len(Append(q, c)) = Len(q) + 1
    OBVIOUS
  <1>3. /\ DOMAIN Append(q, c) = 1..(Len(q) + 1)
        /\ \A i \in 1..Len(q) : Append(q, c)[i] = q[i]
        /\ Append(q, c)[Len(q) + 1] = c
    BY <1>1
  <1>4. 1..(Len(q) + 1) = 1..Len(q) \cup {Len(q) + 1}
    BY <1>1
  <1> QED
    BY <1>1, <1>2, <1>3, <1>4 DEF In

LEMMA EmptyIn == In(<<>>) = {} /\ <<>> \in Seq(Calls) /\ Len(<<>>) = 0
  BY DEF In

\* The calls in a channel are calls.
LEMMA InTyped ==
    ASSUME NEW q \in Seq(Calls)
    PROVE  In(q) \subseteq Calls
  BY DEF In

\* What Recv says of the call that the loop takes.
LEMMA TopTyped ==
    ASSUME TypeOK, NEW s \in Stars, calls[s] # <<>>
    PROVE  /\ calls[s] \in Seq(Calls) /\ Top(s) \in Calls /\ Top(s) \in In(calls[s])
           /\ Top(s).wave \in Waves /\ Top(s).to \in Stars \cup {Nothing}
           /\ Tail(calls[s]) \in Seq(Calls)
           /\ Len(Tail(calls[s])) <= CallCap
           /\ In(Tail(calls[s])) \subseteq In(calls[s])
  <1>1. calls[s] \in Seq(Calls) /\ Len(calls[s]) <= CallCap
    BY DEF TypeOK
  <1>2. Top(s) \in Calls /\ Top(s) \in In(calls[s]) /\ Tail(calls[s]) \in Seq(Calls)
        /\ Len(Tail(calls[s])) <= Len(calls[s]) /\ In(Tail(calls[s])) \subseteq In(calls[s])
    BY <1>1, TailIn DEF Top
  <1>3. Len(Tail(calls[s])) \in Nat /\ Len(calls[s]) \in Nat /\ CallCap \in Nat
    BY <1>1, <1>2, RouterAssumption
  <1> QED
    BY <1>1, <1>2, <1>3 DEF Calls

-----------------------------------------------------------------------------
(* The invariant.  Apart from the types: a wave that is to be sharded is   *)
(* not for GLOBAL_EXEC; and in a web with a hub, a transport leaves its    *)
(* first star with no hops, the hub with one, and comes to the hub or to   *)
(* the star that it is for.                                                *)

CallsAt(s) == pending[s] \cup In(calls[s])

Hubbed(h) == HubWeb(h) /\ Local

Leaves(h, s, c) ==
    /\ s \in Members /\ c.to \in Members /\ c.to # s
    /\ c.hops = 0 \/ (s = h /\ c.hops = 1)
Comes(h, s, c) ==
    /\ s \in Members /\ c.to \in Members
    /\ c.hops = 0 \/ (s # h /\ c.hops = 1)
    /\ s # h => c.to = s

Fit(s, c) ==
    /\ c.op = "Shard" => scene.to[c.wave] # Global
    /\ \A h \in Stars : Hubbed(h) =>
          /\ s \in Members
          /\ c.op = "ToHyperway" => Leaves(h, s, c)
          /\ c.op = "FromHyperway" => Comes(h, s, c)
FitHand(s, c) ==
    /\ c.op = "ToGravity" => scene.to[c.wave] # Global
    /\ \A h \in Stars : Hubbed(h) =>
          /\ s \in Members
          /\ c.op = "ToHyperway" => Leaves(h, s, c)
FitOut(s, c) == \A h \in Stars : Hubbed(h) => Leaves(h, s, c)

Kept == \A h \in Stars : Hubbed(h) =>
           /\ dead = {}
           /\ \A d \in dropped : d.why \in {"lost", "unlocated"}

IInv ==
    /\ TypeOK
    /\ \A s \in Stars : \A c \in CallsAt(s) : Fit(s, c)
    /\ \A s \in Stars : hand[s] # Nothing => FitHand(s, hand[s])
    /\ \A s \in Stars : \A c \in In(out[s]) : FitOut(s, c)
    /\ Kept

\* What fits a scene goes on to fit it.
LEMMA FitStays ==
    ASSUME scene' = scene
    PROVE  /\ \A s, c : (Fit(s, c) <=> Fit(s, c)') /\ (FitOut(s, c) <=> FitOut(s, c)')
                        /\ (FitHand(s, c) <=> FitHand(s, c)')
           /\ \A h : Hubbed(h) <=> Hubbed(h)'
  BY DEF Fit, FitOut, FitHand, Leaves, Comes, Hubbed, HubWeb, Local, Members, Forwarders

\* A step keeps the invariant if all that it puts anywhere fits there.
LEMMA Step ==
    ASSUME IInv, TypeOK', scene' = scene,
           \A s \in Stars : \A c \in pending'[s] \cup In(calls'[s]) : c \in CallsAt(s) \/ Fit(s, c),
           \A s \in Stars : hand'[s] # Nothing => hand'[s] = hand[s] \/ FitHand(s, hand'[s]),
           \A s \in Stars : \A c \in In(out'[s]) : c \in In(out[s]) \/ FitOut(s, c),
           \A h \in Stars : Hubbed(h) =>
              /\ dead' = dead
              /\ \A d \in dropped' : d \in dropped \/ d.why \in {"lost", "unlocated"}
    PROVE  IInv'
  <1>1. \A s \in Stars : \A c \in CallsAt(s)' : Fit(s, c)'
    BY FitStays DEF IInv, CallsAt, In
  <1>2. \A s \in Stars : \A c \in In(out[s])' : FitOut(s, c)'
    BY FitStays DEF IInv, In
  <1>3. \A s \in Stars : (hand[s] # Nothing => FitHand(s, hand[s]))'
    BY FitStays DEF IInv
  <1>4. Kept'
    BY FitStays DEF IInv, Kept
  <1> QED
    BY <1>1, <1>2, <1>3, <1>4 DEF IInv

LEMMA InvInit == Init => IInv
  <1> SUFFICES ASSUME Init PROVE IInv
    OBVIOUS
  <1>1. TypeOK
    <2>1. \A s \in Stars : calls[s] = <<>> /\ out[s] = <<>>
      BY DEF Init
    <2>2. Len(<<>>) <= CallCap /\ Len(<<>>) <= OutCap
      BY EmptyIn, RouterAssumption
    <2> QED
      BY <2>1, <2>2, EmptyIn DEF Init, TypeOK
  <1>2. \A s \in Stars : CallsAt(s) = {} /\ In(out[s]) = {} /\ hand[s] = Nothing
    BY EmptyIn DEF Init, CallsAt
  <1> QED
    BY <1>1, <1>2 DEF Init, IInv, Kept

-----------------------------------------------------------------------------
(* What the pieces of an action do.                                        *)

LEMMA TookKeeps ==
    ASSUME TypeOK, NEW s \in Stars, calls[s] # <<>>, Took(s)
    PROVE  /\ calls' \in [Stars -> Seq(Calls)]
           /\ \A r \in Stars : Len(calls'[r]) <= CallCap
           /\ \A r \in Stars : In(calls'[r]) \subseteq In(calls[r])
  <1>1. /\ Tail(calls[s]) \in Seq(Calls) /\ Len(Tail(calls[s])) <= CallCap
        /\ In(Tail(calls[s])) \subseteq In(calls[s])
    BY TopTyped
  <1>2. calls \in [Stars -> Seq(Calls)] /\ \A r \in Stars : Len(calls[r]) <= CallCap
    BY DEF TypeOK
  <1>3. calls' = [calls EXCEPT ![s] = Tail(calls[s])]
    BY DEF Took
  <1> QED
    BY <1>1, <1>2, <1>3

LEMMA SpawnKeeps ==
    ASSUME TypeOK, NEW s \in Stars, NEW cs \in SUBSET Calls, Spawn(s, cs)
    PROVE  /\ pending' \in [Stars -> SUBSET Calls]
           /\ \A r \in Stars : \A c \in pending'[r] : c \in pending[r] \/ (r = s /\ c \in cs)
  BY DEF TypeOK, Spawn

LEMMA DropKeeps ==
    ASSUME TypeOK, NEW s \in Stars, NEW cs \in SUBSET Calls, NEW why \in Reasons, Drop(cs, s, why)
    PROVE  /\ dropped' \subseteq [call : Calls, at : Stars, why : Reasons]
           /\ \A d \in dropped' : d \in dropped \/ d.why = why
  BY DEF TypeOK, Drop

LEMMA HandKeeps ==
    ASSUME TypeOK, NEW s \in Stars, NEW x \in Calls \cup {Nothing}, hand' = [hand EXCEPT ![s] = x]
    PROVE  /\ hand' \in [Stars -> Calls \cup {Nothing}]
           /\ \A r \in Stars : hand'[r] = hand[r] \/ (r = s /\ hand'[r] = x)
  BY DEF TypeOK

\* Whoever is in a web with a hub has a way to each star of it, and only one.
LEMMA HubLeads ==
    ASSUME TypeOK, NEW h \in Stars, Hubbed(h), NEW s \in Members, NEW t \in Members, t # s
    PROVE  /\ Towards(s, t) = {h} \/ Towards(s, t) = {t}
           /\ s = h => Towards(s, t) = {t}
           /\ Cardinality(Towards(s, t)) = 1
  <1>1. CASE t \in scene.adjacents[s]
    <2>1. Towards(s, t) = {t}
      BY <1>1 DEF Towards
    <2> QED
      BY <2>1, FS_Singleton
  <1>2. CASE t \notin scene.adjacents[s]
    <2>1. scene.adjacents[s] # Members \ {s}
      BY <1>2
    <2>2. s # h /\ Forwarders(s) = {h}
      BY <2>1 DEF Hubbed, HubWeb
    <2>3. Towards(s, t) = {h}
      BY <1>2, <2>2 DEF Towards
    <2> QED
      BY <2>2, <2>3, FS_Singleton
  <1> QED
    BY <1>1, <1>2

LEMMA HubIsMember ==
    ASSUME TypeOK, NEW h \in Stars, Hubbed(h), NEW s \in Members
    PROVE  h \in Members /\ Members \subseteq Stars
  BY DEF Hubbed, HubWeb, Members

LEMMA TowardsTyped ==
    ASSUME TypeOK, NEW s \in Stars, NEW t
    PROVE  Towards(s, t) \subseteq Stars
  BY SceneTyped DEF Towards, Forwarders

\* The call that the loop takes fits.
LEMMA TopFits ==
    ASSUME IInv, NEW s \in Stars, calls[s] # <<>>
    PROVE  Fit(s, Top(s))
  BY TopTyped DEF IInv, CallsAt

-----------------------------------------------------------------------------
(* Steps outside the loop.                                                 *)

LEMMA SendInv ==
    ASSUME IInv, NEW w \in Waves, Send(w)
    PROVE  IInv'
  <1> DEFINE s == scene.from[w]
             c == Call("Inject", w, Nothing, 0)
  <1>1. TypeOK /\ s \in Stars
    BY SceneTyped DEF IInv
  <1>2. c \in Calls /\ c.op = "Inject"
    BY CallTyped DEF Ops, Call
  <1>3. pending' = [pending EXCEPT ![s] = @ \cup {c}] /\ sent' = sent \cup {w}
        /\ UNCHANGED <<scene, calls, hand, out, dead, arrived, dropped>>
    BY DEF Send
  <1>4. Fit(s, c)
    <2>1. \A h \in Stars : Hubbed(h) => s \in Members
      BY DEF Hubbed, Local
    <2> QED
      BY <1>2, <2>1 DEF Fit
  <1> HIDE DEF s, c
  <1>5. pending' \in [Stars -> SUBSET Calls]
        /\ \A r \in Stars : \A x \in pending'[r] : x \in pending[r] \/ (r = s /\ x = c)
    BY <1>1, <1>2, <1>3 DEF TypeOK
  <1>6. TypeOK'
    BY <1>1, <1>3, <1>5 DEF TypeOK
  <1> QED
    BY <1>3, <1>4, <1>5, <1>6, Step DEF CallsAt

LEMMA EnqueueInv ==
    ASSUME IInv, NEW s \in Stars, Enqueue(s)
    PROVE  IInv'
  <1>1. TypeOK
    BY DEF IInv
  <1>2. PICK c \in pending[s] :
          /\ pending' = [pending EXCEPT ![s] = @ \ {c}]
          /\ calls' = [calls EXCEPT ![s] = Append(@, c)]
    BY DEF Enqueue
  <1>3. /\ Len(calls[s]) < CallCap
        /\ UNCHANGED <<scene, sent, hand, out, dead, arrived, dropped>>
    BY DEF Enqueue
  <1>4. c \in Calls /\ calls[s] \in Seq(Calls) /\ c \in CallsAt(s)
    BY <1>1 DEF TypeOK, CallsAt
  <1>5. /\ Append(calls[s], c) \in Seq(Calls)
        /\ Len(Append(calls[s], c)) <= CallCap
        /\ In(Append(calls[s], c)) = In(calls[s]) \cup {c}
    BY <1>3, <1>4, AppendIn, RouterAssumption
  <1>6. /\ pending' \in [Stars -> SUBSET Calls]
        /\ \A r \in Stars : pending'[r] \subseteq pending[r]
    BY <1>1, <1>2 DEF TypeOK
  <1>7. /\ calls' \in [Stars -> Seq(Calls)]
        /\ \A r \in Stars : Len(calls'[r]) <= CallCap
        /\ \A r \in Stars : \A x \in In(calls'[r]) : x \in CallsAt(r)
    BY <1>1, <1>2, <1>4, <1>5 DEF TypeOK, CallsAt
  <1>8. TypeOK'
    BY <1>1, <1>3, <1>6, <1>7 DEF TypeOK
  <1> QED
    BY <1>3, <1>6, <1>7, <1>8, Step DEF CallsAt

\* In a web with a hub no loop is dead.
LEMMA EnqueueFailsInv ==
    ASSUME IInv, NEW s \in Stars, EnqueueFails(s)
    PROVE  IInv'
  <1>1. TypeOK /\ Kept
    BY DEF IInv
  <1>2. /\ s \in dead /\ Drop(pending[s], s, "dead")
        /\ pending' = [pending EXCEPT ![s] = {}]
        /\ UNCHANGED <<scene, sent, calls, hand, out, dead, arrived>>
    BY DEF EnqueueFails
  <1>3. pending[s] \in SUBSET Calls /\ "dead" \in Reasons
    BY <1>1 DEF TypeOK, Reasons
  <1>4. dropped' \subseteq [call : Calls, at : Stars, why : Reasons]
    BY <1>1, <1>2, <1>3, DropKeeps
  <1>5. /\ pending' \in [Stars -> SUBSET Calls]
        /\ \A r \in Stars : pending'[r] \subseteq pending[r]
    BY <1>1, <1>2 DEF TypeOK
  <1>6. TypeOK'
    BY <1>1, <1>2, <1>4, <1>5 DEF TypeOK
  <1>7. \A h \in Stars : ~Hubbed(h)
    BY <1>1, <1>2 DEF Kept
  <1> QED
    BY <1>2, <1>5, <1>6, <1>7, Step DEF CallsAt

LEMMA OutTaken ==
    ASSUME TypeOK, NEW s \in Stars, out[s] # <<>>, out' = [out EXCEPT ![s] = Tail(@)]
    PROVE  /\ out' \in [Stars -> Seq(Calls)]
           /\ \A r \in Stars : Len(out'[r]) <= OutCap
           /\ \A r \in Stars : In(out'[r]) \subseteq In(out[r])
           /\ Head(out[s]) \in Calls /\ Head(out[s]) \in In(out[s])
  <1>1. out \in [Stars -> Seq(Calls)] /\ \A r \in Stars : Len(out[r]) <= OutCap
    BY DEF TypeOK
  <1>2. out[s] \in Seq(Calls) /\ Len(out[s]) <= OutCap
    BY <1>1
  <1>3. /\ Tail(out[s]) \in Seq(Calls) /\ Len(Tail(out[s])) <= Len(out[s])
        /\ In(Tail(out[s])) \subseteq In(out[s])
        /\ Head(out[s]) \in Calls /\ Head(out[s]) \in In(out[s])
    BY <1>2, TailIn
  <1>4. Len(Tail(out[s])) <= OutCap
    <2>1. Len(Tail(out[s])) \in Nat /\ Len(out[s]) \in Nat /\ OutCap \in Nat
      BY <1>2, <1>3, RouterAssumption
    <2> QED
      BY <2>1, <1>2, <1>3
  <1>5. out' = [out EXCEPT ![s] = Tail(out[s])]
    OBVIOUS
  <1> QED
    BY <1>1, <1>3, <1>4, <1>5

\* A transport comes from a star to the hub, or from the hub to its star.
LEMMA TravelInv ==
    ASSUME IInv, NEW s \in Stars, Travel(s)
    PROVE  IInv'
  <1> DEFINE c == Head(out[s])
             d == As("FromHyperway", c)
  <1>1. TypeOK
    BY DEF IInv
  <1>2. PICK t \in Towards(s, c.to) : pending' = [pending EXCEPT ![t] = @ \cup {d}]
    BY DEF Travel
  <1>3. /\ out[s] # <<>> /\ out' = [out EXCEPT ![s] = Tail(@)]
        /\ UNCHANGED <<scene, sent, calls, hand, dead, arrived, dropped>>
    BY DEF Travel
  <1>4. /\ out' \in [Stars -> Seq(Calls)]
        /\ \A r \in Stars : Len(out'[r]) <= OutCap
        /\ \A r \in Stars : In(out'[r]) \subseteq In(out[r])
        /\ c \in Calls /\ c \in In(out[s])
    BY <1>1, <1>3, OutTaken
  <1>5. /\ d \in Calls /\ d.op = "FromHyperway" /\ d.to = c.to /\ d.hops = c.hops
    BY <1>4, AsTyped DEF Ops
  <1>6. t \in Stars
    BY <1>1, <1>2, TowardsTyped
  <1>7. FitOut(s, c)
    BY <1>4 DEF IInv
  <1> HIDE DEF c, d
  <1>8. Fit(t, d)
    <2> SUFFICES ASSUME NEW h \in Stars, Hubbed(h)
                 PROVE  t \in Members /\ Comes(h, t, d)
      BY <1>5 DEF Fit
    <2>1. /\ s \in Members /\ c.to \in Members /\ c.to # s
          /\ c.hops = 0 \/ (s = h /\ c.hops = 1)
      BY <1>7 DEF FitOut, Leaves
    <2>2. h \in Members
      BY <1>1, <2>1, HubIsMember
    <2>3. CASE s = h
      <3>1. t = c.to
        BY <1>1, <1>2, <2>1, <2>3, HubLeads
      <3> QED
        BY <1>5, <2>1, <2>3, <3>1 DEF Comes
    <2>4. CASE s # h
      <3>1. t \in {h, c.to}
        BY <1>1, <1>2, <2>1, HubLeads
      <3> QED
        BY <1>5, <2>1, <2>2, <2>4, <3>1 DEF Comes
    <2> QED
      BY <2>3, <2>4
  <1>9. pending' \in [Stars -> SUBSET Calls]
        /\ \A r \in Stars : \A x \in pending'[r] : x \in pending[r] \/ (r = t /\ x = d)
    BY <1>1, <1>2, <1>5, <1>6 DEF TypeOK
  <1>10. TypeOK'
    BY <1>1, <1>3, <1>4, <1>9 DEF TypeOK
  <1> QED
    BY <1>3, <1>4, <1>8, <1>9, <1>10, Step DEF CallsAt

LEMMA LoseInv ==
    ASSUME IInv, NEW s \in Stars, Lose(s)
    PROVE  IInv'
  <1>1. TypeOK
    BY DEF IInv
  <1>2. /\ out[s] # <<>> /\ out' = [out EXCEPT ![s] = Tail(@)]
        /\ Drop({Head(out[s])}, s, "lost")
        /\ UNCHANGED <<scene, sent, pending, calls, hand, dead, arrived>>
    BY DEF Lose
  <1>3. /\ out' \in [Stars -> Seq(Calls)]
        /\ \A r \in Stars : Len(out'[r]) <= OutCap
        /\ \A r \in Stars : In(out'[r]) \subseteq In(out[r])
        /\ {Head(out[s])} \in SUBSET Calls
    BY <1>1, <1>2, OutTaken
  <1>4. /\ dropped' \subseteq [call : Calls, at : Stars, why : Reasons]
        /\ \A d \in dropped' : d \in dropped \/ d.why = "lost"
    BY <1>1, <1>2, <1>3, DropKeeps DEF Reasons
  <1>5. TypeOK'
    BY <1>1, <1>2, <1>3, <1>4 DEF TypeOK
  <1> QED
    BY <1>2, <1>3, <1>4, <1>5, Step DEF CallsAt

-----------------------------------------------------------------------------
(* What the loop does with the call that it takes.                         *)

\* It spawns a task that comes back with calls that fit.
LEMMA SpawnInv ==
    ASSUME IInv, NEW s \in Stars, calls[s] # <<>>, Took(s),
           NEW cs \in SUBSET Calls, Spawn(s, cs), \A c \in cs : Fit(s, c),
           UNCHANGED <<scene, sent, hand, out, dead, arrived, dropped>>
    PROVE  IInv'
  <1>1. TypeOK
    BY DEF IInv
  <1>2. /\ calls' \in [Stars -> Seq(Calls)]
        /\ \A r \in Stars : Len(calls'[r]) <= CallCap
        /\ \A r \in Stars : In(calls'[r]) \subseteq In(calls[r])
    BY <1>1, TookKeeps
  <1>3. /\ pending' \in [Stars -> SUBSET Calls]
        /\ \A r \in Stars : \A c \in pending'[r] : c \in pending[r] \/ (r = s /\ c \in cs)
    BY <1>1, SpawnKeeps
  <1>4. TypeOK'
    BY <1>1, <1>2, <1>3 DEF TypeOK
  <1> QED
    BY <1>2, <1>3, <1>4, Step DEF CallsAt

\* It has the wave injected here.
LEMMA ArriveInv ==
    ASSUME IInv, NEW s \in Stars, calls[s] # <<>>, Took(s),
           arrived' = arrived \cup {<<Top(s).wave, s>>},
           UNCHANGED <<scene, sent, pending, hand, out, dead, dropped>>
    PROVE  IInv'
  <1>1. TypeOK
    BY DEF IInv
  <1>2. /\ calls' \in [Stars -> Seq(Calls)]
        /\ \A r \in Stars : Len(calls'[r]) <= CallCap
        /\ \A r \in Stars : In(calls'[r]) \subseteq In(calls[r])
    BY <1>1, TookKeeps
  <1>3. arrived' \subseteq Waves \X Stars
    BY <1>1, TopTyped DEF TypeOK
  <1>4. TypeOK'
    BY <1>1, <1>2, <1>3 DEF TypeOK
  <1> QED
    BY <1>2, <1>4, Step DEF CallsAt

\* It awaits room for it in a channel.
LEMMA HandInv ==
    ASSUME IInv, NEW s \in Stars, calls[s] # <<>>, Took(s),
           NEW x \in Calls, hand' = [hand EXCEPT ![s] = x], FitHand(s, x),
           UNCHANGED <<scene, sent, pending, out, dead, arrived, dropped>>
    PROVE  IInv'
  <1>1. TypeOK
    BY DEF IInv
  <1>2. /\ calls' \in [Stars -> Seq(Calls)]
        /\ \A r \in Stars : Len(calls'[r]) <= CallCap
        /\ \A r \in Stars : In(calls'[r]) \subseteq In(calls[r])
    BY <1>1, TookKeeps
  <1>3. /\ hand' \in [Stars -> Calls \cup {Nothing}]
        /\ \A r \in Stars : hand'[r] = hand[r] \/ (r = s /\ hand'[r] = x)
    BY <1>1, HandKeeps
  <1>4. TypeOK'
    BY <1>1, <1>2, <1>3 DEF TypeOK
  <1>5. \A r \in Stars : hand'[r] # Nothing => hand'[r] = hand[r] \/ FitHand(r, hand'[r])
    BY <1>3
  <1> QED
    BY <1>2, <1>4, <1>5, Step DEF CallsAt

\* It gives it up.
LEMMA DropInv ==
    ASSUME IInv, NEW s \in Stars, calls[s] # <<>>, Took(s),
           NEW c \in Calls, NEW why \in Reasons, Drop({c}, s, why),
           why \in {"lost", "unlocated"} \/ \A h \in Stars : ~Hubbed(h),
           UNCHANGED <<scene, sent, pending, hand, out, dead, arrived>>
    PROVE  IInv'
  <1>1. TypeOK
    BY DEF IInv
  <1>2. /\ calls' \in [Stars -> Seq(Calls)]
        /\ \A r \in Stars : Len(calls'[r]) <= CallCap
        /\ \A r \in Stars : In(calls'[r]) \subseteq In(calls[r])
    BY <1>1, TookKeeps
  <1>3. /\ dropped' \subseteq [call : Calls, at : Stars, why : Reasons]
        /\ \A d \in dropped' : d \in dropped \/ d.why = why
    <2>1. {c} \in SUBSET Calls
      OBVIOUS
    <2> QED
      BY <1>1, <2>1, DropKeeps
  <1>4. TypeOK'
    BY <1>1, <1>2, <1>3 DEF TypeOK
  <1> QED
    BY <1>2, <1>3, <1>4, Step DEF CallsAt

\* It panics, where there is no hub.
LEMMA PanicInv ==
    ASSUME IInv, NEW s \in Stars, NEW c, Panics(s, c), calls' = [calls EXCEPT ![s] = <<>>],
           \A h \in Stars : ~Hubbed(h),
           UNCHANGED <<scene, sent, pending, out, arrived>>
    PROVE  IInv'
  <1>1. TypeOK
    BY DEF IInv
  <1>2. dead' = dead \cup {s} /\ Drop(In(calls[s]), s, "dead") /\ UNCHANGED hand
    BY DEF Panics
  <1>3. Len(<<>>) <= CallCap
    BY EmptyIn, RouterAssumption
  <1>4. /\ calls' \in [Stars -> Seq(Calls)]
        /\ \A r \in Stars : Len(calls'[r]) <= CallCap
        /\ \A r \in Stars : In(calls'[r]) \subseteq In(calls[r])
    <2>1. calls \in [Stars -> Seq(Calls)] /\ \A r \in Stars : Len(calls[r]) <= CallCap
      BY <1>1 DEF TypeOK
    <2> QED
      BY <1>3, <2>1, EmptyIn
  <1>5. dropped' \subseteq [call : Calls, at : Stars, why : Reasons]
    <2>1. calls[s] \in Seq(Calls) /\ "dead" \in Reasons
      BY <1>1 DEF TypeOK, Reasons
    <2>2. In(calls[s]) \in SUBSET Calls
      BY <2>1, InTyped
    <2> QED
      BY <1>1, <1>2, <2>1, <2>2, DropKeeps
  <1>6. TypeOK'
    BY <1>1, <1>2, <1>4, <1>5 DEF TypeOK
  <1> QED
    BY <1>2, <1>4, <1>6, Step DEF CallsAt

\* In a web with a hub there is one way for a transport that leaves a star.
LEMMA OneWay ==
    ASSUME TypeOK, NEW s \in Stars, NEW c \in Calls, NEW h \in Stars, Hubbed(h), Leaves(h, s, c)
    PROVE  Cardinality(Towards(s, c.to)) = 1 /\ Towards(s, c.to) # {}
  <1>1. s \in Members /\ c.to \in Members /\ c.to # s
    BY DEF Leaves
  <1>2. Cardinality(Towards(s, c.to)) = 1
    BY <1>1, HubLeads
  <1>3. Towards(s, c.to) # {}
    BY <1>1, HubLeads
  <1> QED
    BY <1>2, <1>3

LEMMA RouteInv ==
    ASSUME IInv, NEW s \in Stars, calls[s] # <<>>, Took(s), NEW c \in Calls,
           \A h \in Stars : Hubbed(h) => Leaves(h, s, c),
           Route(s, c), UNCHANGED <<scene, sent, pending, out, arrived>>
    PROVE  IInv'
  <1>1. TypeOK
    BY DEF IInv
  <1>2. CASE Hop(s, c)
    <2> DEFINE x == As("ToHyperway", c)
    <2>1. hand' = [hand EXCEPT ![s] = x] /\ UNCHANGED <<dead, dropped>>
      BY <1>2 DEF Hop
    <2>2. x \in Calls /\ x.op = "ToHyperway" /\ x.to = c.to /\ x.hops = c.hops
      BY AsTyped DEF Ops
    <2> HIDE DEF x
    <2>3. FitHand(s, x)
      BY <2>2 DEF FitHand, Leaves
    <2> QED
      BY <2>1, <2>2, <2>3, HandInv
  <1>3. CASE NoWay(s, c)
    <2>1. /\ Towards(s, c.to) = {} /\ Drop({c}, s, "no way")
          /\ UNCHANGED <<hand, dead>>
      BY <1>3 DEF NoWay
    <2>2. \A h \in Stars : ~Hubbed(h)
      BY <1>1, <2>1, OneWay
    <2>3. "no way" \in Reasons
      BY DEF Reasons
    <2> QED
      BY <2>1, <2>2, <2>3, DropInv
  <1> QED
    BY <1>2, <1>3 DEF Route

LEMMA RoutePanics ==
    ASSUME IInv, NEW s \in Stars, NEW c \in Calls,
           \A h \in Stars : Hubbed(h) => Leaves(h, s, c),
           Panics(s, c), calls' = [calls EXCEPT ![s] = <<>>],
           UNCHANGED <<scene, sent, pending, out, arrived>>
    PROVE  IInv'
  <1>1. TypeOK
    BY DEF IInv
  <1>2. Cardinality(Towards(s, c.to)) > 1
    BY DEF Panics
  <1>3. \A h \in Stars : ~Hubbed(h)
    BY <1>1, <1>2, OneWay
  <1> QED
    BY <1>3, PanicInv

-----------------------------------------------------------------------------
(* The loop's handlers.                                                    *)

LEMMA InjectOutwardInv ==
    ASSUME IInv, NEW s \in Stars, InjectOutward(s)
    PROVE  IInv'
  <1> DEFINE x == As("ToGravity", Top(s))
  <1>1. /\ calls[s] # <<>> /\ Took(s) /\ Spawn(s, {x}) /\ Top(s).op = "Inject"
        /\ UNCHANGED <<scene, sent, hand, out, dead, arrived, dropped>>
    BY DEF InjectOutward, Recv, Top
  <1>2. Top(s) \in Calls /\ Fit(s, Top(s))
    BY <1>1, TopTyped, TopFits DEF IInv
  <1>3. x \in Calls /\ x.op = "ToGravity"
    BY <1>2, AsTyped DEF Ops
  <1> HIDE DEF x
  <1>4. Fit(s, x)
    BY <1>2, <1>3 DEF Fit
  <1>5. {x} \in SUBSET Calls /\ \A c \in {x} : Fit(s, c)
    BY <1>3, <1>4
  <1> QED
    BY <1>1, <1>5, SpawnInv

LEMMA InjectInwardInv ==
    ASSUME IInv, NEW s \in Stars, InjectInward(s) \/ GlobalExec(s)
    PROVE  IInv'
  <1>1. /\ calls[s] # <<>> /\ Took(s) /\ arrived' = arrived \cup {<<Top(s).wave, s>>}
        /\ UNCHANGED <<scene, sent, pending, hand, out, dead, dropped>>
    BY DEF InjectInward, GlobalExec, Recv
  <1> QED
    BY <1>1, ArriveInv

LEMMA ToGravityInv ==
    ASSUME IInv, NEW s \in Stars, ToGravity(s)
    PROVE  IInv'
  <1>1. /\ calls[s] # <<>> /\ Took(s) /\ hand' = [hand EXCEPT ![s] = Top(s)]
        /\ Top(s).op = "ToGravity" /\ scene.to[Top(s).wave] # Global
        /\ UNCHANGED <<scene, sent, pending, out, dead, arrived, dropped>>
    BY DEF ToGravity, Recv, Top
  <1>2. Top(s) \in Calls /\ Fit(s, Top(s))
    BY <1>1, TopTyped, TopFits DEF IInv
  <1>3. FitHand(s, Top(s))
    BY <1>1, <1>2 DEF Fit, FitHand
  <1> QED
    BY <1>1, <1>2, <1>3, HandInv

LEMMA PushShardInv ==
    ASSUME IInv, NEW s \in Stars, PushShard(s)
    PROVE  IInv'
  <1> DEFINE x == As("Shard", hand[s])
  <1>1. /\ hand[s] # Nothing /\ hand[s].op = "ToGravity" /\ Len(calls[s]) < CallCap
        /\ calls' = [calls EXCEPT ![s] = Append(@, x)]
        /\ hand' = [hand EXCEPT ![s] = Nothing]
        /\ UNCHANGED <<scene, sent, pending, out, dead, arrived, dropped>>
    BY DEF PushShard
  <1>2. TypeOK /\ FitHand(s, hand[s])
    BY <1>1 DEF IInv
  <1>3. hand[s] \in Calls /\ calls[s] \in Seq(Calls)
    BY <1>1, <1>2 DEF TypeOK
  <1>4. x \in Calls /\ x.op = "Shard" /\ x.wave = hand[s].wave
    BY <1>3, AsTyped DEF Ops
  <1> HIDE DEF x
  <1>5. Fit(s, x)
    BY <1>1, <1>2, <1>4 DEF Fit, FitHand
  <1>6. /\ Append(calls[s], x) \in Seq(Calls)
        /\ Len(Append(calls[s], x)) <= CallCap
        /\ In(Append(calls[s], x)) = In(calls[s]) \cup {x}
    BY <1>1, <1>3, <1>4, AppendIn, RouterAssumption
  <1>7. /\ calls' \in [Stars -> Seq(Calls)]
        /\ \A r \in Stars : Len(calls'[r]) <= CallCap
        /\ \A r \in Stars : \A c \in In(calls'[r]) : c \in In(calls[r]) \/ Fit(r, c)
    BY <1>1, <1>2, <1>5, <1>6 DEF TypeOK
  <1>8. /\ hand' \in [Stars -> Calls \cup {Nothing}]
        /\ \A r \in Stars : hand'[r] = hand[r] \/ hand'[r] = Nothing
    BY <1>1, <1>2 DEF TypeOK
  <1>9. TypeOK'
    BY <1>1, <1>2, <1>7, <1>8 DEF TypeOK
  <1> QED
    BY <1>1, <1>7, <1>8, <1>9, Step DEF CallsAt

LEMMA ShardInv ==
    ASSUME IInv, NEW s \in Stars, Shard(s)
    PROVE  IInv'
  <1> DEFINE w == Top(s).wave
             cs == {ShardOf(s, w, t) : t \in Concerned(s, w)}
  <1>1. /\ calls[s] # <<>> /\ Took(s) /\ Spawn(s, cs) /\ Top(s).op = "Shard"
        /\ UNCHANGED <<scene, sent, hand, out, dead, arrived, dropped>>
    BY DEF Shard, Recv, Top
  <1>2. TypeOK /\ Top(s) \in Calls /\ w \in Waves /\ Fit(s, Top(s))
    BY <1>1, TopTyped, TopFits DEF IInv
  <1>3. scene.to[w] # Global
    BY <1>1, <1>2 DEF Fit
  <1> HIDE DEF w, cs
  <1>4. Concerned(s, w) \subseteq Stars
    BY <1>2, <1>3, SceneTyped DEF Concerned
  <1>5. ASSUME NEW t \in Concerned(s, w)
        PROVE  ShardOf(s, w, t) \in Calls /\ Fit(s, ShardOf(s, w, t))
    <2> DEFINE c == ShardOf(s, w, t)
    <2>1. c \in Calls
      BY <1>2, <1>4, <1>5, CallTyped DEF ShardOf, Ops
    <2>2. /\ c.op # "Shard" /\ c.op # "FromHyperway" /\ c.to = t /\ c.hops = 0
          /\ c.op = "ToHyperway" => t # s
      BY DEF ShardOf, Call
    <2> HIDE DEF c
    <2>3. ASSUME NEW h \in Stars, Hubbed(h)
          PROVE  s \in Members /\ t \in Members
      <3>1. s \in Members
        BY <1>2, <2>3 DEF Fit
      <3>2. h \in Members
        BY <1>2, <2>3, <3>1, HubIsMember
      <3>3. CASE scene.to[w] = Everyone
        <4>1. t \in scene.adjacents[s]
          BY <1>5, <3>3 DEF Concerned
        <4> QED
          BY <2>3, <3>1, <3>2, <4>1 DEF Hubbed, HubWeb
      <3>4. CASE scene.to[w] # Everyone
        <4>1. t = scene.to[w]
          BY <1>5, <3>4 DEF Concerned
        <4> QED
          BY <1>2, <1>3, <2>3, <3>1, <3>4, <4>1 DEF Hubbed, Local
      <3> QED
        BY <3>3, <3>4
    <2>4. Fit(s, c)
      BY <2>2, <2>3 DEF Fit, Leaves
    <2> QED
      BY <2>1, <2>4 DEF c
  <1>6. cs \in SUBSET Calls /\ \A c \in cs : Fit(s, c)
    BY <1>5 DEF cs
  <1> QED
    BY <1>1, <1>6, SpawnInv

LEMMA LocateFailsInv ==
    ASSUME IInv, NEW s \in Stars, LocateFails(s)
    PROVE  IInv'
  <1>1. /\ calls[s] # <<>> /\ Took(s) /\ Drop({Top(s)}, s, "unlocated")
        /\ UNCHANGED <<scene, sent, pending, hand, out, dead, arrived>>
    BY DEF LocateFails, Recv
  <1>2. Top(s) \in Calls /\ "unlocated" \in Reasons
    BY <1>1, TopTyped DEF IInv, Reasons
  <1> QED
    BY <1>1, <1>2, DropInv

LEMMA ToDriverInv ==
    ASSUME IInv, NEW s \in Stars, ToDriver(s)
    PROVE  IInv'
  <1> DEFINE x == As("Inject", Top(s))
  <1>1. /\ calls[s] # <<>> /\ Took(s) /\ Spawn(s, {x})
        /\ UNCHANGED <<scene, sent, hand, out, dead, arrived, dropped>>
    BY DEF ToDriver, Recv
  <1>2. Top(s) \in Calls /\ Fit(s, Top(s))
    BY <1>1, TopTyped, TopFits DEF IInv
  <1>3. x \in Calls /\ x.op = "Inject"
    BY <1>2, AsTyped DEF Ops
  <1> HIDE DEF x
  <1>4. Fit(s, x)
    BY <1>2, <1>3 DEF Fit
  <1>5. {x} \in SUBSET Calls /\ \A c \in {x} : Fit(s, c)
    BY <1>3, <1>4
  <1> QED
    BY <1>1, <1>5, SpawnInv

LEMMA ToHyperwayInv ==
    ASSUME IInv, NEW s \in Stars, ToHyperway(s) \/ ToHyperwayPanics(s)
    PROVE  IInv'
  <1>1. calls[s] # <<>> /\ Top(s).op = "ToHyperway"
    BY DEF ToHyperway, ToHyperwayPanics, Recv, Top
  <1>2. Top(s) \in Calls /\ Fit(s, Top(s))
    BY <1>1, TopTyped, TopFits DEF IInv
  <1>3. \A h \in Stars : Hubbed(h) => Leaves(h, s, Top(s))
    BY <1>1, <1>2 DEF Fit
  <1>4. CASE ToHyperway(s)
    <2>1. /\ Took(s) /\ Route(s, Top(s))
          /\ UNCHANGED <<scene, sent, pending, out, arrived>>
      BY <1>4 DEF ToHyperway
    <2> QED
      BY <1>1, <1>2, <1>3, <2>1, RouteInv
  <1>5. CASE ToHyperwayPanics(s)
    <2>1. /\ Panics(s, Top(s)) /\ calls' = [calls EXCEPT ![s] = <<>>]
          /\ UNCHANGED <<scene, sent, pending, out, arrived>>
      BY <1>5 DEF ToHyperwayPanics
    <2> QED
      BY <1>2, <1>3, <2>1, RoutePanics
  <1> QED
    BY <1>4, <1>5

\* In a web with a hub a transport has taken at most one hop when it comes, so that it has not
\* come too far; and it comes home or to the hub, from where it goes on with its first.
LEMMA ComesFits ==
    ASSUME IInv, NEW s \in Stars, calls[s] # <<>>, Top(s).op = "FromHyperway",
           NEW h \in Stars, Hubbed(h)
    PROVE  /\ ~TooFar(Top(s))
           /\ Top(s).to # s => Leaves(h, s, Counted(Top(s)))
  <1> DEFINE c == Top(s)
  <1>1. c \in Calls /\ Fit(s, c) /\ c.op = "FromHyperway"
    BY TopTyped, TopFits DEF IInv
  <1> HIDE DEF c
  <1>2. /\ s \in Members /\ c.to \in Members
        /\ c.hops = 0 \/ (s # h /\ c.hops = 1)
        /\ s # h => c.to = s
    BY <1>1 DEF Fit, Comes
  <1>3. ~TooFar(c)
    <2>1. Counted(c).hops = c.hops + 1
      BY <1>1 DEF Counted, Calls
    <2>2. c.hops + 1 <= 2
      BY <1>2
    <2> QED
      BY <2>1, <2>2, <1>1, RouterAssumption DEF TooFar, Calls
  <1>4. c.to # s => Leaves(h, s, Counted(c))
    <2>1. Counted(c).to = c.to /\ Counted(c).hops = c.hops + 1
      BY <1>1, <1>3, CountedTyped
    <2> QED
      BY <1>2, <2>1 DEF Leaves
  <1> QED
    BY <1>3, <1>4 DEF c

LEMMA FromHyperwayExceededInv ==
    ASSUME IInv, NEW s \in Stars, FromHyperwayExceeded(s)
    PROVE  IInv'
  <1>1. /\ calls[s] # <<>> /\ Took(s) /\ Top(s).op = "FromHyperway" /\ TooFar(Top(s))
        /\ Drop({Top(s)}, s, "hops")
        /\ UNCHANGED <<scene, sent, pending, hand, out, dead, arrived>>
    BY DEF FromHyperwayExceeded, Recv, Top
  <1>2. Top(s) \in Calls /\ "hops" \in Reasons
    BY <1>1, TopTyped DEF IInv, Reasons
  <1>3. \A h \in Stars : ~Hubbed(h)
    BY <1>1, ComesFits
  <1> QED
    BY <1>1, <1>2, <1>3, DropInv

LEMMA FromHyperwayHomeInv ==
    ASSUME IInv, NEW s \in Stars, FromHyperwayHome(s)
    PROVE  IInv'
  <1> DEFINE x == As("ToDriver", Counted(Top(s)))
  <1>1. /\ calls[s] # <<>> /\ Took(s) /\ ~TooFar(Top(s)) /\ Spawn(s, {x})
        /\ UNCHANGED <<scene, sent, hand, out, dead, arrived, dropped>>
    BY DEF FromHyperwayHome, Recv
  <1>2. Top(s) \in Calls /\ Fit(s, Top(s))
    BY <1>1, TopTyped, TopFits DEF IInv
  <1>3. x \in Calls /\ x.op = "ToDriver"
    <2>1. Counted(Top(s)) \in Calls
      BY <1>1, <1>2, CountedTyped
    <2> QED
      BY <2>1, AsTyped DEF Ops
  <1> HIDE DEF x
  <1>4. Fit(s, x)
    BY <1>2, <1>3 DEF Fit
  <1>5. {x} \in SUBSET Calls /\ \A c \in {x} : Fit(s, c)
    BY <1>3, <1>4
  <1> QED
    BY <1>1, <1>5, SpawnInv

LEMMA ForwardInv ==
    ASSUME IInv, NEW s \in Stars, Forward(s) \/ ForwardPanics(s)
    PROVE  IInv'
  <1>1. /\ calls[s] # <<>> /\ Top(s).op = "FromHyperway" /\ ~TooFar(Top(s)) /\ Top(s).to # s
    BY DEF Forward, ForwardPanics, Recv, Top
  <1>2. Top(s) \in Calls
    BY <1>1, TopTyped DEF IInv
  <1>3. Counted(Top(s)) \in Calls
    BY <1>1, <1>2, CountedTyped
  <1>4. \A h \in Stars : Hubbed(h) => Leaves(h, s, Counted(Top(s)))
    BY <1>1, ComesFits
  <1>5. CASE Forward(s)
    <2>1. /\ Took(s) /\ Route(s, Counted(Top(s)))
          /\ UNCHANGED <<scene, sent, pending, out, arrived>>
      BY <1>5 DEF Forward
    <2> QED
      BY <1>1, <1>3, <1>4, <2>1, RouteInv
  <1>6. CASE ForwardPanics(s)
    <2>1. /\ Panics(s, Counted(Top(s))) /\ calls' = [calls EXCEPT ![s] = <<>>]
          /\ UNCHANGED <<scene, sent, pending, out, arrived>>
      BY <1>6 DEF ForwardPanics
    <2> QED
      BY <1>3, <1>4, <2>1, RoutePanics
  <1> QED
    BY <1>5, <1>6

LEMMA PushHopInv ==
    ASSUME IInv, NEW s \in Stars, PushHop(s)
    PROVE  IInv'
  <1> DEFINE c == hand[s]
  <1>1. /\ c # Nothing /\ c.op = "ToHyperway" /\ Len(out[s]) < OutCap
        /\ out' = [out EXCEPT ![s] = Append(@, c)]
        /\ hand' = [hand EXCEPT ![s] = Nothing]
        /\ UNCHANGED <<scene, sent, pending, calls, dead, arrived, dropped>>
    BY DEF PushHop
  <1>2. TypeOK /\ FitHand(s, c)
    BY <1>1 DEF IInv
  <1>3. c \in Calls /\ out[s] \in Seq(Calls)
    BY <1>1, <1>2 DEF TypeOK
  <1> HIDE DEF c
  <1>4. FitOut(s, c)
    BY <1>1, <1>2 DEF FitOut, FitHand
  <1>5. /\ Append(out[s], c) \in Seq(Calls)
        /\ Len(Append(out[s], c)) <= OutCap
        /\ In(Append(out[s], c)) = In(out[s]) \cup {c}
    BY <1>1, <1>3, AppendIn, RouterAssumption
  <1>6. /\ out' \in [Stars -> Seq(Calls)]
        /\ \A r \in Stars : Len(out'[r]) <= OutCap
        /\ \A r \in Stars : \A x \in In(out'[r]) : x \in In(out[r]) \/ FitOut(r, x)
    BY <1>1, <1>2, <1>4, <1>5 DEF TypeOK
  <1>7. /\ hand' \in [Stars -> Calls \cup {Nothing}]
        /\ \A r \in Stars : hand'[r] = hand[r] \/ hand'[r] = Nothing
    BY <1>1, <1>2 DEF TypeOK
  <1>8. TypeOK'
    BY <1>1, <1>2, <1>6, <1>7 DEF TypeOK
  <1> QED
    BY <1>1, <1>6, <1>7, <1>8, Step DEF CallsAt

-----------------------------------------------------------------------------
(* The theorems.                                                           *)

LEMMA StutterInv ==
    ASSUME IInv, UNCHANGED vars
    PROVE  IInv'
  <1>1. TypeOK'
    BY DEF IInv, TypeOK, vars
  <1> QED
    BY <1>1, Step DEF vars, CallsAt

LEMMA InvNext == IInv /\ [Next]_vars => IInv'
  <1> SUFFICES ASSUME IInv, [Next]_vars PROVE IInv'
    OBVIOUS
  <1>1. ASSUME NEW w \in Waves, Send(w) PROVE IInv'
    BY <1>1, SendInv
  <1>2. ASSUME NEW s \in Stars, Enqueue(s) PROVE IInv'
    BY <1>2, EnqueueInv
  <1>3. ASSUME NEW s \in Stars, EnqueueFails(s) PROVE IInv'
    BY <1>3, EnqueueFailsInv
  <1>4. ASSUME NEW s \in Stars, Travel(s) PROVE IInv'
    BY <1>4, TravelInv
  <1>5. ASSUME NEW s \in Stars, Lose(s) PROVE IInv'
    BY <1>5, LoseInv
  <1>6. ASSUME NEW s \in Stars, Loop(s) PROVE IInv'
    <2>1. CASE InjectOutward(s)
      BY <2>1, InjectOutwardInv
    <2>2. CASE InjectInward(s) \/ GlobalExec(s)
      BY <2>2, InjectInwardInv
    <2>3. CASE ToGravity(s)
      BY <2>3, ToGravityInv
    <2>4. CASE PushShard(s)
      BY <2>4, PushShardInv
    <2>5. CASE Shard(s)
      BY <2>5, ShardInv
    <2>6. CASE LocateFails(s)
      BY <2>6, LocateFailsInv
    <2>7. CASE ToDriver(s)
      BY <2>7, ToDriverInv
    <2>8. CASE ToHyperway(s) \/ ToHyperwayPanics(s)
      BY <2>8, ToHyperwayInv
    <2>9. CASE FromHyperwayExceeded(s)
      BY <2>9, FromHyperwayExceededInv
    <2>10. CASE FromHyperwayHome(s)
      BY <2>10, FromHyperwayHomeInv
    <2>11. CASE Forward(s) \/ ForwardPanics(s)
      BY <2>11, ForwardInv
    <2>12. CASE PushHop(s)
      BY <2>12, PushHopInv
    <2> QED
      BY <1>6, <2>1, <2>2, <2>3, <2>4, <2>5, <2>6, <2>7, <2>8, <2>9, <2>10, <2>11, <2>12
         DEF Loop
  <1>7. CASE UNCHANGED vars
    BY <1>7, StutterInv
  <1> QED
    BY <1>1, <1>2, <1>3, <1>4, <1>5, <1>6, <1>7 DEF Next

\* The invariant holds in all reachable states.
THEOREM Invariant == Spec => []IInv
  <1> QED
    BY InvInit, InvNext, PTL DEF Spec

\* Channels stay within their capacities, and no transport has more hops than it may.
THEOREM TypeCorrect == Spec => []TypeOK
  <1>1. IInv => TypeOK
    BY DEF IInv
  <1> QED
    BY <1>1, Invariant, PTL

\* The default template's web, with the machine's own star in it, has the nexus for a hub: with
\* any number of stars, and whichever of them forward beside the nexus.
THEOREM DefaultWebHasHub ==
    ASSUME NEW members \in SUBSET Stars, NEW nexus \in members, NEW machine \in members,
           nexus # machine, scene.adjacents = DefaultWeb(members, nexus, machine),
           nexus \in scene.forwarders, machine \notin scene.forwarders
    PROVE  HubWeb(nexus)
  <1>1. ASSUME NEW s \in Stars
        PROVE  /\ s \in {nexus, machine} => scene.adjacents[s] = members \ {s}
               /\ s \in members \ {nexus, machine} => scene.adjacents[s] = {nexus, machine}
               /\ s \notin members => scene.adjacents[s] = {}
    BY DEF DefaultWeb
  <1>2. Members = members
    <2>1. machine \in members \ {nexus} /\ nexus \in members \ {machine}
      OBVIOUS
    <2> QED
      BY <1>1, <2>1 DEF Members
  <1>3. ASSUME NEW s \in members \ {nexus, machine}
        PROVE  Forwarders(s) = {nexus}
    BY <1>1 DEF Forwarders
  <1> QED
    BY <1>1, <1>2, <1>3 DEF HubWeb

\* A web with a hub gives up no transport of its own, and none of its loops panics, for any
\* number of stars and waves.
THEOREM HubNeverGivesUp == Spec => []HubDelivers
  <1>1. IInv => HubDelivers
    BY DEF IInv, Kept, HubDelivers, Hubbed
  <1> QED
    BY <1>1, Invariant, PTL
-----------------------------------------------------------------------------
(* Every wave is somewhere, and only there.  A step takes a call from one  *)
(* of six kinds of places and puts it, or what it becomes, into one of     *)
(* another kind; only the call that is sharded becomes several, one for    *)
(* each star the wave concerns.                                            *)

Kinds == {"task", "calls", "out", "hand", "arrived", "dropped"}

\* Where a call about wave w, for star t, is in a channel.
Spots(q, w, t) == {i \in DOMAIN q : Same(q[i], w, t)}

\* The places of one kind, on one star, where such a call is.
Where(s, k, w, t) ==
    CASE k = "task" -> {c \in pending[s] : Same(c, w, t)}
      [] k = "calls" -> Spots(calls[s], w, t)
      [] k = "out" -> Spots(out[s], w, t)
      [] k = "hand" -> {c \in {hand[s]} \ {Nothing} : Same(c, w, t)}
      [] k = "arrived" -> arrived \cap {<<w, t>>} \cap {<<w, s>>}
      [] k = "dropped" -> {d \in dropped : d.at = s /\ Same(d.call, w, t)}

One(X) == \E e : X = {e}

\* There is one in one place, and none elsewhere.
Once(w, t) ==
    \E s \in Stars, k \in Kinds :
        /\ One(Where(s, k, w, t))
        /\ \A r \in Stars, l \in Kinds : r # s \/ l # k => Where(r, l, w, t) = {}

\* What is known of a call: it is about a wave that was sent; it is for no star yet while it
\* is with the star the wave comes from, and only up to where it is sharded; and it is for
\* this star when it goes to a driver or is injected.
Holds(s, c) ==
    /\ c.wave \in sent
    /\ c.op \in {"ToGravity", "Shard"} => c.to = Nothing
    /\ c.to = Nothing => c.op \in {"Inject", "ToGravity", "Shard"} /\ s = scene.from[c.wave]
    /\ c.op \in {"Inject", "ToDriver"} /\ c.to # Nothing => c.to = s

HoldsHand(s, c) ==
    /\ c.wave \in sent
    /\ c.op = "ToGravity" => c.to = Nothing /\ s = scene.from[c.wave]
    /\ c.op = "ToHyperway" => c.to # Nothing
    /\ c.op \in {"ToGravity", "ToHyperway"}

Known ==
    /\ \A s \in Stars : \A c \in CallsAt(s) : Holds(s, c)
    /\ \A s \in Stars : hand[s] # Nothing => HoldsHand(s, hand[s])
    /\ \A s \in Stars : \A c \in In(out[s]) : c.wave \in sent /\ c.to # Nothing
    /\ \A p \in arrived : p[1] \in sent
    /\ \A d \in dropped : d.call.wave \in sent

Traced == \A w \in sent : \A t \in Goals(w) : Once(w, t)

\* One place of one kind on one star, and none elsewhere: that is one place in all.
LEMMA OnceMeans ==
    ASSUME NEW w, NEW t, Once(w, t)
    PROVE  Cardinality(Places(w, t)) = 1
  <1>1. Places(w, t) = UNION {UNION {{<<s, k, x>> : x \in Where(s, k, w, t)} : k \in Kinds} : s \in Stars}
    <2>1. ASSUME NEW s \in Stars
          PROVE  UNION {{<<s, k, x>> : x \in Where(s, k, w, t)} : k \in Kinds}
                   = {<<s, "task", c>> : c \in {x \in pending[s] : Same(x, w, t)}}
                     \cup {<<s, "calls", i>> : i \in {j \in DOMAIN calls[s] : Same(calls[s][j], w, t)}}
                     \cup {<<s, "out", i>> : i \in {j \in DOMAIN out[s] : Same(out[s][j], w, t)}}
                     \cup {<<s, "hand", x>> : x \in {c \in {hand[s]} \ {Nothing} : Same(c, w, t)}}
                     \cup {<<s, "arrived", x>> : x \in arrived \cap {<<w, t>>} \cap {<<w, s>>}}
                     \cup {<<s, "dropped", d>> : d \in {x \in dropped : x.at = s /\ Same(x.call, w, t)}}
      <3>1. /\ Where(s, "task", w, t) = {x \in pending[s] : Same(x, w, t)}
            /\ Where(s, "calls", w, t) = {j \in DOMAIN calls[s] : Same(calls[s][j], w, t)}
            /\ Where(s, "out", w, t) = {j \in DOMAIN out[s] : Same(out[s][j], w, t)}
            /\ Where(s, "hand", w, t) = {c \in {hand[s]} \ {Nothing} : Same(c, w, t)}
            /\ Where(s, "arrived", w, t) = arrived \cap {<<w, t>>} \cap {<<w, s>>}
            /\ Where(s, "dropped", w, t) = {x \in dropped : x.at = s /\ Same(x.call, w, t)}
        BY DEF Where, Spots
      <3>2. UNION {{<<s, k, x>> : x \in Where(s, k, w, t)} : k \in Kinds}
              = {<<s, "task", x>> : x \in Where(s, "task", w, t)}
                \cup {<<s, "calls", x>> : x \in Where(s, "calls", w, t)}
                \cup {<<s, "out", x>> : x \in Where(s, "out", w, t)}
                \cup {<<s, "hand", x>> : x \in Where(s, "hand", w, t)}
                \cup {<<s, "arrived", x>> : x \in Where(s, "arrived", w, t)}
                \cup {<<s, "dropped", x>> : x \in Where(s, "dropped", w, t)}
        BY DEF Kinds
      <3> QED
        BY <3>1, <3>2
    <2> QED
      BY <2>1 DEF Places
  <1>2. PICK s \in Stars, k \in Kinds :
          /\ One(Where(s, k, w, t))
          /\ \A r \in Stars, l \in Kinds : r # s \/ l # k => Where(r, l, w, t) = {}
    BY DEF Once
  <1>3. PICK e : Where(s, k, w, t) = {e}
    BY <1>2 DEF One
  <1>4. Places(w, t) = {<<s, k, e>>}
    BY <1>1, <1>2, <1>3
  <1> QED
    BY <1>4, FS_Singleton

\* What a step does at the place A that it takes a call from, where it may be one that is
\* looked for, and at the place B that it puts it.
Taken(A, A2, hit) ==
    IF hit THEN A # {} /\ (One(A) => A2 = {}) ELSE (A = {} => A2 = {}) /\ (One(A) => One(A2))
Put(B, B2, hit) == IF hit THEN B = {} => One(B2) ELSE B2 = B

\* Taken from one place and put into another a call is still in one place.
LEMMA Moved ==
    ASSUME NEW w, NEW t, Once(w, t), NEW s \in Stars, NEW k \in Kinds, NEW r \in Stars, NEW l \in Kinds,
           k # l, NEW c,
           Taken(Where(s, k, w, t), Where(s, k, w, t)', Same(c, w, t)),
           Put(Where(r, l, w, t), Where(r, l, w, t)', Same(c, w, t)),
           \A q \in Stars, m \in Kinds :
              (q # s \/ m # k) /\ (q # r \/ m # l) => Where(q, m, w, t)' = Where(q, m, w, t)
    PROVE  Once(w, t)'
  <1>1. PICK u \in Stars, n \in Kinds :
          /\ One(Where(u, n, w, t))
          /\ \A q \in Stars, m \in Kinds : q # u \/ m # n => Where(q, m, w, t) = {}
    BY DEF Once
  <1>2. \A X : One(X) => X # {}
    BY DEF One
  <1>3. CASE Same(c, w, t)
    <2>1. u = s /\ n = k
      BY <1>1, <1>3 DEF Taken
    <2>2. Where(s, k, w, t)' = {} /\ One(Where(r, l, w, t)')
      BY <1>1, <1>3, <2>1 DEF Taken, Put
    <2>3. \A q \in Stars, m \in Kinds : q # r \/ m # l => Where(q, m, w, t)' = {}
      BY <1>1, <2>1, <2>2
    <2> QED
      BY <2>2, <2>3 DEF Once
  <1>4. CASE ~Same(c, w, t)
    <2>1. /\ Where(s, k, w, t) = {} => Where(s, k, w, t)' = {}
          /\ One(Where(s, k, w, t)) => One(Where(s, k, w, t)')
          /\ Where(r, l, w, t)' = Where(r, l, w, t)
      BY <1>4 DEF Taken, Put
    <2>2. One(Where(u, n, w, t)')
      BY <1>1, <2>1
    <2>3. \A q \in Stars, m \in Kinds : q # u \/ m # n => Where(q, m, w, t)' = {}
      BY <1>1, <2>1
    <2> QED
      BY <2>2, <2>3 DEF Once
  <1> QED
    BY <1>3, <1>4

\* The same of a step that takes all there is.
LEMMA AllMoved ==
    ASSUME NEW w, NEW t, Once(w, t), NEW s \in Stars, NEW k \in Kinds, NEW l \in Kinds, k # l,
           Where(s, k, w, t)' = {},
           Where(s, k, w, t) = {} => Where(s, l, w, t)' = Where(s, l, w, t),
           One(Where(s, k, w, t)) /\ Where(s, l, w, t) = {} => One(Where(s, l, w, t)'),
           \A q \in Stars, m \in Kinds :
              q # s \/ (m # k /\ m # l) => Where(q, m, w, t)' = Where(q, m, w, t)
    PROVE  Once(w, t)'
  <1>1. PICK u \in Stars, n \in Kinds :
          /\ One(Where(u, n, w, t))
          /\ \A q \in Stars, m \in Kinds : q # u \/ m # n => Where(q, m, w, t) = {}
    BY DEF Once
  <1>2. CASE u = s /\ n = k
    <2>1. One(Where(s, l, w, t)')
      BY <1>1, <1>2
    <2>2. \A q \in Stars, m \in Kinds : q # s \/ m # l => Where(q, m, w, t)' = {}
      BY <1>1, <1>2
    <2> QED
      BY <2>1, <2>2 DEF Once
  <1>3. CASE u # s \/ n # k
    <2>1. \A q \in Stars, m \in Kinds : q # s \/ m # k => Where(q, m, w, t)' = Where(q, m, w, t)
      BY <1>1, <1>3
    <2>2. One(Where(u, n, w, t)')
      BY <1>1, <1>3, <2>1
    <2>3. \A q \in Stars, m \in Kinds : q # u \/ m # n => Where(q, m, w, t)' = {}
      BY <1>1, <1>3, <2>1
    <2> QED
      BY <2>2, <2>3 DEF Once
  <1> QED
    BY <1>2, <1>3

\* Taking the first call of a channel, and adding one.
LEMMA SpotsTaken ==
    ASSUME NEW q \in Seq(Calls), q # <<>>, NEW w, NEW t
    PROVE  Taken(Spots(q, w, t), Spots(Tail(q), w, t), Same(Head(q), w, t))
  <1>1. /\ Len(q) \in Nat /\ Len(q) >= 1 /\ DOMAIN q = 1..Len(q)
        /\ DOMAIN Tail(q) = 1..(Len(q) - 1) /\ Head(q) = q[1]
        /\ \A i \in 1..(Len(q) - 1) : Tail(q)[i] = q[i + 1]
    OBVIOUS
  <1>2. \A i : i \in Spots(q, w, t) <=> i \in 1..Len(q) /\ Same(q[i], w, t)
    BY <1>1 DEF Spots
  <1>3. \A i : i \in Spots(Tail(q), w, t) <=> i \in 1..(Len(q) - 1) /\ Same(q[i + 1], w, t)
    BY <1>1 DEF Spots
  <1>4. \A i \in Spots(Tail(q), w, t) : i + 1 \in Spots(q, w, t) /\ i + 1 # 1 /\ i \in Nat
    BY <1>1, <1>2, <1>3
  <1>5. CASE Same(Head(q), w, t)
    <2>1. 1 \in Spots(q, w, t)
      BY <1>1, <1>2, <1>5
    <2>2. One(Spots(q, w, t)) => Spots(Tail(q), w, t) = {}
      BY <1>4, <2>1 DEF One
    <2> QED
      BY <1>5, <2>1, <2>2 DEF Taken
  <1>6. CASE ~Same(Head(q), w, t)
    <2>1. \A i \in Spots(q, w, t) : i - 1 \in Spots(Tail(q), w, t) /\ i \in Nat
      <3> SUFFICES ASSUME NEW i \in Spots(q, w, t) PROVE i - 1 \in Spots(Tail(q), w, t) /\ i \in Nat
        OBVIOUS
      <3>1. i \in 1..Len(q) /\ i # 1 /\ Same(q[i], w, t)
        BY <1>1, <1>2, <1>6
      <3>2. i - 1 \in 1..(Len(q) - 1) /\ (i - 1) + 1 = i
        BY <1>1, <3>1
      <3> QED
        BY <1>3, <3>1, <3>2
    <2>2. Spots(q, w, t) = {} => Spots(Tail(q), w, t) = {}
      BY <1>4
    <2>3. ASSUME One(Spots(q, w, t)) PROVE One(Spots(Tail(q), w, t))
      <3>1. PICK e : Spots(q, w, t) = {e}
        BY <2>3 DEF One
      <3>2. e \in Nat /\ e - 1 \in Spots(Tail(q), w, t)
        BY <2>1, <3>1
      <3>3. \A i \in Spots(Tail(q), w, t) : i + 1 = e /\ i \in Nat
        BY <1>4, <3>1
      <3>4. \A i \in Spots(Tail(q), w, t) : i = e - 1
        BY <3>2, <3>3
      <3>5. Spots(Tail(q), w, t) = {e - 1}
        BY <3>2, <3>4
      <3> QED
        BY <3>5 DEF One
    <2> QED
      BY <1>6, <2>2, <2>3 DEF Taken
  <1> QED
    BY <1>5, <1>6

\* What is appended to a channel is in a new place of it.
LEMMA SpotsPut ==
    ASSUME NEW q \in Seq(Calls), NEW c \in Calls, NEW w, NEW t
    PROVE  Put(Spots(q, w, t), Spots(Append(q, c), w, t), Same(c, w, t))
  <1>1. /\ Len(q) \in Nat /\ DOMAIN q = 1..Len(q)
        /\ DOMAIN Append(q, c) = 1..(Len(q) + 1) /\ Append(q, c)[Len(q) + 1] = c
        /\ \A i \in 1..Len(q) : Append(q, c)[i] = q[i]
    OBVIOUS
  <1>2. \A i : i \in Spots(q, w, t) <=> i \in 1..Len(q) /\ Same(q[i], w, t)
    BY <1>1 DEF Spots
  <1>3. \A i : i \in 1..(Len(q) + 1) <=> i \in 1..Len(q) \/ i = Len(q) + 1
    BY <1>1
  <1>4. Len(q) + 1 \notin 1..Len(q)
    BY <1>1
  <1>5. \A i : i \in Spots(Append(q, c), w, t)
                 <=> i \in Spots(q, w, t) \/ (i = Len(q) + 1 /\ Same(c, w, t))
    BY <1>1, <1>2, <1>3, <1>4 DEF Spots
  <1>6. CASE Same(c, w, t)
    <2>1. Spots(q, w, t) = {} => Spots(Append(q, c), w, t) = {Len(q) + 1}
      BY <1>5, <1>6
    <2> QED
      BY <1>6, <2>1 DEF Put, One
  <1>7. CASE ~Same(c, w, t)
    <2>1. Spots(Append(q, c), w, t) = Spots(q, w, t)
      BY <1>5, <1>7
    <2> QED
      BY <1>7, <2>1 DEF Put
  <1> QED
    BY <1>6, <1>7

\* A part of the state that a step leaves alone.
LEMMA Unmoved ==
    ASSUME NEW s, NEW w, NEW t
    PROVE  /\ pending'[s] = pending[s] => Where(s, "task", w, t)' = Where(s, "task", w, t)
           /\ calls'[s] = calls[s] => Where(s, "calls", w, t)' = Where(s, "calls", w, t)
           /\ out'[s] = out[s] => Where(s, "out", w, t)' = Where(s, "out", w, t)
           /\ hand'[s] = hand[s] => Where(s, "hand", w, t)' = Where(s, "hand", w, t)
           /\ arrived' = arrived => Where(s, "arrived", w, t)' = Where(s, "arrived", w, t)
           /\ dropped' = dropped => Where(s, "dropped", w, t)' = Where(s, "dropped", w, t)
  BY DEF Where, Spots

-----------------------------------------------------------------------------
(* The pieces of an action, by the calls of one wave for one star.         *)

\* The loop takes the oldest call of its channel.
LEMMA TookMoves ==
    ASSUME TypeOK, NEW s \in Stars, calls[s] # <<>>, Took(s), NEW w, NEW t
    PROVE  /\ Taken(Where(s, "calls", w, t), Where(s, "calls", w, t)', Same(Top(s), w, t))
           /\ \A q \in Stars : q # s => calls'[q] = calls[q]
  <1>1. calls \in [Stars -> Seq(Calls)]
    BY DEF TypeOK
  <1>2. calls'[s] = Tail(calls[s]) /\ \A q \in Stars : q # s => calls'[q] = calls[q]
    BY <1>1 DEF Took
  <1>3. Taken(Spots(calls[s], w, t), Spots(Tail(calls[s]), w, t), Same(Top(s), w, t))
    BY <1>1, SpotsTaken DEF Top
  <1>4. Where(s, "calls", w, t) = Spots(calls[s], w, t)
        /\ Where(s, "calls", w, t)' = Spots(Tail(calls[s]), w, t)
    BY <1>2 DEF Where, Spots
  <1> QED
    BY <1>2, <1>3, <1>4

\* What cs has for w and t, if c is about them: one call, otherwise none.
Splits(c, cs, w, t) ==
    IF Same(c, w, t) THEN \E d \in cs : \A e \in cs : Same(e, w, t) <=> e = d
    ELSE \A e \in cs : ~Same(e, w, t)

\* New tasks hold the calls they are spawned with.
LEMMA SpawnMoves ==
    ASSUME TypeOK, NEW s \in Stars, NEW cs, pending' = [pending EXCEPT ![s] = @ \cup cs],
           NEW c, NEW w, NEW t, Splits(c, cs, w, t)
    PROVE  /\ Put(Where(s, "task", w, t), Where(s, "task", w, t)', Same(c, w, t))
           /\ \A q \in Stars : q # s => pending'[q] = pending[q]
  <1>1. pending'[s] = pending[s] \cup cs /\ \A q \in Stars : q # s => pending'[q] = pending[q]
    BY DEF TypeOK
  <1>2. /\ Where(s, "task", w, t) = {x \in pending[s] : Same(x, w, t)}
        /\ Where(s, "task", w, t)' = {x \in pending[s] \cup cs : Same(x, w, t)}
    BY <1>1 DEF Where, Same
  <1>3. CASE Same(c, w, t)
    <2>1. PICK d \in cs : \A e \in cs : Same(e, w, t) <=> e = d
      BY <1>3 DEF Splits
    <2>2. Where(s, "task", w, t) = {} => Where(s, "task", w, t)' = {d}
      BY <1>2, <2>1
    <2>3. Where(s, "task", w, t) = {} => One(Where(s, "task", w, t)')
      BY <2>2 DEF One
    <2> QED
      BY <1>1, <1>3, <2>3 DEF Put
  <1>4. CASE ~Same(c, w, t)
    <2>1. Where(s, "task", w, t)' = Where(s, "task", w, t)
      BY <1>2, <1>4 DEF Splits
    <2> QED
      BY <1>1, <1>4, <2>1 DEF Put
  <1> QED
    BY <1>3, <1>4

\* The loop takes a call in hand, and lets go of it.
LEMMA HandMoves ==
    ASSUME TypeOK, NEW s \in Stars, NEW w, NEW t
    PROVE  /\ \A x \in Calls : hand[s] = Nothing /\ hand' = [hand EXCEPT ![s] = x]
                 => Put(Where(s, "hand", w, t), Where(s, "hand", w, t)', Same(x, w, t))
           /\ hand[s] # Nothing /\ hand' = [hand EXCEPT ![s] = Nothing]
                 => Taken(Where(s, "hand", w, t), Where(s, "hand", w, t)', Same(hand[s], w, t))
           /\ \A x : hand' = [hand EXCEPT ![s] = x] => \A q \in Stars : q # s => hand'[q] = hand[q]
  <1>1. hand \in [Stars -> Calls \cup {Nothing}]
    BY DEF TypeOK
  <1>2. /\ Where(s, "hand", w, t) = {c \in {hand[s]} \ {Nothing} : Same(c, w, t)}
        /\ Where(s, "hand", w, t)' = {c \in {hand'[s]} \ {Nothing} : Same(c, w, t)}
    BY DEF Where, Same
  <1>3. ASSUME NEW x \in Calls, hand[s] = Nothing, hand' = [hand EXCEPT ![s] = x]
        PROVE  Put(Where(s, "hand", w, t), Where(s, "hand", w, t)', Same(x, w, t))
    <2>1. hand'[s] = x /\ Where(s, "hand", w, t) = {}
      BY <1>1, <1>2, <1>3
    <2>3. x # Nothing
      BY RouterAssumption
    <2>4. CASE Same(x, w, t)
      <3>1. Where(s, "hand", w, t)' = {x}
        BY <1>2, <2>1, <2>3, <2>4
      <3> QED
        BY <2>4, <3>1 DEF Put, One
    <2>5. CASE ~Same(x, w, t)
      <3>1. Where(s, "hand", w, t)' = {}
        BY <1>2, <2>1, <2>5
      <3> QED
        BY <2>1, <2>5, <3>1 DEF Put
    <2> QED
      BY <2>4, <2>5
  <1>4. ASSUME hand[s] # Nothing, hand' = [hand EXCEPT ![s] = Nothing]
        PROVE  Taken(Where(s, "hand", w, t), Where(s, "hand", w, t)', Same(hand[s], w, t))
    <2>1. Where(s, "hand", w, t)' = {}
      BY <1>1, <1>2, <1>4
    <2>2. CASE Same(hand[s], w, t)
      <3>1. hand[s] \in Where(s, "hand", w, t)
        BY <1>2, <1>4, <2>2
      <3> QED
        BY <2>1, <2>2, <3>1 DEF Taken
    <2>3. CASE ~Same(hand[s], w, t)
      <3>1. Where(s, "hand", w, t) = {}
        BY <1>2, <2>3
      <3>2. ~One(Where(s, "hand", w, t))
        BY <3>1 DEF One
      <3> QED
        BY <2>1, <2>3, <3>2 DEF Taken
    <2> QED
      BY <2>2, <2>3
  <1>5. \A x : hand' = [hand EXCEPT ![s] = x] => \A q \in Stars : q # s => hand'[q] = hand[q]
    BY <1>1
  <1> QED
    BY <1>3, <1>4, <1>5

Trace == Known /\ Traced

\* A step keeps what is known if it is known of all that it puts anywhere.
LEMMA KnownStep ==
    ASSUME Known, UNCHANGED <<scene, sent>>,
           \A s \in Stars : \A c \in pending'[s] \cup In(calls'[s]) : c \in CallsAt(s) \/ Holds(s, c),
           \A s \in Stars : hand'[s] # Nothing => hand'[s] = hand[s] \/ HoldsHand(s, hand'[s]),
           \A s \in Stars : \A c \in In(out'[s]) :
              c \in In(out[s]) \/ (c.wave \in sent /\ c.to # Nothing),
           \A p \in arrived' : p \in arrived \/ p[1] \in sent,
           \A d \in dropped' : d \in dropped \/ d.call.wave \in sent
    PROVE  Known'
  <1>1. \A s, c : (Holds(s, c) <=> Holds(s, c)') /\ (HoldsHand(s, c) <=> HoldsHand(s, c)')
    BY DEF Holds, HoldsHand
  <1>2. \A s \in Stars : \A c \in CallsAt(s)' : Holds(s, c)'
    BY <1>1 DEF Known, CallsAt, In
  <1>3. \A s \in Stars : (hand[s] # Nothing => HoldsHand(s, hand[s]))'
    BY <1>1 DEF Known
  <1>4. \A s \in Stars : \A c \in In(out[s])' : c.wave \in sent' /\ c.to # Nothing
    BY DEF Known, In
  <1>5. (\A p \in arrived : p[1] \in sent)' /\ (\A d \in dropped : d.call.wave \in sent)'
    BY DEF Known
  <1> QED
    BY <1>2, <1>3, <1>4, <1>5 DEF Known

\* ... and it keeps the trace if each wave that was in one place is.
LEMMA TraceStep ==
    ASSUME Trace, UNCHANGED <<scene, sent>>, Known',
           \A w \in sent : \A t \in Goals(w) : Once(w, t) => Once(w, t)'
    PROVE  Trace'
  <1>1. \A w : Goals(w)' = Goals(w)
    BY DEF Goals, Concerned
  <1> QED
    BY <1>1 DEF Trace, Traced

\* What is known of the call that the loop takes.
LEMMA TopHolds ==
    ASSUME TypeOK, Trace, NEW s \in Stars, calls[s] # <<>>
    PROVE  Holds(s, Top(s))
  BY TopTyped DEF Trace, Known, CallsAt

\* What a wave is for are stars: those it concerns, or the one that runs it globally.
LEMMA GoalsTyped ==
    ASSUME TypeOK, NEW w \in sent, NEW t \in Goals(w)
    PROVE  t \in Stars /\ t # Nothing
  <1>1. w \in Waves /\ scene.from[w] \in Stars
    BY SceneTyped DEF TypeOK
  <1>2. scene.to[w] # Global => Concerned(scene.from[w], w) \subseteq Stars
    BY <1>1, SceneTyped DEF Concerned
  <1>3. t \in Stars
    BY <1>1, <1>2 DEF Goals
  <1> QED
    BY <1>3, RouterAssumption

\* A task comes back with what the call becomes.
LEMMA SpawnTrace ==
    ASSUME TypeOK, Trace, NEW s \in Stars, calls[s] # <<>>, Took(s),
           NEW cs \in SUBSET Calls, Spawn(s, cs), \A c \in cs : Holds(s, c),
           \A w \in sent : \A t \in Goals(w) : Splits(Top(s), cs, w, t),
           UNCHANGED <<scene, sent, hand, out, arrived, dropped>>
    PROVE  Trace'
  <1>1. \A r \in Stars : In(calls'[r]) \subseteq In(calls[r])
    BY TookKeeps
  <1>2. \A r \in Stars : \A c \in pending'[r] : c \in pending[r] \/ (r = s /\ c \in cs)
    BY SpawnKeeps
  <1>3. Known'
    BY <1>1, <1>2, KnownStep DEF Trace, CallsAt
  <1>4. ASSUME NEW w \in sent, NEW t \in Goals(w), Once(w, t) PROVE Once(w, t)'
    <2>1. Taken(Where(s, "calls", w, t), Where(s, "calls", w, t)', Same(Top(s), w, t))
          /\ \A q \in Stars : q # s => calls'[q] = calls[q]
      BY TookMoves
    <2>2. Put(Where(s, "task", w, t), Where(s, "task", w, t)', Same(Top(s), w, t))
          /\ \A q \in Stars : q # s => pending'[q] = pending[q]
      BY SpawnMoves DEF Spawn
    <2>3. \A q \in Stars, m \in Kinds :
            (q # s \/ m # "calls") /\ (q # s \/ m # "task") => Where(q, m, w, t)' = Where(q, m, w, t)
      BY <2>1, <2>2, Unmoved DEF Kinds
    <2> QED
      BY <1>4, <2>1, <2>2, <2>3, Moved DEF Kinds
  <1> QED
    BY <1>3, <1>4, TraceStep

\* The wave arrives here, which the call was for.
LEMMA ArriveTrace ==
    ASSUME TypeOK, Trace, NEW s \in Stars, calls[s] # <<>>, Took(s),
           arrived' = arrived \cup {<<Top(s).wave, s>>},
           \A w \in sent : \A t \in Goals(w) : Same(Top(s), w, t) <=> Top(s).wave = w /\ t = s,
           UNCHANGED <<scene, sent, pending, hand, out, dropped>>
    PROVE  Trace'
  <1>1. \A r \in Stars : In(calls'[r]) \subseteq In(calls[r])
    BY TookKeeps
  <1>2. Top(s).wave \in sent
    BY TopHolds DEF Holds
  <1>3. Known'
    BY <1>1, <1>2, KnownStep DEF Trace, CallsAt
  <1>4. ASSUME NEW w \in sent, NEW t \in Goals(w), Once(w, t) PROVE Once(w, t)'
    <2>1. Taken(Where(s, "calls", w, t), Where(s, "calls", w, t)', Same(Top(s), w, t))
          /\ \A q \in Stars : q # s => calls'[q] = calls[q]
      BY TookMoves
    <2>2. \A q : /\ Where(q, "arrived", w, t) = arrived \cap {<<w, t>>} \cap {<<w, q>>}
                 /\ Where(q, "arrived", w, t)' = arrived' \cap {<<w, t>>} \cap {<<w, q>>}
      BY DEF Where
    <2>3. Put(Where(s, "arrived", w, t), Where(s, "arrived", w, t)', Same(Top(s), w, t))
      <3>1. CASE Same(Top(s), w, t)
        <4>1. Top(s).wave = w /\ t = s
          BY <3>1
        <4>2. Where(s, "arrived", w, t)' = {<<w, t>>}
          BY <2>2, <4>1
        <4> QED
          BY <3>1, <4>2 DEF Put, One
      <3>2. CASE ~Same(Top(s), w, t)
        <4>1. <<Top(s).wave, s>> # <<w, t>>
          BY <3>2
        <4>2. Where(s, "arrived", w, t)' = Where(s, "arrived", w, t)
          BY <2>2, <4>1
        <4> QED
          BY <3>2, <4>2 DEF Put
      <3> QED
        BY <3>1, <3>2
    <2>4. \A q \in Stars : q # s => Where(q, "arrived", w, t)' = Where(q, "arrived", w, t)
      <3> SUFFICES ASSUME NEW q \in Stars, q # s
                   PROVE  Where(q, "arrived", w, t)' = Where(q, "arrived", w, t)
        OBVIOUS
      <3>1. <<Top(s).wave, s>> # <<w, q>>
        OBVIOUS
      <3>2. arrived' \cap {<<w, t>>} \cap {<<w, q>>} = arrived \cap {<<w, t>>} \cap {<<w, q>>}
        BY <3>1
      <3> QED
        BY <2>2, <3>2
    <2>5. \A q \in Stars, m \in Kinds :
            (q # s \/ m # "calls") /\ (q # s \/ m # "arrived") => Where(q, m, w, t)' = Where(q, m, w, t)
      BY <2>1, <2>4, Unmoved DEF Kinds
    <2> QED
      BY <1>4, <2>1, <2>3, <2>5, Moved DEF Kinds
  <1> QED
    BY <1>3, <1>4, TraceStep

\* The loop holds the call until there is room for it.
LEMMA HandTrace ==
    ASSUME TypeOK, Trace, NEW s \in Stars, calls[s] # <<>>, Took(s), hand[s] = Nothing,
           NEW x \in Calls, hand' = [hand EXCEPT ![s] = x], HoldsHand(s, x),
           x.wave = Top(s).wave, x.to = Top(s).to,
           UNCHANGED <<scene, sent, pending, out, arrived, dropped>>
    PROVE  Trace'
  <1>1. \A r \in Stars : In(calls'[r]) \subseteq In(calls[r])
    BY TookKeeps
  <1>2. \A r \in Stars : hand'[r] = hand[r] \/ (r = s /\ hand'[r] = x)
    BY HandKeeps
  <1>3. Known'
    BY <1>1, <1>2, KnownStep DEF Trace, CallsAt
  <1>4. ASSUME NEW w \in sent, NEW t \in Goals(w), Once(w, t) PROVE Once(w, t)'
    <2>1. Taken(Where(s, "calls", w, t), Where(s, "calls", w, t)', Same(Top(s), w, t))
          /\ \A q \in Stars : q # s => calls'[q] = calls[q]
      BY TookMoves
    <2>2. Same(x, w, t) <=> Same(Top(s), w, t)
      BY DEF Same
    <2>3. Put(Where(s, "hand", w, t), Where(s, "hand", w, t)', Same(Top(s), w, t))
          /\ \A q \in Stars : q # s => hand'[q] = hand[q]
      BY <2>2, HandMoves DEF Put
    <2>4. \A q \in Stars, m \in Kinds :
            (q # s \/ m # "calls") /\ (q # s \/ m # "hand") => Where(q, m, w, t)' = Where(q, m, w, t)
      BY <2>1, <2>3, Unmoved DEF Kinds
    <2> QED
      BY <1>4, <2>1, <2>3, <2>4, Moved DEF Kinds
  <1> QED
    BY <1>3, <1>4, TraceStep

\* Calls that are given up on one star are not given up on another.
LEMMA DroppedHere ==
    ASSUME NEW s \in Stars, NEW cs, NEW why, Drop(cs, s, why), NEW w, NEW t,
           NEW q \in Stars, q # s
    PROVE  Where(q, "dropped", w, t)' = Where(q, "dropped", w, t)
  <1>1. \A d \in dropped' : d \in dropped \/ d.at = s
    BY DEF Drop
  <1>2. \A d \in dropped : d \in dropped'
    BY DEF Drop
  <1>3. /\ Where(q, "dropped", w, t) = {d \in dropped : d.at = q /\ Same(d.call, w, t)}
        /\ Where(q, "dropped", w, t)' = {d \in dropped' : d.at = q /\ Same(d.call, w, t)}
    BY DEF Where, Same
  <1> QED
    BY <1>1, <1>2, <1>3

\* A call that is given up.
LEMMA DropMoves ==
    ASSUME NEW s \in Stars, NEW c, NEW why, Drop({c}, s, why), NEW w, NEW t
    PROVE  Put(Where(s, "dropped", w, t), Where(s, "dropped", w, t)', Same(c, w, t))
  <1> DEFINE x == [call |-> c, at |-> s, why |-> why]
  <1>1. dropped' = dropped \cup {x} /\ x.call = c /\ x.at = s
    BY DEF Drop
  <1> HIDE DEF x
  <1>2. /\ Where(s, "dropped", w, t) = {d \in dropped : d.at = s /\ Same(d.call, w, t)}
        /\ Where(s, "dropped", w, t)' = {d \in dropped' : d.at = s /\ Same(d.call, w, t)}
    BY DEF Where, Same
  <1>3. CASE Same(c, w, t)
    <2>1. Where(s, "dropped", w, t) = {} => Where(s, "dropped", w, t)' = {x}
      BY <1>1, <1>2, <1>3
    <2> QED
      BY <1>3, <2>1 DEF Put, One
  <1>4. CASE ~Same(c, w, t)
    <2>1. Where(s, "dropped", w, t)' = Where(s, "dropped", w, t)
      BY <1>1, <1>2, <1>4
    <2> QED
      BY <1>4, <2>1 DEF Put
  <1> QED
    BY <1>3, <1>4

\* Calls that are all given up: one of them that is about w and t stays one.
LEMMA AllDropped ==
    ASSUME NEW s \in Stars, NEW cs, NEW why, Drop(cs, s, why), NEW w, NEW t
    PROVE  /\ (\A c \in cs : ~Same(c, w, t)) =>
                 Where(s, "dropped", w, t)' = Where(s, "dropped", w, t)
           /\ \A c \in cs : /\ \A e \in cs : Same(e, w, t) <=> e = c
                            /\ Where(s, "dropped", w, t) = {}
                            => One(Where(s, "dropped", w, t)')
  <1> DEFINE rec(c) == [call |-> c, at |-> s, why |-> why]
  <1>1. \A d : d \in dropped' <=> d \in dropped \/ \E c \in cs : d = rec(c)
    BY DEF Drop
  <1>2. \A c : rec(c).call = c /\ rec(c).at = s
    OBVIOUS
  <1> HIDE DEF rec
  <1>3. /\ Where(s, "dropped", w, t) = {d \in dropped : d.at = s /\ Same(d.call, w, t)}
        /\ Where(s, "dropped", w, t)' = {d \in dropped' : d.at = s /\ Same(d.call, w, t)}
    BY DEF Where, Same
  <1>4. ASSUME \A c \in cs : ~Same(c, w, t)
        PROVE  Where(s, "dropped", w, t)' = Where(s, "dropped", w, t)
    <2>1. \A d \in dropped' : Same(d.call, w, t) => d \in dropped
      BY <1>1, <1>2, <1>4
    <2>2. \A d \in dropped : d \in dropped'
      BY <1>1
    <2> QED
      BY <1>3, <2>1, <2>2
  <1>5. ASSUME NEW c \in cs, \A e \in cs : Same(e, w, t) <=> e = c, Where(s, "dropped", w, t) = {}
        PROVE  One(Where(s, "dropped", w, t)')
    <2>1. \A d \in Where(s, "dropped", w, t)' : d = rec(c)
      BY <1>1, <1>2, <1>3, <1>5
    <2>2. rec(c) \in Where(s, "dropped", w, t)'
      BY <1>1, <1>2, <1>3, <1>5
    <2>3. Where(s, "dropped", w, t)' = {rec(c)}
      BY <2>1, <2>2
    <2> QED
      BY <2>3 DEF One
  <1> QED
    BY <1>4, <1>5

\* The call is given up.
LEMMA DropTrace ==
    ASSUME TypeOK, Trace, NEW s \in Stars, calls[s] # <<>>, Took(s),
           NEW c, NEW why, Drop({c}, s, why), c.wave = Top(s).wave, c.to = Top(s).to,
           UNCHANGED <<scene, sent, pending, hand, out, arrived>>
    PROVE  Trace'
  <1>1. \A r \in Stars : In(calls'[r]) \subseteq In(calls[r])
    BY TookKeeps
  <1>2. Top(s).wave \in sent
    BY TopHolds DEF Holds
  <1>3. \A d \in dropped' : d \in dropped \/ d.call.wave \in sent
    BY <1>2 DEF Drop
  <1>4. Known'
    BY <1>1, <1>3, KnownStep DEF Trace, CallsAt
  <1>5. ASSUME NEW w \in sent, NEW t \in Goals(w), Once(w, t) PROVE Once(w, t)'
    <2>1. Taken(Where(s, "calls", w, t), Where(s, "calls", w, t)', Same(Top(s), w, t))
          /\ \A q \in Stars : q # s => calls'[q] = calls[q]
      BY TookMoves
    <2>2. Same(c, w, t) <=> Same(Top(s), w, t)
      BY DEF Same
    <2>3. Put(Where(s, "dropped", w, t), Where(s, "dropped", w, t)', Same(Top(s), w, t))
      BY <2>2, DropMoves DEF Put
    <2>4. \A q \in Stars, m \in Kinds :
            (q # s \/ m # "calls") /\ (q # s \/ m # "dropped") => Where(q, m, w, t)' = Where(q, m, w, t)
      BY <2>1, DroppedHere, Unmoved DEF Kinds
    <2> QED
      BY <1>5, <2>1, <2>3, <2>4, Moved DEF Kinds
  <1> QED
    BY <1>4, <1>5, TraceStep

\* The loop ends, with all that is in its channel.
LEMMA PanicTrace ==
    ASSUME TypeOK, Trace, NEW s \in Stars, NEW c, Panics(s, c), calls' = [calls EXCEPT ![s] = <<>>],
           UNCHANGED <<scene, sent, pending, out, arrived>>
    PROVE  Trace'
  <1>1. Drop(In(calls[s]), s, "dead") /\ UNCHANGED hand
    BY DEF Panics
  <1>2. calls'[s] = <<>> /\ \A q \in Stars : q # s => calls'[q] = calls[q]
    BY DEF TypeOK
  <1>3. \A r \in Stars : In(calls'[r]) \subseteq In(calls[r])
    BY <1>2, EmptyIn
  <1>4. \A d \in dropped' : d \in dropped \/ d.call.wave \in sent
    <2>1. \A x \in In(calls[s]) : x.wave \in sent
      BY DEF Trace, Known, CallsAt, Holds
    <2> QED
      BY <1>1, <2>1 DEF Drop
  <1>5. Known'
    BY <1>1, <1>3, <1>4, KnownStep DEF Trace, CallsAt
  <1>6. ASSUME NEW w \in sent, NEW t \in Goals(w), Once(w, t) PROVE Once(w, t)'
    <2>1. Where(s, "calls", w, t) = Spots(calls[s], w, t) /\ Where(s, "calls", w, t)' = {}
      BY <1>2 DEF Where, Spots
    <2>2. Where(s, "calls", w, t) = {} => Where(s, "dropped", w, t)' = Where(s, "dropped", w, t)
      <3>1. Where(s, "calls", w, t) = {} => \A x \in In(calls[s]) : ~Same(x, w, t)
        BY <2>1 DEF Spots, In
      <3> QED
        BY <1>1, <3>1, AllDropped
    <2>3. ASSUME One(Where(s, "calls", w, t)), Where(s, "dropped", w, t) = {}
          PROVE  One(Where(s, "dropped", w, t)')
      <3>1. PICK i : Spots(calls[s], w, t) = {i}
        BY <2>1, <2>3 DEF One
      <3>2. i \in DOMAIN calls[s] /\ Same(calls[s][i], w, t)
        BY <3>1 DEF Spots
      <3>3. calls[s][i] \in In(calls[s])
        BY <3>2 DEF In
      <3>4. \A e \in In(calls[s]) : Same(e, w, t) <=> e = calls[s][i]
        BY <3>1, <3>2 DEF In, Spots
      <3> QED
        BY <1>1, <2>3, <3>3, <3>4, AllDropped
    <2>4. ASSUME NEW q \in Stars, q # s
          PROVE  Where(q, "dropped", w, t)' = Where(q, "dropped", w, t)
      BY <1>1, <2>4, DroppedHere
    <2>5. \A q \in Stars, m \in Kinds :
            q # s \/ (m # "calls" /\ m # "dropped") => Where(q, m, w, t)' = Where(q, m, w, t)
      BY <1>1, <1>2, <2>4, Unmoved DEF Kinds
    <2> QED
      BY <1>6, <2>1, <2>2, <2>3, <2>5, AllMoved DEF Kinds
  <1> QED
    BY <1>5, <1>6, TraceStep

-----------------------------------------------------------------------------
(* Each action, by its pieces.                                             *)

\* A call that becomes one other about the same wave and star splits into that.
LEMMA SplitsIntoOne ==
    ASSUME NEW c, NEW d, d.wave = c.wave, d.to = c.to, NEW w, NEW t
    PROVE  Splits(c, {d}, w, t)
  BY DEF Splits, Same

\* A particle sends a wave, of which there was nothing anywhere.
LEMMA SendTrace ==
    ASSUME TypeOK, Trace, NEW w \in Waves, Send(w)
    PROVE  Trace'
  <1>2. PICK s, c :
          /\ s \in Stars /\ s = scene.from[w] /\ c = Call("Inject", w, Nothing, 0)
          /\ c.wave = w /\ c.to = Nothing /\ c.op = "Inject"
    <2>1. scene.from[w] \in Stars
      BY SceneTyped
    <2>2. \E s, c : s \in Stars /\ s = scene.from[w] /\ c = Call("Inject", w, Nothing, 0)
      BY <2>1
    <2>3. /\ Call("Inject", w, Nothing, 0).wave = w
          /\ Call("Inject", w, Nothing, 0).to = Nothing
          /\ Call("Inject", w, Nothing, 0).op = "Inject"
      BY DEF Call
    <2> QED
      BY <2>2, <2>3
  <1>1. /\ w \notin sent /\ sent' = sent \cup {w}
        /\ pending' = [pending EXCEPT ![s] = @ \cup {c}]
        /\ UNCHANGED <<scene, calls, hand, out, dead, arrived, dropped>>
    BY <1>2 DEF Send
  <1>3. s = scene.from[w]
    BY <1>2
  <1>4. pending'[s] = pending[s] \cup {c} /\ \A q \in Stars : q # s => pending'[q] = pending[q]
    BY <1>1, <1>2 DEF TypeOK
  <1>5. Known'
    <2>1. /\ \A r, x : Holds(r, x) => Holds(r, x)'
          /\ \A r, x : HoldsHand(r, x) => HoldsHand(r, x)'
      BY <1>1 DEF Holds, HoldsHand
    <2>2. Holds(s, c)'
      BY <1>1, <1>2, <1>3 DEF Holds
    <2>3. \A r \in Stars : \A x \in CallsAt(r)' : Holds(r, x)'
      BY <1>1, <1>4, <2>1, <2>2 DEF Trace, Known, CallsAt, In
    <2>4. \A r \in Stars : (hand[r] # Nothing => HoldsHand(r, hand[r]))'
      BY <1>1, <2>1 DEF Trace, Known
    <2> QED
      BY <1>1, <2>3, <2>4 DEF Trace, Known, In
  <1>6. \A v, t : \A q \in Stars, m \in Kinds :
           q # s \/ m # "task" => Where(q, m, v, t)' = Where(q, m, v, t)
    BY <1>1, <1>4, Unmoved DEF Kinds
  <1>7. \A v, t : /\ Where(s, "task", v, t) = {x \in pending[s] : Same(x, v, t)}
                  /\ Where(s, "task", v, t)' = {x \in pending[s] \cup {c} : Same(x, v, t)}
    BY <1>4 DEF Where, Same
  <1>8. ASSUME NEW v \in sent, NEW t \in Goals(v) PROVE Once(v, t)'
    <2>1. ~Same(c, v, t)
      BY <1>1, <1>2 DEF Same
    <2>2. Where(s, "task", v, t)' = Where(s, "task", v, t)
      BY <1>7, <2>1
    <2>3. \A q \in Stars, m \in Kinds : Where(q, m, v, t)' = Where(q, m, v, t)
      BY <1>6, <2>2
    <2>4. Once(v, t)
      BY DEF Trace, Traced
    <2> QED
      BY <2>3, <2>4 DEF Once
  <1>9. ASSUME NEW t PROVE Once(w, t)'
    <2>1. \A q \in Stars, m \in Kinds : Where(q, m, w, t) = {}
      <3> SUFFICES ASSUME NEW q \in Stars PROVE \A m \in Kinds : Where(q, m, w, t) = {}
        OBVIOUS
      <3>1. /\ \A x \in pending[q] \cup In(calls[q]) \cup In(out[q]) : x.wave # w
            /\ hand[q] # Nothing => hand[q].wave # w
            /\ <<w, t>> \notin arrived
            /\ \A d \in dropped : d.call.wave # w
        BY <1>1 DEF Trace, Known, CallsAt, Holds, HoldsHand
      <3>2. Spots(calls[q], w, t) = {} /\ Spots(out[q], w, t) = {}
        BY <3>1 DEF Spots, In, Same
      <3> QED
        BY <3>1, <3>2 DEF Where, Kinds, Same
    <2>2. Where(s, "task", w, t)' = {c}
      <3>1. Same(c, w, t) /\ \A x \in pending[s] : ~Same(x, w, t)
        <4>1. Where(s, "task", w, t) = {}
          BY <1>2, <2>1 DEF Kinds
        <4> QED
          BY <1>2, <1>7, <4>1 DEF Same
      <3> QED
        BY <1>7, <3>1
    <2>3. \A q \in Stars, m \in Kinds : q # s \/ m # "task" => Where(q, m, w, t)' = {}
      BY <1>6, <2>1
    <2>4. One(Where(s, "task", w, t)') /\ "task" \in Kinds
      BY <2>2 DEF One, Kinds
    <2> QED
      BY <1>2, <2>3, <2>4 DEF Once
  <1>10. \A v : Goals(v)' = Goals(v)
    BY <1>1 DEF Goals, Concerned
  <1>11. Traced'
    BY <1>1, <1>8, <1>9, <1>10 DEF Traced
  <1> QED
    BY <1>5, <1>11 DEF Trace

\* A task's call goes to the channel of its star.
LEMMA EnqueueTrace ==
    ASSUME TypeOK, Trace, NEW s \in Stars, Enqueue(s)
    PROVE  Trace'
  <1>1. PICK c \in pending[s] :
          /\ pending' = [pending EXCEPT ![s] = @ \ {c}]
          /\ calls' = [calls EXCEPT ![s] = Append(@, c)]
    BY DEF Enqueue
  <1>2. UNCHANGED <<scene, sent, hand, out, dead, arrived, dropped>>
    BY DEF Enqueue
  <1>3. c \in Calls /\ calls[s] \in Seq(Calls)
    BY DEF TypeOK
  <1>4. /\ pending'[s] = pending[s] \ {c} /\ calls'[s] = Append(calls[s], c)
        /\ \A q \in Stars : q # s => pending'[q] = pending[q] /\ calls'[q] = calls[q]
    BY <1>1 DEF TypeOK
  <1>5. \A r \in Stars : \A x \in pending'[r] \cup In(calls'[r]) : x \in CallsAt(r)
    <2>1. In(calls'[s]) = In(calls[s]) \cup {c}
      BY <1>3, <1>4, AppendIn
    <2> QED
      BY <1>4, <2>1 DEF CallsAt
  <1>6. Known'
    BY <1>2, <1>5, KnownStep DEF Trace
  <1>7. ASSUME NEW w \in sent, NEW t \in Goals(w), Once(w, t) PROVE Once(w, t)'
    <2>1. /\ Where(s, "task", w, t) = {x \in pending[s] : Same(x, w, t)}
          /\ Where(s, "task", w, t)' = {x \in pending[s] \ {c} : Same(x, w, t)}
      BY <1>4 DEF Where, Same
    <2>2. Taken(Where(s, "task", w, t), Where(s, "task", w, t)', Same(c, w, t))
      <3>1. CASE Same(c, w, t)
        <4>1. c \in Where(s, "task", w, t)
          BY <2>1, <3>1
        <4>2. One(Where(s, "task", w, t)) => Where(s, "task", w, t)' = {}
          BY <2>1, <4>1 DEF One
        <4> QED
          BY <3>1, <4>1, <4>2 DEF Taken
      <3>2. CASE ~Same(c, w, t)
        <4>1. Where(s, "task", w, t)' = Where(s, "task", w, t)
          BY <2>1, <3>2
        <4> QED
          BY <3>2, <4>1 DEF Taken
      <3> QED
        BY <3>1, <3>2
    <2>3. Put(Where(s, "calls", w, t), Where(s, "calls", w, t)', Same(c, w, t))
      <3>1. Where(s, "calls", w, t) = Spots(calls[s], w, t)
            /\ Where(s, "calls", w, t)' = Spots(Append(calls[s], c), w, t)
        BY <1>4 DEF Where, Spots
      <3> QED
        BY <1>3, <3>1, SpotsPut
    <2>4. \A q \in Stars, m \in Kinds :
            (q # s \/ m # "task") /\ (q # s \/ m # "calls") => Where(q, m, w, t)' = Where(q, m, w, t)
      BY <1>2, <1>4, Unmoved DEF Kinds
    <2> QED
      BY <1>7, <2>2, <2>3, <2>4, Moved DEF Kinds
  <1> QED
    BY <1>2, <1>6, <1>7, TraceStep

\* The tasks of a star whose loop is gone give up their calls.
LEMMA EnqueueFailsTrace ==
    ASSUME TypeOK, Trace, NEW s \in Stars, EnqueueFails(s)
    PROVE  Trace'
  <1>1. /\ Drop(pending[s], s, "dead") /\ pending' = [pending EXCEPT ![s] = {}]
        /\ UNCHANGED <<scene, sent, calls, hand, out, dead, arrived>>
    BY DEF EnqueueFails
  <1>2. pending'[s] = {} /\ \A q \in Stars : q # s => pending'[q] = pending[q]
    BY <1>1 DEF TypeOK
  <1>3. \A d \in dropped' : d \in dropped \/ d.call.wave \in sent
    <2>1. \A x \in pending[s] : x.wave \in sent
      BY DEF Trace, Known, CallsAt, Holds
    <2> QED
      BY <1>1, <2>1 DEF Drop
  <1>4. Known'
    BY <1>1, <1>2, <1>3, KnownStep DEF Trace, CallsAt
  <1>5. ASSUME NEW w \in sent, NEW t \in Goals(w), Once(w, t) PROVE Once(w, t)'
    <2>1. /\ Where(s, "task", w, t) = {x \in pending[s] : Same(x, w, t)}
          /\ Where(s, "task", w, t)' = {}
      BY <1>2 DEF Where, Same
    <2>2. Where(s, "task", w, t) = {} => Where(s, "dropped", w, t)' = Where(s, "dropped", w, t)
      BY <1>1, <2>1, AllDropped
    <2>3. ASSUME One(Where(s, "task", w, t)), Where(s, "dropped", w, t) = {}
          PROVE  One(Where(s, "dropped", w, t)')
      <3>1. PICK c : Where(s, "task", w, t) = {c}
        BY <2>3 DEF One
      <3>2. c \in pending[s] /\ \A e \in pending[s] : Same(e, w, t) <=> e = c
        BY <2>1, <3>1
      <3> QED
        BY <1>1, <2>3, <3>2, AllDropped
    <2>4. ASSUME NEW q \in Stars, q # s
          PROVE  Where(q, "dropped", w, t)' = Where(q, "dropped", w, t)
      BY <1>1, <2>4, DroppedHere
    <2>5. \A q \in Stars, m \in Kinds :
            q # s \/ (m # "task" /\ m # "dropped") => Where(q, m, w, t)' = Where(q, m, w, t)
      BY <1>1, <1>2, <2>4, Unmoved DEF Kinds
    <2> QED
      BY <1>5, <2>1, <2>2, <2>3, <2>5, AllMoved DEF Kinds
  <1> QED
    BY <1>1, <1>4, <1>5, TraceStep

\* A wave is injected: outward, to be sharded; or inward, where it arrives.
LEMMA InjectTrace ==
    ASSUME TypeOK, Trace, NEW s \in Stars, InjectOutward(s) \/ InjectInward(s) \/ GlobalExec(s)
    PROVE  Trace'
  <1> DEFINE c == Top(s)
  <1>1. calls[s] # <<>> /\ Took(s)
    BY DEF InjectOutward, InjectInward, GlobalExec, Recv
  <1>2. c \in Calls /\ Holds(s, c)
    BY <1>1, TopTyped, TopHolds
  <1>3. CASE InjectOutward(s)
    <2> DEFINE x == As("ToGravity", c)
    <2>1. /\ Spawn(s, {x}) /\ c.op = "Inject" /\ c.to = Nothing
          /\ UNCHANGED <<scene, sent, hand, out, arrived, dropped>>
      BY <1>3 DEF InjectOutward, Recv, Top
    <2>2. x \in Calls /\ x.op = "ToGravity" /\ x.wave = c.wave /\ x.to = c.to
      BY <1>2, AsTyped DEF Ops
    <2> HIDE DEF x, c
    <2>3. Holds(s, x)
      BY <1>2, <2>1, <2>2 DEF Holds
    <2>4. \A w \in sent : \A t \in Goals(w) : Splits(Top(s), {x}, w, t)
      BY <2>2, SplitsIntoOne DEF c
    <2>5. {x} \in SUBSET Calls
      BY <2>2
    <2> QED
      BY <1>1, <2>1, <2>3, <2>4, <2>5, SpawnTrace
  <1>4. CASE InjectInward(s)
    <2>1. /\ c.op = "Inject" /\ c.to # Nothing /\ arrived' = arrived \cup {<<c.wave, s>>}
          /\ UNCHANGED <<scene, sent, pending, hand, out, dropped>>
      BY <1>4 DEF InjectInward, Recv, Top
    <2>2. c.to = s
      BY <1>2, <2>1 DEF Holds
    <2>3. \A w \in sent : \A t \in Goals(w) : Same(c, w, t) <=> c.wave = w /\ t = s
      BY <2>1, <2>2 DEF Same
    <2> QED
      BY <1>1, <2>1, <2>3, ArriveTrace
  <1>5. CASE GlobalExec(s)
    <2>1. /\ c.op = "ToGravity" /\ scene.to[c.wave] = Global /\ arrived' = arrived \cup {<<c.wave, s>>}
          /\ UNCHANGED <<scene, sent, pending, hand, out, dropped>>
      BY <1>5 DEF GlobalExec, Recv, Top
    <2>2. c.to = Nothing /\ s = scene.from[c.wave]
      BY <1>2, <2>1 DEF Holds
    <2>3. \A w \in sent : \A t \in Goals(w) : Same(c, w, t) <=> c.wave = w /\ t = s
      BY <2>1, <2>2 DEF Same, Goals
    <2> QED
      BY <1>1, <2>1, <2>3, ArriveTrace
  <1> QED
    BY <1>3, <1>4, <1>5

\* A call that is for gravity is in hand until it is sharded.
LEMMA ToGravityTrace ==
    ASSUME TypeOK, Trace, NEW s \in Stars, ToGravity(s)
    PROVE  Trace'
  <1>1. /\ calls[s] # <<>> /\ Took(s) /\ hand[s] = Nothing /\ hand' = [hand EXCEPT ![s] = Top(s)]
        /\ Top(s).op = "ToGravity"
        /\ UNCHANGED <<scene, sent, pending, out, arrived, dropped>>
    BY DEF ToGravity, Recv, Top
  <1>2. Top(s) \in Calls /\ Holds(s, Top(s))
    BY <1>1, TopTyped, TopHolds
  <1>3. HoldsHand(s, Top(s))
    BY <1>1, <1>2 DEF Holds, HoldsHand
  <1> QED
    BY <1>1, <1>2, <1>3, HandTrace

\* The call in hand goes back to the star's channel, to be sharded.
LEMMA PushShardTrace ==
    ASSUME TypeOK, Trace, NEW s \in Stars, PushShard(s)
    PROVE  Trace'
  <1> DEFINE x == As("Shard", hand[s])
             h == hand[s]
  <1>1. /\ h # Nothing /\ h.op = "ToGravity"
        /\ calls' = [calls EXCEPT ![s] = Append(@, x)]
        /\ hand' = [hand EXCEPT ![s] = Nothing]
        /\ UNCHANGED <<scene, sent, pending, out, arrived, dropped>>
    BY DEF PushShard
  <1>2. h \in Calls /\ HoldsHand(s, h) /\ calls[s] \in Seq(Calls)
    BY <1>1 DEF TypeOK, Trace, Known
  <1>3. x \in Calls /\ x.op = "Shard" /\ x.wave = h.wave /\ x.to = h.to
    BY <1>2, AsTyped DEF Ops
  <1> HIDE DEF x, h
  <1>4. Holds(s, x)
    BY <1>1, <1>2, <1>3 DEF Holds, HoldsHand
  <1>5. /\ calls'[s] = Append(calls[s], x) /\ hand'[s] = Nothing
        /\ \A q \in Stars : q # s => calls'[q] = calls[q] /\ hand'[q] = hand[q]
    BY <1>1 DEF TypeOK
  <1>6. Known'
    <2>1. In(calls'[s]) = In(calls[s]) \cup {x}
      BY <1>2, <1>3, <1>5, AppendIn
    <2>2. \A r \in Stars : \A c \in pending'[r] \cup In(calls'[r]) : c \in CallsAt(r) \/ Holds(r, c)
      BY <1>1, <1>4, <1>5, <2>1 DEF CallsAt
    <2>3. \A r \in Stars : hand'[r] # Nothing => hand'[r] = hand[r]
      BY <1>5
    <2> QED
      BY <1>1, <2>2, <2>3, KnownStep DEF Trace
  <1>7. ASSUME NEW w \in sent, NEW t \in Goals(w), Once(w, t) PROVE Once(w, t)'
    <2>1. Taken(Where(s, "hand", w, t), Where(s, "hand", w, t)', Same(h, w, t))
      BY <1>1, HandMoves DEF h
    <2>2. Put(Where(s, "calls", w, t), Where(s, "calls", w, t)', Same(h, w, t))
      <3>1. Where(s, "calls", w, t) = Spots(calls[s], w, t)
            /\ Where(s, "calls", w, t)' = Spots(Append(calls[s], x), w, t)
        BY <1>5 DEF Where, Spots
      <3>2. Same(x, w, t) <=> Same(h, w, t)
        BY <1>3 DEF Same
      <3>3. Put(Spots(calls[s], w, t), Spots(Append(calls[s], x), w, t), Same(x, w, t))
        BY <1>2, <1>3, SpotsPut
      <3> QED
        BY <3>1, <3>2, <3>3 DEF Put
    <2>3. \A q \in Stars, m \in Kinds :
            (q # s \/ m # "hand") /\ (q # s \/ m # "calls") => Where(q, m, w, t)' = Where(q, m, w, t)
      BY <1>1, <1>5, Unmoved DEF Kinds
    <2> QED
      BY <1>7, <2>1, <2>2, <2>3, Moved DEF Kinds
  <1> QED
    BY <1>1, <1>6, <1>7, TraceStep

\* The call to shard a wave becomes one for each star that the wave concerns.
LEMMA ShardTrace ==
    ASSUME IInv, Trace, NEW s \in Stars, Shard(s)
    PROVE  Trace'
  <1> DEFINE c == Top(s)
             cs == {ShardOf(s, c.wave, t) : t \in Concerned(s, c.wave)}
  <1>1. /\ calls[s] # <<>> /\ Took(s) /\ Spawn(s, cs) /\ c.op = "Shard"
        /\ UNCHANGED <<scene, sent, hand, out, arrived, dropped>>
    BY DEF Shard, Recv, Top
  <1>2. TypeOK /\ c \in Calls /\ c.wave \in Waves /\ Fit(s, c) /\ Holds(s, c)
    BY <1>1, TopTyped, TopFits, TopHolds DEF IInv
  <1>3. scene.to[c.wave] # Global /\ c.to = Nothing /\ s = scene.from[c.wave] /\ c.wave \in sent
    BY <1>1, <1>2 DEF Fit, Holds
  <1>4. Concerned(s, c.wave) \subseteq Stars /\ Concerned(s, c.wave) = Goals(c.wave)
    BY <1>2, <1>3, SceneTyped DEF Concerned, Goals
  <1>5. ASSUME NEW t \in Concerned(s, c.wave)
        PROVE  LET d == ShardOf(s, c.wave, t)
               IN  d \in Calls /\ d.wave = c.wave /\ d.to = t /\ Holds(s, d)
    <2> DEFINE d == ShardOf(s, c.wave, t)
    <2>1. d \in Calls
      BY <1>2, <1>4, CallTyped DEF ShardOf, Ops
    <2>2. /\ d.wave = c.wave /\ d.to = t
          /\ (d.op = "Inject" /\ t = s) \/ d.op = "ToHyperway"
      BY DEF ShardOf, Call
    <2>3. t # Nothing
      BY <1>4, RouterAssumption
    <2> HIDE DEF d
    <2>4. Holds(s, d)
      BY <1>3, <2>2, <2>3 DEF Holds
    <2> QED
      BY <2>1, <2>2, <2>4 DEF d
  <1>6. cs \in SUBSET Calls /\ \A d \in cs : Holds(s, d)
    BY <1>5
  <1>7. ASSUME NEW w \in sent, NEW t \in Goals(w) PROVE Splits(c, cs, w, t)
    <2> HIDE DEF c
    <2>1. t # Nothing
      BY <1>2, GoalsTyped
    <2>2. CASE w = c.wave
      <3> DEFINE d == ShardOf(s, c.wave, t)
      <3>1. Same(c, w, t)
        BY <1>3, <2>2 DEF Same
      <3>2. d \in cs /\ d.wave = w /\ d.to = t
        BY <1>4, <1>5, <2>2
      <3>3. \A e \in cs : e.to = t => e = d
        BY <1>5
      <3>4. \A e \in cs : e.wave = c.wave /\ e.to # Nothing
        BY <1>4, <1>5, RouterAssumption
      <3> HIDE DEF d, cs
      <3>5. \A e \in cs : Same(e, w, t) <=> e = d
        BY <2>2, <3>2, <3>3, <3>4 DEF Same
      <3> QED
        BY <3>1, <3>2, <3>5 DEF Splits
    <2>3. CASE w # c.wave
      <3>1. \A e \in cs : e.wave = c.wave
        BY <1>5
      <3> HIDE DEF cs
      <3> QED
        BY <2>3, <3>1 DEF Splits, Same
    <2> QED
      BY <2>2, <2>3
  <1> HIDE DEF cs
  <1> QED
    BY <1>1, <1>2, <1>6, <1>7, SpawnTrace

\* Handlers that give a call up.
LEMMA GiveUpTrace ==
    ASSUME TypeOK, Trace, NEW s \in Stars, LocateFails(s) \/ FromHyperwayExceeded(s)
    PROVE  Trace'
  <1>1. /\ calls[s] # <<>> /\ Took(s)
        /\ \E why \in Reasons : Drop({Top(s)}, s, why)
        /\ UNCHANGED <<scene, sent, pending, hand, out, arrived>>
    BY DEF LocateFails, FromHyperwayExceeded, Recv, Reasons
  <1> QED
    BY <1>1, DropTrace

\* A transport has come to its star: to the driver, and from there injected.
LEMMA HomeTrace ==
    ASSUME TypeOK, Trace, NEW s \in Stars, FromHyperwayHome(s) \/ ToDriver(s)
    PROVE  Trace'
  <1> DEFINE c == Top(s)
             x == IF FromHyperwayHome(s) THEN As("ToDriver", Counted(c)) ELSE As("Inject", c)
  <1>1. /\ calls[s] # <<>> /\ Took(s) /\ Spawn(s, {x})
        /\ \/ c.op = "FromHyperway" /\ c.to = s /\ ~TooFar(c) /\ FromHyperwayHome(s)
           \/ c.op = "ToDriver" /\ ~FromHyperwayHome(s)
        /\ UNCHANGED <<scene, sent, hand, out, arrived, dropped>>
    BY DEF FromHyperwayHome, ToDriver, Recv, Top
  <1>2. c \in Calls /\ Holds(s, c)
    BY <1>1, TopTyped, TopHolds
  <1>3. /\ x \in Calls /\ x.wave = c.wave /\ x.to = c.to /\ x.op \in {"ToDriver", "Inject"}
    <2>1. CASE FromHyperwayHome(s)
      <3>1. Counted(c) \in Calls /\ Counted(c).wave = c.wave /\ Counted(c).to = c.to
        BY <1>1, <1>2, <2>1, CountedTyped
      <3>2. x = As("ToDriver", Counted(c))
        BY <2>1
      <3> QED
        BY <3>1, <3>2, AsTyped DEF Ops
    <2>2. CASE ~FromHyperwayHome(s)
      <3>1. x = As("Inject", c)
        BY <2>2
      <3> QED
        BY <1>2, <3>1, AsTyped DEF Ops
    <2> QED
      BY <2>1, <2>2
  <1>4. s # Nothing
    BY RouterAssumption
  <1> HIDE DEF x, c
  <1>5. c.to = s
    BY <1>1, <1>2 DEF Holds
  <1>6. Holds(s, x)
    BY <1>2, <1>3, <1>4, <1>5 DEF Holds
  <1>7. \A w \in sent : \A t \in Goals(w) : Splits(Top(s), {x}, w, t)
    BY <1>3, SplitsIntoOne DEF c
  <1>8. {x} \in SUBSET Calls
    BY <1>3
  <1> QED
    BY <1>1, <1>6, <1>7, <1>8, SpawnTrace

\* A call is taken in hand towards the next star, or there is no way.
LEMMA RouteTrace ==
    ASSUME TypeOK, Trace, NEW s \in Stars, calls[s] # <<>>, Took(s), hand[s] = Nothing,
           NEW c \in Calls, c.wave = Top(s).wave, c.to = Top(s).to, c.to # Nothing,
           Route(s, c), UNCHANGED <<scene, sent, pending, out, arrived>>
    PROVE  Trace'
  <1>1. CASE Hop(s, c)
    <2> DEFINE x == As("ToHyperway", c)
    <2>1. hand' = [hand EXCEPT ![s] = x] /\ UNCHANGED <<dead, dropped>>
      BY <1>1 DEF Hop
    <2>2. x \in Calls /\ x.op = "ToHyperway" /\ x.to = c.to /\ x.wave = c.wave
      BY AsTyped DEF Ops
    <2> HIDE DEF x
    <2>3. HoldsHand(s, x)
      BY <2>2, TopHolds DEF HoldsHand, Holds
    <2> QED
      BY <2>1, <2>2, <2>3, HandTrace
  <1>2. CASE NoWay(s, c)
    <2>1. Drop({c}, s, "no way") /\ UNCHANGED <<hand, dead>>
      BY <1>2 DEF NoWay
    <2> QED
      BY <2>1, DropTrace
  <1> QED
    BY <1>1, <1>2 DEF Route

\* Calls on the hyperway, onward from this star or passing through it, and the panics.
LEMMA HyperwayTrace ==
    ASSUME TypeOK, Trace, NEW s \in Stars,
           ToHyperway(s) \/ ToHyperwayPanics(s) \/ Forward(s) \/ ForwardPanics(s)
    PROVE  Trace'
  <1> DEFINE c == Top(s)
  <1>1. /\ calls[s] # <<>> /\ hand[s] = Nothing
        /\ c.op = "ToHyperway" \/ (c.op = "FromHyperway" /\ ~TooFar(c))
        /\ UNCHANGED <<scene, sent, pending, out, arrived>>
    BY DEF ToHyperway, ToHyperwayPanics, Forward, ForwardPanics, Recv, Top
  <1>2. c \in Calls /\ Holds(s, c)
    BY <1>1, TopTyped, TopHolds
  <1>3. c.to # Nothing
    BY <1>1, <1>2 DEF Holds
  <1>4. CASE ToHyperway(s)
    <2>1. Took(s) /\ Route(s, c)
      BY <1>4 DEF ToHyperway
    <2> QED
      BY <1>1, <1>2, <1>3, <2>1, RouteTrace
  <1>5. CASE Forward(s)
    <2>1. Took(s) /\ Route(s, Counted(c)) /\ ~TooFar(c)
      BY <1>5 DEF Forward
    <2>2. Counted(c) \in Calls /\ Counted(c).wave = c.wave /\ Counted(c).to = c.to
      BY <1>2, <2>1, CountedTyped
    <2> QED
      BY <1>1, <1>3, <2>1, <2>2, RouteTrace
  <1>6. CASE ToHyperwayPanics(s) \/ ForwardPanics(s)
    <2>1. /\ Panics(s, c) \/ Panics(s, Counted(c))
          /\ calls' = [calls EXCEPT ![s] = <<>>]
      BY <1>6 DEF ToHyperwayPanics, ForwardPanics
    <2> QED
      BY <1>1, <2>1, PanicTrace
  <1> QED
    BY <1>4, <1>5, <1>6

\* The call in hand goes out to the next star.
LEMMA PushHopTrace ==
    ASSUME TypeOK, Trace, NEW s \in Stars, PushHop(s)
    PROVE  Trace'
  <1> DEFINE h == hand[s]
  <1>1. /\ h # Nothing /\ h.op = "ToHyperway"
        /\ out' = [out EXCEPT ![s] = Append(@, h)]
        /\ hand' = [hand EXCEPT ![s] = Nothing]
        /\ UNCHANGED <<scene, sent, pending, calls, arrived, dropped>>
    BY DEF PushHop
  <1>2. h \in Calls /\ HoldsHand(s, h) /\ out[s] \in Seq(Calls)
    BY <1>1 DEF TypeOK, Trace, Known
  <1> HIDE DEF h
  <1>3. /\ out'[s] = Append(out[s], h) /\ hand'[s] = Nothing
        /\ \A q \in Stars : q # s => out'[q] = out[q] /\ hand'[q] = hand[q]
    BY <1>1 DEF TypeOK
  <1>4. Known'
    <2>1. In(out'[s]) = In(out[s]) \cup {h}
      BY <1>2, <1>3, AppendIn
    <2>2. h.wave \in sent /\ h.to # Nothing
      BY <1>1, <1>2 DEF HoldsHand
    <2>3. \A r \in Stars : \A c \in In(out'[r]) : c \in In(out[r]) \/ (c.wave \in sent /\ c.to # Nothing)
      BY <1>3, <2>1, <2>2
    <2>4. \A r \in Stars : hand'[r] # Nothing => hand'[r] = hand[r]
      BY <1>3
    <2> QED
      BY <1>1, <2>3, <2>4, KnownStep DEF Trace, CallsAt
  <1>5. ASSUME NEW w \in sent, NEW t \in Goals(w), Once(w, t) PROVE Once(w, t)'
    <2>1. Taken(Where(s, "hand", w, t), Where(s, "hand", w, t)', Same(h, w, t))
      BY <1>1, HandMoves DEF h
    <2>2. Put(Where(s, "out", w, t), Where(s, "out", w, t)', Same(h, w, t))
      <3>1. Where(s, "out", w, t) = Spots(out[s], w, t)
            /\ Where(s, "out", w, t)' = Spots(Append(out[s], h), w, t)
        BY <1>3 DEF Where, Spots
      <3> QED
        BY <1>2, <3>1, SpotsPut
    <2>3. \A q \in Stars, m \in Kinds :
            (q # s \/ m # "hand") /\ (q # s \/ m # "out") => Where(q, m, w, t)' = Where(q, m, w, t)
      BY <1>1, <1>3, Unmoved DEF Kinds
    <2> QED
      BY <1>5, <2>1, <2>2, <2>3, Moved DEF Kinds
  <1> QED
    BY <1>1, <1>4, <1>5, TraceStep

\* A hop gets to the other end of a hyperway, or is lost there.
LEMMA TravelTrace ==
    ASSUME TypeOK, Trace, NEW s \in Stars, Travel(s) \/ Lose(s)
    PROVE  Trace'
  <1> DEFINE c == Head(out[s])
             d == As("FromHyperway", c)
  <1>1. /\ out[s] # <<>> /\ out' = [out EXCEPT ![s] = Tail(@)]
        /\ UNCHANGED <<scene, sent, calls, hand, arrived>>
    BY DEF Travel, Lose
  <1>2. out[s] \in Seq(Calls) /\ c \in Calls /\ c \in In(out[s])
        /\ \A r \in Stars : In(out'[r]) \subseteq In(out[r])
    BY <1>1, OutTaken DEF TypeOK
  <1>3. d \in Calls /\ d.op = "FromHyperway" /\ d.wave = c.wave /\ d.to = c.to
    BY <1>2, AsTyped DEF Ops
  <1>4. c.wave \in sent /\ c.to # Nothing
    BY <1>2 DEF Trace, Known
  <1>5. out'[s] = Tail(out[s]) /\ \A q \in Stars : q # s => out'[q] = out[q]
    BY <1>1 DEF TypeOK
  <1>6. ASSUME NEW w, NEW t
        PROVE  Taken(Where(s, "out", w, t), Where(s, "out", w, t)', Same(c, w, t))
    <2>1. Where(s, "out", w, t) = Spots(out[s], w, t)
          /\ Where(s, "out", w, t)' = Spots(Tail(out[s]), w, t)
      BY <1>5 DEF Where, Spots
    <2> QED
      BY <1>1, <1>2, <2>1, SpotsTaken
  <1> HIDE DEF c, d
  <1>7. CASE Travel(s)
    <2>1. PICK r \in Towards(s, c.to) : pending' = [pending EXCEPT ![r] = @ \cup {d}]
      BY <1>7 DEF Travel, c, d
    <2>2. r \in Stars /\ dropped' = dropped
      BY <1>7, TowardsTyped DEF Travel
    <2>3. Holds(r, d)
      BY <1>3, <1>4 DEF Holds
    <2>4. pending'[r] = pending[r] \cup {d} /\ \A q \in Stars : q # r => pending'[q] = pending[q]
      BY <2>1, <2>2 DEF TypeOK
    <2>5. Known'
      <3>1. \A q \in Stars : \A x \in pending'[q] \cup In(calls'[q]) : x \in CallsAt(q) \/ Holds(q, x)
        BY <1>1, <2>3, <2>4 DEF CallsAt
      <3> QED
        BY <1>1, <1>2, <2>2, <3>1, KnownStep DEF Trace
    <2>6. ASSUME NEW w \in sent, NEW t \in Goals(w), Once(w, t) PROVE Once(w, t)'
      <3>1. Splits(c, {d}, w, t)
        BY <1>3, SplitsIntoOne
      <3>2. Put(Where(r, "task", w, t), Where(r, "task", w, t)', Same(c, w, t))
        BY <2>1, <2>2, <3>1, SpawnMoves
      <3>3. \A q \in Stars, m \in Kinds :
              (q # s \/ m # "out") /\ (q # r \/ m # "task") => Where(q, m, w, t)' = Where(q, m, w, t)
        BY <1>1, <1>5, <2>2, <2>4, Unmoved DEF Kinds
      <3> QED
        BY <1>6, <2>2, <2>6, <3>2, <3>3, Moved DEF Kinds
    <2> QED
      BY <1>1, <2>5, <2>6, TraceStep
  <1>8. CASE Lose(s)
    <2>1. Drop({c}, s, "lost") /\ pending' = pending
      BY <1>8 DEF Lose, c
    <2>2. \A x \in dropped' : x \in dropped \/ x.call.wave \in sent
      BY <1>4, <2>1 DEF Drop
    <2>3. Known'
      BY <1>1, <1>2, <2>1, <2>2, KnownStep DEF Trace, CallsAt
    <2>4. ASSUME NEW w \in sent, NEW t \in Goals(w), Once(w, t) PROVE Once(w, t)'
      <3>1. Put(Where(s, "dropped", w, t), Where(s, "dropped", w, t)', Same(c, w, t))
        BY <2>1, DropMoves
      <3>2. ASSUME NEW q \in Stars, q # s
            PROVE  Where(q, "dropped", w, t)' = Where(q, "dropped", w, t)
        BY <2>1, <3>2, DroppedHere
      <3>3. \A q \in Stars, m \in Kinds :
              (q # s \/ m # "out") /\ (q # s \/ m # "dropped") => Where(q, m, w, t)' = Where(q, m, w, t)
        BY <1>1, <1>5, <2>1, <3>2, Unmoved DEF Kinds
      <3> QED
        BY <1>6, <2>4, <3>1, <3>3, Moved DEF Kinds
    <2> QED
      BY <1>1, <2>3, <2>4, TraceStep
  <1> QED
    BY <1>7, <1>8

\* At first no wave was sent.
LEMMA InitTrace == Init => Trace
  <1> SUFFICES ASSUME Init PROVE Trace
    OBVIOUS
  <1>1. \A s \in Stars : CallsAt(s) = {} /\ In(out[s]) = {} /\ hand[s] = Nothing
    BY EmptyIn DEF Init, CallsAt
  <1> QED
    BY <1>1 DEF Init, Trace, Known, Traced

\* Every step leaves each wave that was sent in one place, for each star it is for.
LEMMA NextTrace == IInv /\ Trace /\ [Next]_vars => Trace'
  <1> SUFFICES ASSUME IInv, TypeOK, Trace, [Next]_vars PROVE Trace'
    BY DEF IInv
  <1>1. ASSUME NEW w \in Waves, Send(w) PROVE Trace'
    BY <1>1, SendTrace
  <1>2. ASSUME NEW s \in Stars, Enqueue(s) \/ EnqueueFails(s) \/ Travel(s) \/ Lose(s) PROVE Trace'
    BY <1>2, EnqueueTrace, EnqueueFailsTrace, TravelTrace
  <1>3. ASSUME NEW s \in Stars, Loop(s) PROVE Trace'
    <2>1. CASE InjectOutward(s) \/ InjectInward(s) \/ GlobalExec(s)
      BY <2>1, InjectTrace
    <2>2. CASE ToGravity(s) \/ PushShard(s) \/ Shard(s)
      BY <2>2, ToGravityTrace, PushShardTrace, ShardTrace
    <2>3. CASE LocateFails(s) \/ FromHyperwayExceeded(s)
      BY <2>3, GiveUpTrace
    <2>4. CASE ToDriver(s) \/ FromHyperwayHome(s)
      BY <2>4, HomeTrace
    <2>5. CASE ToHyperway(s) \/ ToHyperwayPanics(s) \/ Forward(s) \/ ForwardPanics(s)
      BY <2>5, HyperwayTrace
    <2>6. CASE PushHop(s)
      BY <2>6, PushHopTrace
    <2> QED
      BY <1>3, <2>1, <2>2, <2>3, <2>4, <2>5, <2>6 DEF Loop
  <1>4. CASE UNCHANGED vars
    <2>1. \A w, t : \A q \in Stars, m \in Kinds : Where(q, m, w, t)' = Where(q, m, w, t)
      BY <1>4, Unmoved DEF vars, Kinds
    <2>2. \A w, t : Once(w, t) => Once(w, t)'
      BY <2>1 DEF Once
    <2>3. Known'
      BY <1>4, KnownStep DEF vars, CallsAt, Trace
    <2> QED
      BY <1>4, <2>2, <2>3, TraceStep DEF vars
  <1> QED
    BY <1>1, <1>2, <1>3, <1>4 DEF Next

\* For each star that a wave concerns it is in exactly one place from when it is sent: no
\* handler, task, channel or hyperway loses it without saying so, or has it twice.
THEOREM WavesAccounted == Spec => []Accounted
  <1>1. Trace => Accounted
    BY OnceMeans DEF Trace, Traced, Accounted
  <1> QED
    BY <1>1, Invariant, InitTrace, NextTrace, PTL DEF Spec
=============================================================================
