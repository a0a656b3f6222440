---------------------------- MODULE SearchProofs ----------------------------
(***************************************************************************)
(* Theorems about Search for any stars, webs, rounds and faults.  What     *)
(* carries the second one is that an asking is a way from the wrangling    *)
(* star, that whoever asks on forwards, and that discoveries are made by   *)
(* stars at the end of a way, which for that reason are not the wrangling  *)
(* one.  What carries the third is that an asker knows, for the stars that *)
(* have answered it, the count of the ways that go on by them.             *)
(***************************************************************************)
EXTENDS Search, FiniteSetTheorems, SequenceTheorems, TLAPS

Echoes == [of : Askings, found : Discoveries]

\* The last element of a sequence.
LEMMA LastOf ==
    ASSUME NEW S, NEW s \in Seq(S), s # <<>>
    PROVE  Last(s) = s[Len(s)] /\ Last(s) \in S
  BY DEF Last

\* Who is in a path.
LEMMA RangeOf ==
    ASSUME NEW S, NEW s \in Seq(S)
    PROVE  \A x : x \in Range(s) <=> \E i \in 1..Len(s) : s[i] = x
  BY DEF Range

\* No star twice.
LEMMA InjectiveOf ==
    ASSUME NEW S, NEW s \in Seq(S)
    PROVE  IsInjective(s) <=> \A i, j \in 1..Len(s) : s[i] = s[j] => i = j
  BY DEF IsInjective

-----------------------------------------------------------------------------
(* Types.                                                                  *)

\* Whoever is asked is a star, and there are finitely many.
LEMMA ToAskType ==
    ASSUME TypeOK, NEW a \in Askings, a.path # <<>>
    PROVE  ToAsk(a) \subseteq Stars /\ Cardinality(ToAsk(a)) \in Nat
  <1>1. Star(a) \in Stars
    BY LastOf DEF Askings, Star
  <1>2. web \in WebType
    BY SearchAssumption DEF TypeOK
  <1>3. ToAsk(a) \subseteq Stars
    BY <1>1, <1>2 DEF ToAsk, WebType
  <1> QED
    BY <1>3, SearchAssumption, FS_Subset, FS_CardinalityType

\* What an asker sends and waits for is well typed.
LEMMA AskType ==
    ASSUME TypeOK, NEW a \in Askings, a.path # <<>>, NEW rest \in SUBSET Askings, Ask(a, rest)
    PROVE  /\ shards' \subseteq Askings
           /\ DOMAIN asking' \subseteq Askings
           /\ \A b \in DOMAIN asking' : asking'[b] \in [left : Nat, found : Discoveries]
  <1>1. ToAsk(a) \subseteq Stars /\ Cardinality(ToAsk(a)) \in Nat
    BY ToAskType
  <1>2. Shards(a) \subseteq Askings
    BY <1>1 DEF Shards, Asking, Askings
  <1>3. Nothing \in Discoveries
    BY DEF Nothing, Discoveries
  <1>4. [left |-> Cardinality(ToAsk(a)), found |-> Nothing] \in [left : Nat, found : Discoveries]
    BY <1>1, <1>3
  <1> QED
    BY <1>2, <1>4 DEF Ask, TypeOK

\* A star that adds itself still counts.
LEMMA WithOwnType ==
    ASSUME NEW d \in Discoveries, NEW s \in Stars
    PROVE  WithOwn(d, s) \in Discoveries
  <1>1. d \in [Stars -> Nat] /\ d[s] + 1 \in Nat
    BY DEF Discoveries
  <1>2. [d EXCEPT ![s] = @ + 1] \in [Stars -> Nat]
    BY <1>1
  <1> QED
    BY <1>1, <1>2 DEF WithOwn, Discoveries

\* What a star reflects, or the round results in, is well typed.
LEMMA FinishType ==
    ASSUME TypeOK, NEW a \in Askings, a.path # <<>>, NEW d \in Discoveries,
           NEW rest \in SUBSET Echoes, Finish(a, d, rest)
    PROVE  /\ echoes' \subseteq Echoes
           /\ DOMAIN result' \subseteq Rounds
           /\ \A r \in DOMAIN result' : result'[r] \in Discoveries
  <1>1. WithOwn(d, Star(a)) \in Discoveries
    BY LastOf, WithOwnType DEF Askings, Star
  <1>2. [of |-> a, found |-> WithOwn(d, Star(a))] \in Echoes
    BY <1>1 DEF Echoes
  <1>3. a.round \in Rounds
    BY DEF Askings
  <1>4. CASE a = Whole(a.round)
    <2>1. result' = [r \in DOMAIN result \cup {a.round} |-> IF r = a.round THEN d ELSE result[r]]
      BY <1>4 DEF Finish
    <2>2. DOMAIN result' = DOMAIN result \cup {a.round}
      BY <2>1
    <2>3. \A r \in DOMAIN result' : result'[r] = IF r = a.round THEN d ELSE result[r]
      BY <2>1
    <2>4. DOMAIN result \subseteq Rounds /\ \A r \in DOMAIN result : result[r] \in Discoveries
      BY DEF TypeOK
    <2>5. echoes' = rest
      BY <1>4 DEF Finish
    <2> QED
      BY <1>3, <2>2, <2>3, <2>4, <2>5
  <1>5. CASE a # Whole(a.round)
    BY <1>2, <1>5 DEF Finish, TypeOK
  <1> QED
    BY <1>4, <1>5

\* The counts of two echoes add up to counts.
LEMMA JoinType ==
    ASSUME NEW d \in Discoveries, NEW e \in Discoveries
    PROVE  Join(d, e) \in Discoveries
  BY DEF Join, Discoveries

\* Taking away an asker leaves the others as they are.
LEMMA LessType ==
    ASSUME TypeOK, NEW a, asking' = [b \in DOMAIN asking \ {a} |-> asking[b]]
    PROVE  /\ DOMAIN asking' \subseteq Askings
           /\ \A b \in DOMAIN asking' : asking'[b] \in [left : Nat, found : Discoveries]
  BY DEF TypeOK

LEMMA InitTypeOK == Init => TypeOK
  <1> SUFFICES ASSUME Init PROVE TypeOK
    OBVIOUS
  <1>1. DOMAIN asking = {} /\ DOMAIN result = {}
    BY DEF Init
  <1> QED
    BY <1>1, SearchAssumption DEF Init, TypeOK

\* All askings begin with the wrangling star, so none is empty.
Headed == \A a \in shards \cup DOMAIN asking : a.path # <<>>

LEMMA NextTypeOK == TypeOK /\ Headed /\ [Next]_vars => TypeOK'
  <1> SUFFICES ASSUME TypeOK, Headed, [Next]_vars PROVE TypeOK'
    OBVIOUS
  <1> USE DEF Echoes
  <1>n. Nothing \in Discoveries
    BY DEF Nothing, Discoveries
  <1>1. CASE StartRound
    <2>1. round + 1 \in Rounds
      BY <1>1, SearchAssumption DEF StartRound, TypeOK, Rounds
    <2>2. Whole(round') \in Askings /\ Whole(round').path # <<>>
      <3>1. web.root \in Stars
        BY SearchAssumption DEF TypeOK, WebType
      <3>2. <<web.root>> \in Seq(Stars) /\ <<web.root>> # <<>>
        BY <3>1
      <3>3. round' = round + 1
        BY <1>1 DEF StartRound
      <3> QED
        BY <2>1, <3>2, <3>3 DEF Whole, Asking, Askings
    <2>3. echoes' \subseteq Echoes /\ DOMAIN result' \subseteq Rounds
          /\ \A r \in DOMAIN result' : result'[r] \in Discoveries
      BY <1>1, <1>n, <2>2, FinishType DEF StartRound, TypeOK
    <2>4. /\ shards' \subseteq Askings
          /\ DOMAIN asking' \subseteq Askings
          /\ \A b \in DOMAIN asking' : asking'[b] \in [left : Nat, found : Discoveries]
      BY <1>1, <2>2, AskType DEF StartRound, TypeOK
    <2> QED
      BY <1>1, <2>1, <2>3, <2>4 DEF StartRound, TypeOK, Rounds
  <1>2. ASSUME NEW a \in shards, Forward(a) PROVE TypeOK'
    <2>1. a \in Askings /\ a.path # <<>>
      BY DEF TypeOK, Headed
    <2>2. /\ shards' \subseteq Askings
          /\ DOMAIN asking' \subseteq Askings
          /\ \A b \in DOMAIN asking' : asking'[b] \in [left : Nat, found : Discoveries]
      BY <1>2, <2>1, AskType DEF Forward, TypeOK
    <2> QED
      BY <1>2, <2>2 DEF Forward, TypeOK
  <1>3. ASSUME NEW a \in shards, Answer(a) PROVE TypeOK'
    <2>1. a \in Askings /\ a.path # <<>>
      BY DEF TypeOK, Headed
    <2>2. echoes' \subseteq Echoes /\ DOMAIN result' \subseteq Rounds
          /\ \A r \in DOMAIN result' : result'[r] \in Discoveries
      BY <1>3, <1>n, <2>1, FinishType DEF Answer, TypeOK
    <2> QED
      BY <1>3, <2>2 DEF Answer, TypeOK
  <1>4. ASSUME NEW a \in shards, AnswerFails(a) PROVE TypeOK'
    <2>1. [of |-> a, found |-> Nothing] \in Echoes
      BY <1>n DEF TypeOK
    <2>2. <<"failed", a.round>> \in {"lost", "failed", "slow"} \X Rounds
      BY DEF TypeOK, Askings
    <2> QED
      BY <1>4, <2>1, <2>2 DEF AnswerFails, Fault, TypeOK
  <1>5. ASSUME NEW e \in echoes, Collect(e) PROVE TypeOK'
    <2> DEFINE a == Parent(e.of)
               d == Join(asking[a].found, e.found)
    <2>1. a \in DOMAIN asking /\ a \in Askings /\ a.path # <<>>
      BY <1>5 DEF Collect, TypeOK, Headed
    <2>2. d \in Discoveries
      BY <2>1, JoinType DEF TypeOK
    <2> HIDE DEF a, d
    <2>3. /\ DOMAIN asking' \subseteq Askings
          /\ \A b \in DOMAIN asking' : asking'[b] \in [left : Nat, found : Discoveries]
      <3>1. CASE asking[a].left > 1
        <4>1. asking' = [asking EXCEPT ![a] = [left |-> @.left - 1, found |-> d]]
          BY <1>5, <3>1 DEF Collect, a, d
        <4>2. asking[a].left - 1 \in Nat
          BY <2>1, <3>1 DEF TypeOK
        <4> QED
          BY <2>1, <2>2, <4>1, <4>2 DEF TypeOK
      <3>2. CASE ~(asking[a].left > 1)
        <4>1. asking' = [b \in DOMAIN asking \ {a} |-> asking[b]]
          BY <1>5, <3>2 DEF Collect, a, d
        <4> QED
          BY <4>1, LessType
      <3> QED
        BY <3>1, <3>2
    <2>4. /\ echoes' \subseteq Echoes /\ DOMAIN result' \subseteq Rounds
          /\ \A r \in DOMAIN result' : result'[r] \in Discoveries
          /\ faults' \subseteq {"lost", "failed", "slow"} \X Rounds
      <3>1. CASE UNCHANGED <<result, faults>> /\ echoes' = echoes \ {e}
        BY <3>1 DEF TypeOK
      <3>2. CASE Finish(a, d, echoes \ {e}) /\ UNCHANGED faults
        <4>1. echoes \ {e} \in SUBSET Echoes
          BY DEF TypeOK
        <4> QED
          BY <2>1, <2>2, <3>2, <4>1, FinishType DEF TypeOK
      <3>3. CASE /\ Fault("failed", a.round)
                 /\ echoes' = (echoes \ {e}) \cup {[of |-> a, found |-> Nothing]}
                 /\ UNCHANGED result
        <4>1. [of |-> a, found |-> Nothing] \in Echoes
          BY <1>n, <2>1
        <4>2. <<"failed", a.round>> \in {"lost", "failed", "slow"} \X Rounds
          BY <2>1 DEF Askings
        <4> QED
          BY <3>3, <4>1, <4>2 DEF Fault, TypeOK
      <3> QED
        BY <1>5, <3>1, <3>2, <3>3 DEF Collect, a, d
    <2> QED
      BY <1>5, <2>3, <2>4 DEF Collect, TypeOK
  <1>6. ASSUME NEW e \in echoes, Refuse(e) PROVE TypeOK'
    BY <1>6 DEF Refuse, TypeOK
  <1>7. CASE Lose
    <2>1. \A a \in shards \cup {e.of : e \in echoes} :
            <<"lost", a.round>> \in {"lost", "failed", "slow"} \X Rounds
      BY DEF TypeOK, Askings
    <2> QED
      BY <1>7, <2>1 DEF Lose, Fault, TypeOK
  <1>8. ASSUME NEW r \in Rounds, Deadline(r) PROVE TypeOK'
    BY <1>8 DEF Deadline, TypeOK
  <1>9. ASSUME NEW a \in DOMAIN asking, Timeout(a) PROVE TypeOK'
    <2>1. a \in Askings /\ a.path # <<>>
      BY DEF TypeOK, Headed
    <2>2. echoes' \subseteq Echoes /\ DOMAIN result' \subseteq Rounds
          /\ \A r \in DOMAIN result' : result'[r] \in Discoveries
      BY <1>9, <1>n, <2>1, FinishType DEF Timeout, TypeOK
    <2>3. /\ DOMAIN asking' \subseteq Askings
          /\ \A b \in DOMAIN asking' : asking'[b] \in [left : Nat, found : Discoveries]
      BY <1>9, LessType DEF Timeout
    <2> QED
      BY <1>9, <2>2, <2>3 DEF Timeout, TypeOK
  <1>10. CASE Accept \/ GiveUp
    <2>1. loop = "wait" /\ <<"slow", round>> \in {"lost", "failed", "slow"} \X Rounds
      BY <1>10 DEF Accept, GiveUp, TypeOK
    <2> QED
      BY <1>10, <2>1 DEF Accept, GiveUp, Fault, TypeOK
  <1>11. CASE UNCHANGED vars
    BY <1>11 DEF vars, TypeOK
  <1> QED
    BY <1>1, <1>2, <1>3, <1>4, <1>5, <1>6, <1>7, <1>8, <1>9, <1>10, <1>11 DEF Next, Go

-----------------------------------------------------------------------------
(* Ways.                                                                   *)

\* What was found by way of the hosts alone, and not by the wrangling star.
Hosted(d) == \A s \in Stars : d[s] > 0 => s \in web.hosts \ {web.root}

\* Askings are ways, whoever asked on forwards, only the wrangling star asks unasked.
Walks == \A a \in shards \cup DOMAIN asking \cup {e.of : e \in echoes} : Way(a.path)
Forwards == \A a \in DOMAIN asking : a.path = <<web.root>> \/ Star(a) \in web.forwarders
Asked == \A a \in shards \cup {e.of : e \in echoes} : a.path # <<web.root>>
Found ==
    /\ \A a \in DOMAIN asking : Hosted(asking[a].found)
    /\ \A e \in echoes : Hosted(e.found)
    /\ \A r \in DOMAIN result : Hosted(result[r])

IInv == TypeOK /\ Walks /\ Forwards /\ Asked /\ Found

LEMMA WalksHeaded == Walks => Headed
  BY DEF Walks, Headed, Way

\* The way of length one.
LEMMA WayBegins ==
    ASSUME TypeOK
    PROVE  Way(<<web.root>>)
  <1> DEFINE p == <<web.root>>
  <1>1. p # <<>> /\ p[1] = web.root /\ Len(p) = 1
    OBVIOUS
  <1>2. DOMAIN p = 1..1
    OBVIOUS
  <1>3. IsInjective(p)
    BY <1>2 DEF IsInjective
  <1> HIDE DEF p
  <1>4. Way(p)
    BY <1>1, <1>3 DEF Way
  <1> QED
    BY <1>4 DEF p

\* A way goes on to each star that its last one asks.
LEMMA WayGrows ==
    ASSUME TypeOK, NEW a \in Askings, Way(a.path), NEW s \in ToAsk(a),
           a.path = <<web.root>> \/ Star(a) \in web.forwarders
    PROVE  Way(Append(a.path, s)) /\ Append(a.path, s) # <<web.root>>
  <1> DEFINE p == a.path
             q == Append(p, s)
             n == Len(p)
  <1>1. p \in Seq(Stars) /\ p # <<>> /\ n \in Nat /\ n >= 1
    BY DEF Askings, Way
  <1>2. s \in Stars
    BY <1>1, ToAskType
  <1>3. q \in Seq(Stars) /\ Len(q) = n + 1 /\ q[n + 1] = s /\ \A i \in 1..n : q[i] = p[i]
    BY <1>1, <1>2
  <1>4. Star(a) = p[n]
    BY <1>1, LastOf DEF Star
  <1>5. s \in web.adjacents[p[n]] /\ \A i \in 1..n : p[i] # s
    BY <1>1, <1>4, RangeOf DEF ToAsk
  <1>6. n = 1 \/ p[n] \in web.forwarders
    <2>1. Len(<<web.root>>) = 1
      OBVIOUS
    <2> QED
      BY <1>4, <2>1
  <1>7. /\ p[1] = web.root
        /\ \A i, j \in 1..n : p[i] = p[j] => i = j
        /\ \A i \in 1..n - 1 : p[i + 1] \in web.adjacents[p[i]]
        /\ \A i \in 2..n - 1 : p[i] \in web.forwarders
    BY <1>1, InjectiveOf DEF Way
  <1> HIDE DEF p, q, n
  <1>8. q # <<>> /\ q[1] = web.root /\ q # <<web.root>>
    <2>1. Len(<<web.root>>) = 1 /\ Len(<<>>) = 0
      OBVIOUS
    <2>2. Len(q) # 0 /\ Len(q) # 1
      BY <1>1, <1>3
    <2>3. q[1] = web.root
      BY <1>1, <1>3, <1>7
    <2> QED
      BY <2>1, <2>2, <2>3
  <1>9. IsInjective(q)
    <2>1. \A i, j \in 1..n + 1 : q[i] = q[j] => i = j
      <3> SUFFICES ASSUME NEW i \in 1..n + 1, NEW j \in 1..n + 1, q[i] = q[j] PROVE i = j
        OBVIOUS
      <3>1. CASE i \in 1..n /\ j \in 1..n
        BY <1>3, <1>7, <3>1
      <3>2. CASE i = n + 1 /\ j \in 1..n
        BY <1>3, <1>5, <3>2
      <3>3. CASE i \in 1..n /\ j = n + 1
        BY <1>3, <1>5, <3>3
      <3> QED
        BY <1>1, <3>1, <3>2, <3>3
    <2> QED
      BY <1>3, <2>1, InjectiveOf
  <1>10. \A i \in 1..Len(q) - 1 : q[i + 1] \in web.adjacents[q[i]]
    <2> SUFFICES ASSUME NEW i \in 1..n PROVE q[i + 1] \in web.adjacents[q[i]]
      BY <1>1, <1>3
    <2>1. CASE i = n
      BY <1>1, <1>3, <1>5, <2>1
    <2>2. CASE i # n
      <3>1. i \in 1..n - 1 /\ i + 1 \in 1..n
        BY <1>1, <2>2
      <3> QED
        BY <1>3, <1>7, <3>1
    <2> QED
      BY <2>1, <2>2
  <1>11. \A i \in 2..Len(q) - 1 : q[i] \in web.forwarders
    <2> SUFFICES ASSUME NEW i \in 2..n PROVE q[i] \in web.forwarders
      BY <1>1, <1>3
    <2>1. CASE i = n
      BY <1>1, <1>3, <1>6, <2>1
    <2>2. CASE i # n
      <3>1. i \in 2..n - 1 /\ i \in 1..n
        BY <1>1, <2>2
      <3> QED
        BY <1>3, <1>7, <3>1
    <2> QED
      BY <2>1, <2>2
  <1>12. Way(q)
    BY <1>8, <1>9, <1>10, <1>11 DEF Way
  <1> QED
    BY <1>8, <1>12 DEF q, p

\* A way that goes anywhere ends elsewhere.
LEMMA WayEnds ==
    ASSUME NEW p \in Seq(Stars), Way(p), p # <<web.root>>
    PROVE  Last(p) # web.root
  <1>1. Last(p) = p[Len(p)] /\ p[1] = web.root /\ p # <<>>
    BY LastOf DEF Way
  <1>2. \A i, j \in 1..Len(p) : p[i] = p[j] => i = j
    BY InjectiveOf DEF Way
  <1>3. Len(p) # 1
    BY <1>1
  <1>4. 1 \in 1..Len(p) /\ Len(p) \in 1..Len(p)
    BY <1>1
  <1> QED
    BY <1>1, <1>2, <1>3, <1>4

\* The web stays as it is, and with it what a way is.
LEMMA WayStays ==
    ASSUME web' = web
    PROVE  /\ \A p : Way(p)' <=> Way(p)
           /\ \A d : Hosted(d)' <=> Hosted(d)
           /\ \A a : Star(a)' = Star(a)
  BY DEF Way, Hosted, Star

LEMMA WebStays == [Next]_vars => web' = web
  BY DEF Next, Go, StartRound, Accept, GiveUp, Forward, Answer, AnswerFails, Collect, Refuse,
         Lose, Deadline, Timeout, vars

\* Ends of ways are not the wrangling star, so what a star adds to what it was told is hosted
\* elsewhere.
LEMMA WithOwnHosted ==
    ASSUME TypeOK, NEW d \in Discoveries, Hosted(d), NEW a \in Askings, Way(a.path),
           a.path # <<web.root>>
    PROVE  Hosted(WithOwn(d, Star(a)))
  <1>1. Star(a) \in Stars /\ Star(a) # web.root
    BY LastOf, WayEnds DEF Askings, Star, Way
  <1>2. CASE Star(a) \in web.hosts
    <2>1. WithOwn(d, Star(a)) = [d EXCEPT ![Star(a)] = @ + 1] /\ d \in [Stars -> Nat]
      BY <1>2 DEF WithOwn, Discoveries
    <2>2. \A s \in Stars : WithOwn(d, Star(a))[s] > 0 => d[s] > 0 \/ s = Star(a)
      BY <1>1, <2>1
    <2> QED
      BY <1>1, <1>2, <2>2 DEF Hosted
  <1>3. CASE Star(a) \notin web.hosts
    BY <1>3 DEF WithOwn
  <1> QED
    BY <1>2, <1>3

LEMMA JoinHosted ==
    ASSUME NEW d \in Discoveries, NEW e \in Discoveries, Hosted(d), Hosted(e)
    PROVE  Hosted(Join(d, e))
  <1>1. \A s \in Stars : Join(d, e)[s] > 0 => d[s] > 0 \/ e[s] > 0
    BY DEF Join, Discoveries
  <1> QED
    BY <1>1 DEF Hosted

LEMMA NothingHosted == Nothing \in Discoveries /\ Hosted(Nothing)
  BY DEF Nothing, Discoveries, Hosted

\* Asking on keeps all of it.
LEMMA AskSteps ==
    ASSUME IInv, NEW a \in Askings, Way(a.path), NEW rest \in SUBSET shards,
           a.path = <<web.root>> \/ Star(a) \in web.forwarders,
           Ask(a, rest), web' = web, echoes' = echoes, result' = result
    PROVE  (Walks /\ Forwards /\ Asked /\ Found)'
  <1>1. a.path # <<>>
    BY DEF Way
  <1>2. \A b \in Shards(a) : Way(b.path) /\ b.path # <<web.root>>
    <2> SUFFICES ASSUME NEW b \in Shards(a)
                 PROVE  Way(b.path) /\ b.path # <<web.root>>
      OBVIOUS
    <2>1. PICK s \in ToAsk(a) : b = Asking(a.round, Append(a.path, s))
      BY DEF Shards
    <2>2. b.path = Append(a.path, s)
      BY <2>1 DEF Asking
    <2> QED
      BY <2>2, WayGrows DEF IInv
  <1>3. shards' = rest \cup Shards(a) /\ DOMAIN asking' = DOMAIN asking \cup {a}
    BY DEF Ask
  <1>4. \A b \in DOMAIN asking' :
           IF b = a THEN asking'[b].found = Nothing ELSE asking'[b] = asking[b]
    BY DEF Ask
  <1>5. Walks'
    BY <1>2, <1>3, WayStays DEF Walks, IInv
  <1>6. Forwards'
    BY <1>3, WayStays DEF Forwards, IInv
  <1>7. Asked'
    BY <1>2, <1>3 DEF Asked, IInv
  <1>8. Found'
    BY <1>3, <1>4, NothingHosted, WayStays DEF Found, IInv
  <1> QED
    BY <1>5, <1>6, <1>7, <1>8

\* So does finishing, for an asker whose discoveries are hosted.
LEMMA FinishSteps ==
    ASSUME IInv, NEW a \in Askings, Way(a.path), NEW d \in Discoveries, Hosted(d),
           NEW rest \in SUBSET echoes, Finish(a, d, rest), web' = web
    PROVE  /\ \A e \in echoes' :
                Way(e.of.path) /\ e.of.path # <<web.root>> /\ Hosted(e.found)
           /\ \A r \in DOMAIN result' : Hosted(result'[r])
  <1>1. CASE a = Whole(a.round)
    <2>1. echoes' = rest
      BY <1>1 DEF Finish
    <2>2. \A r \in DOMAIN result' :
             result'[r] = d \/ (r \in DOMAIN result /\ result'[r] = result[r])
      <3>1. result' = [r \in DOMAIN result \cup {a.round} |->
                         IF r = a.round THEN d ELSE result[r]]
        BY <1>1 DEF Finish
      <3> QED
        BY <3>1
    <2> QED
      BY <2>1, <2>2, WayStays DEF IInv, Walks, Asked, Found
  <1>2. CASE a # Whole(a.round)
    <2>1. a.path # <<web.root>>
      BY <1>2 DEF Whole, Asking, Askings
    <2>2. echoes' = rest \cup {[of |-> a, found |-> WithOwn(d, Star(a))]} /\ result' = result
      BY <1>2 DEF Finish
    <2>3. Hosted(WithOwn(d, Star(a)))
      BY <2>1, WithOwnHosted DEF IInv
    <2> QED
      BY <2>1, <2>2, <2>3, WayStays DEF IInv, Walks, Asked, Found
  <1> QED
    BY <1>1, <1>2

\* Askers only leave.
LEMMA LessSteps ==
    ASSUME IInv, web' = web, DOMAIN asking' \subseteq DOMAIN asking,
           \A b \in DOMAIN asking' : Hosted(asking'[b].found),
           shards' \subseteq shards,
           \A e \in echoes' :
              Way(e.of.path) /\ e.of.path # <<web.root>> /\ Hosted(e.found),
           \A r \in DOMAIN result' : Hosted(result'[r])
    PROVE  (Walks /\ Forwards /\ Asked /\ Found)'
  <1>1. Walks'
    BY WayStays DEF IInv, Walks
  <1>2. Forwards'
    BY WayStays DEF IInv, Forwards
  <1>3. Asked'
    BY DEF IInv, Asked
  <1>4. Found'
    BY WayStays DEF IInv, Found
  <1> QED
    BY <1>1, <1>2, <1>3, <1>4

LEMMA InitIInv == Init => IInv
  <1> SUFFICES ASSUME Init PROVE IInv
    OBVIOUS
  <1>1. TypeOK
    BY InitTypeOK
  <1>2. shards = {} /\ DOMAIN asking = {} /\ echoes = {} /\ DOMAIN result = {}
    BY DEF Init
  <1> QED
    BY <1>1, <1>2 DEF IInv, Walks, Forwards, Asked, Found

LEMMA NextIInv == IInv /\ [Next]_vars => IInv'
  <1> SUFFICES ASSUME IInv, [Next]_vars PROVE IInv'
    OBVIOUS
  <1>t. TypeOK' /\ web' = web
    BY WalksHeaded, NextTypeOK, WebStays DEF IInv
  <1>n. Nothing \in Discoveries /\ Hosted(Nothing)
    BY NothingHosted
  <1>e. \A e \in echoes : Way(e.of.path) /\ e.of.path # <<web.root>> /\ Hosted(e.found)
    BY <1>t, WayStays DEF IInv, Walks, Asked, Found
  <1>r. \A r \in DOMAIN result : Hosted(result[r])
    BY <1>t, WayStays DEF IInv, Found
  <1>s. \A b \in DOMAIN asking : Hosted(asking[b].found)
    BY DEF IInv, Found
  <1> SUFFICES (Walks /\ Forwards /\ Asked /\ Found)'
    BY <1>t DEF IInv
  <1>1. CASE StartRound
    <2> DEFINE a == Whole(round')
    <2>1. a \in Askings /\ a.path = <<web.root>> /\ Way(a.path)
      <3>1. round' = round + 1 /\ round + 1 \in Rounds
        BY <1>1, SearchAssumption DEF StartRound, IInv, TypeOK, Rounds
      <3>2. <<web.root>> \in Seq(Stars)
        BY SearchAssumption DEF IInv, TypeOK, WebType
      <3>3. Way(<<web.root>>)
        BY WayBegins DEF IInv
      <3> QED
        BY <3>1, <3>2, <3>3 DEF Whole, Asking, Askings
    <2> HIDE DEF a
    <2>2. CASE Ask(a, shards) /\ UNCHANGED <<result, echoes>>
      BY <1>t, <2>1, <2>2, AskSteps
    <2>3. CASE Finish(a, Nothing, echoes) /\ UNCHANGED <<asking, shards>>
      <3>1. /\ \A e \in echoes' :
                  Way(e.of.path) /\ e.of.path # <<web.root>> /\ Hosted(e.found)
            /\ \A r \in DOMAIN result' : Hosted(result'[r])
        BY <1>t, <1>n, <2>1, <2>3, FinishSteps
      <3> QED
        BY <1>t, <1>s, <2>3, <3>1, LessSteps
    <2> QED
      BY <1>1, <2>2, <2>3 DEF StartRound, a
  <1>2. ASSUME NEW a \in shards, Forward(a) PROVE (Walks /\ Forwards /\ Asked /\ Found)'
    <2>1. a \in Askings /\ Way(a.path)
      BY DEF IInv, TypeOK, Walks
    <2> QED
      BY <1>2, <1>t, <2>1, AskSteps DEF Forward
  <1>3. ASSUME NEW a \in shards, Answer(a) PROVE (Walks /\ Forwards /\ Asked /\ Found)'
    <2>1. a \in Askings /\ Way(a.path)
      BY DEF IInv, TypeOK, Walks
    <2>2. /\ \A e \in echoes' :
                Way(e.of.path) /\ e.of.path # <<web.root>> /\ Hosted(e.found)
          /\ \A r \in DOMAIN result' : Hosted(result'[r])
      BY <1>3, <1>t, <1>n, <2>1, FinishSteps DEF Answer
    <2> QED
      BY <1>3, <1>t, <1>s, <2>2, LessSteps DEF Answer
  <1>4. ASSUME NEW a \in shards, AnswerFails(a) PROVE (Walks /\ Forwards /\ Asked /\ Found)'
    <2>1. Way(a.path) /\ a.path # <<web.root>>
      BY DEF IInv, Walks, Asked
    <2>2. echoes' = echoes \cup {[of |-> a, found |-> Nothing]} /\ result' = result
      BY <1>4 DEF AnswerFails
    <2>3. \A e \in echoes' :
             Way(e.of.path) /\ e.of.path # <<web.root>> /\ Hosted(e.found)
      BY <1>e, <1>n, <1>t, <2>1, <2>2, WayStays
    <2>4. DOMAIN asking' = DOMAIN asking /\ asking' = asking /\ shards' \subseteq shards
      BY <1>4 DEF AnswerFails
    <2> QED
      BY <1>t, <1>s, <1>r, <2>2, <2>3, <2>4, LessSteps
  <1>5. ASSUME NEW e \in echoes, Collect(e) PROVE (Walks /\ Forwards /\ Asked /\ Found)'
    <2> DEFINE a == Parent(e.of)
               d == Join(asking[a].found, e.found)
    <2>1. a \in DOMAIN asking /\ a \in Askings /\ Way(a.path)
      BY <1>5 DEF Collect, IInv, TypeOK, Walks
    <2>2. d \in Discoveries /\ Hosted(d)
      BY <2>1, JoinType, JoinHosted DEF IInv, TypeOK, Found
    <2>3. shards' = shards
      BY <1>5 DEF Collect
    <2>4. (\/ asking' = [asking EXCEPT ![a] = [left |-> @.left - 1, found |-> d]]
           \/ asking' = [b \in DOMAIN asking \ {a} |-> asking[b]])
      BY <1>5 DEF Collect
    <2>5. (\/ echoes' = echoes \ {e} /\ result' = result
           \/ Finish(a, d, echoes \ {e})
           \/ /\ a # Whole(a.round)
              /\ echoes' = (echoes \ {e}) \cup {[of |-> a, found |-> Nothing]}
              /\ result' = result)
      BY <1>5 DEF Collect
    <2> HIDE DEF a, d
    <2>6. DOMAIN asking' \subseteq DOMAIN asking
      BY <2>4
    <2>7. \A b \in DOMAIN asking' : Hosted(asking'[b].found)
      BY <1>s, <2>1, <2>2, <2>4
    <2>8. /\ \A f \in echoes' :
                Way(f.of.path) /\ f.of.path # <<web.root>> /\ Hosted(f.found)
          /\ \A r \in DOMAIN result' : Hosted(result'[r])
      <3>1. CASE echoes' = echoes \ {e} /\ result' = result
        BY <1>e, <1>r, <3>1
      <3>2. CASE Finish(a, d, echoes \ {e})
        BY <1>t, <2>1, <2>2, <3>2, FinishSteps
      <3>3. CASE /\ a # Whole(a.round)
                 /\ echoes' = (echoes \ {e}) \cup {[of |-> a, found |-> Nothing]}
                 /\ result' = result
        <4>1. a.path # <<web.root>>
          BY <2>1, <3>3 DEF Whole, Asking, Askings
        <4> QED
          BY <1>e, <1>r, <1>n, <1>t, <2>1, <3>3, <4>1, WayStays
      <3> QED
        BY <2>5, <3>1, <3>2, <3>3
    <2> QED
      BY <1>t, <2>3, <2>6, <2>7, <2>8, LessSteps
  <1>6. ASSUME NEW e \in echoes, Refuse(e) PROVE (Walks /\ Forwards /\ Asked /\ Found)'
    <2>1. echoes' \subseteq echoes /\ UNCHANGED <<asking, shards, result>>
      BY <1>6 DEF Refuse
    <2> QED
      BY <1>t, <1>e, <1>r, <1>s, <2>1, LessSteps
  <1>7. CASE Lose
    <2>1. shards' \subseteq shards /\ echoes' \subseteq echoes /\ UNCHANGED <<asking, result>>
      BY <1>7 DEF Lose
    <2> QED
      BY <1>t, <1>e, <1>r, <1>s, <2>1, LessSteps
  <1>8. ASSUME NEW r \in Rounds, Deadline(r) PROVE (Walks /\ Forwards /\ Asked /\ Found)'
    <2>1. UNCHANGED <<asking, shards, echoes, result>>
      BY <1>8 DEF Deadline
    <2> QED
      BY <1>t, <1>e, <1>r, <1>s, <2>1, LessSteps
  <1>9. ASSUME NEW a \in DOMAIN asking, Timeout(a) PROVE (Walks /\ Forwards /\ Asked /\ Found)'
    <2>1. a \in Askings /\ Way(a.path)
      BY DEF IInv, TypeOK, Walks
    <2>2. /\ \A e \in echoes' :
                Way(e.of.path) /\ e.of.path # <<web.root>> /\ Hosted(e.found)
          /\ \A r \in DOMAIN result' : Hosted(result'[r])
      BY <1>9, <1>t, <1>n, <2>1, FinishSteps DEF Timeout
    <2>3. asking' = [b \in DOMAIN asking \ {a} |-> asking[b]] /\ shards' = shards
      BY <1>9 DEF Timeout
    <2> QED
      BY <1>t, <1>s, <2>2, <2>3, LessSteps
  <1>10. CASE Accept \/ GiveUp \/ UNCHANGED vars
    <2>1. UNCHANGED <<asking, shards, echoes, result>>
      BY <1>10 DEF Accept, GiveUp, vars
    <2> QED
      BY <1>t, <1>e, <1>r, <1>s, <2>1, LessSteps
  <1> QED
    BY <1>1, <1>2, <1>3, <1>4, <1>5, <1>6, <1>7, <1>8, <1>9, <1>10 DEF Next, Go

LEMMA SpecIInv == Spec => []IInv
  BY InitIInv, NextIInv, PTL DEF Spec

\* The star's tables and messages are well typed, for every web.
THEOREM TypeCorrect == Spec => []TypeOK
  <1>1. IInv => TypeOK
    BY DEF IInv
  <1> QED
    BY SpecIInv, <1>1, PTL

\* No asking goes in a circle and what was found can be wrangled, for every web of stars and
\* any number of rounds and faults.
THEOREM SearchNeverCircles == Spec => []NoCircles
  <1>1. IInv => NoCircles
    BY DEF IInv, Walks, Found, Hosted, NoCircles
  <1> QED
    BY SpecIInv, <1>1, PTL
-----------------------------------------------------------------------------
(* Who wrangled knows all.  Of a round whose timers are not due yet, every *)
(* asking is in one place at most, with the one before it waiting for its  *)
(* echo; and what it was told is the count of the ways that go on by those *)
(* of its stars that have answered.                                        *)

Outstanding == shards \cup DOMAIN asking \cup {e.of : e \in echoes}

\* The ways to star s that go on from path p, by way of a star of C.
Via(p, C, s) ==
    {q \in Ways : /\ Last(q) = s /\ Len(q) > Len(p)
                  /\ \A i \in 1..Len(p) : q[i] = p[i]
                  /\ q[Len(p) + 1] \in C}

\* What an asker with path p is told by the stars of C.
Told(p, C) == [s \in Stars |-> IF s \in web.hosts THEN Cardinality(Via(p, C, s)) ELSE 0]

Exact(r) == r \notin late /\ <<"failed", r>> \notin faults

Begun ==
    /\ \A a \in Outstanding : a.round <= round
    /\ \A r \in late \cup DOMAIN result : r <= round

Single ==
    /\ \A a \in shards : a.round \notin late => a \notin DOMAIN asking
    /\ \A e \in echoes : e.of.round \notin late => e.of \notin shards \cup DOMAIN asking
    /\ \A e, o \in echoes : e.of.round \notin late /\ e.of = o.of => e = o
    /\ \A r \in DOMAIN result : Whole(r) \notin DOMAIN asking

Waited ==
    \A a \in Outstanding :
        a.round \notin late /\ a.path # <<web.root>> => Parent(a) \in DOMAIN asking

Tally(a, C) ==
    /\ asking[a].left = Cardinality(ToAsk(a)) - Cardinality(C)
    /\ Exact(a.round) => asking[a].found = Told(a.path, C)
    /\ \A s \in C : Asking(a.round, Append(a.path, s)) \notin Outstanding

Tallied == \A a \in DOMAIN asking : a.round \notin late => \E C \in SUBSET ToAsk(a) : Tally(a, C)

Echoed ==
    \A e \in echoes :
        Exact(e.of.round) => e.found = WithOwn(Told(e.of.path, Stars), Star(e.of))

Results == \A r \in DOMAIN result : Exact(r) => result[r] = Told(<<web.root>>, Stars)

InTime ==
    /\ loop # "start" => round \notin late
    /\ loop = "wrangled" => round \in DOMAIN result

AllTold == Begun /\ Single /\ Waited /\ Tallied /\ Echoed /\ Results /\ InTime

\* There are finitely many functions on a finite interval.
LEMMA WaysFinite ==
    ASSUME TypeOK
    PROVE  IsFiniteSet(Ways)
  <1> DEFINE N == Cardinality(Stars)
             All == UNION {[1..n -> Stars] : n \in 2..N}
             Graph(q) == {<<i, q[i]>> : i \in DOMAIN q}
             G == [q \in All |-> Graph(q)]
  <1>1. N \in Nat
    BY SearchAssumption, FS_CardinalityType
  <1>2. IsFiniteSet(SUBSET ((1..N) \X Stars))
    <2>1. IsFiniteSet(1..N)
      BY <1>1, FS_Interval
    <2> QED
      BY <2>1, SearchAssumption, FS_Product, FS_SUBSET
  <1>3. \A q \in All : \E n \in 2..N : q \in [1..n -> Stars]
    OBVIOUS
  <1>4. G \in [All -> SUBSET ((1..N) \X Stars)]
    <2> SUFFICES ASSUME NEW q \in All PROVE Graph(q) \subseteq (1..N) \X Stars
      OBVIOUS
    <2>1. PICK n \in 2..N : q \in [1..n -> Stars]
      BY <1>3
    <2> HIDE DEF All
    <2>2. \A i \in DOMAIN q : i \in 1..N /\ q[i] \in Stars
      BY <1>1, <2>1
    <2> QED
      BY <2>2
  <1>5. ASSUME NEW p \in All, NEW q \in All, Graph(p) = Graph(q) PROVE p = q
    <2>1. PICK n \in 2..N : p \in [1..n -> Stars]
      BY <1>3
    <2>2. PICK m \in 2..N : q \in [1..m -> Stars]
      BY <1>3
    <2> HIDE DEF All
    <2>3. \A i \in DOMAIN p : i \in DOMAIN q /\ q[i] = p[i]
      <3> SUFFICES ASSUME NEW i \in DOMAIN p PROVE i \in DOMAIN q /\ q[i] = p[i]
        OBVIOUS
      <3>1. <<i, p[i]>> \in Graph(q)
        BY <1>5
      <3> QED
        BY <3>1
    <2>4. \A i \in DOMAIN q : i \in DOMAIN p
      <3> SUFFICES ASSUME NEW i \in DOMAIN q PROVE i \in DOMAIN p
        OBVIOUS
      <3>1. <<i, q[i]>> \in Graph(p)
        BY <1>5
      <3> QED
        BY <3>1
    <2>5. DOMAIN p = DOMAIN q
      BY <2>3, <2>4
    <2> QED
      BY <2>1, <2>2, <2>3, <2>5
  <1>6. G \in Injection(All, SUBSET ((1..N) \X Stars))
    <2> HIDE DEF All, Graph
    <2>1. IsInjective(G)
      BY <1>5 DEF IsInjective
    <2> HIDE DEF G
    <2> QED
      BY <1>4, <2>1 DEF Injection
  <1>7. IsFiniteSet(All)
    <2> HIDE DEF G, All, N
    <2> QED
      BY <1>2, <1>6, FS_Injection
  <1>8. Ways \subseteq All
    BY DEF Ways
  <1> HIDE DEF All
  <1> QED
    BY <1>7, <1>8, FS_Subset

\* A way that goes anywhere is one of the ways: without stars twice it is no longer than there
\* are stars.
LEMMA WaysAre ==
    ASSUME TypeOK
    PROVE  /\ \A p \in Ways : p \in Seq(Stars) /\ Way(p) /\ Len(p) >= 2
           /\ \A p \in Seq(Stars) : Way(p) /\ p # <<web.root>> => p \in Ways /\ Len(p) >= 2
  <1>1. Cardinality(Stars) \in Nat
    BY SearchAssumption, FS_CardinalityType
  <1>2. ASSUME NEW p \in Ways PROVE p \in Seq(Stars) /\ Way(p) /\ Len(p) >= 2
    <2>1. PICK n \in 2..Cardinality(Stars) : p \in [1..n -> Stars] /\ Way(p)
      BY DEF Ways
    <2>2. n \in Nat /\ n >= 2
      BY <1>1, <2>1
    <2> QED
      BY <2>1, <2>2
  <1>3. ASSUME NEW p \in Seq(Stars), Way(p), p # <<web.root>> PROVE p \in Ways /\ Len(p) >= 2
    <2>1. p \in [1..Len(p) -> Stars] /\ Len(p) \in Nat /\ DOMAIN p = 1..Len(p)
      OBVIOUS
    <2>2. p \in Injection(1..Len(p), Stars)
      BY <1>3, <2>1 DEF Injection, Way
    <2>3. Cardinality(1..Len(p)) <= Cardinality(Stars)
      BY <2>2, SearchAssumption, FS_Injection
    <2>4. Cardinality(1..Len(p)) = Len(p)
      <3>1. \A k \in Nat : Cardinality(1..k) = k
        BY FS_Interval
      <3> QED
        BY <2>1, <3>1
    <2>5. Len(p) # 0 /\ Len(p) # 1
      BY <1>3, <2>1 DEF Way
    <2>6. Len(p) \in 2..Cardinality(Stars)
      BY <1>1, <2>1, <2>3, <2>4, <2>5
    <2> QED
      BY <1>3, <2>1, <2>6 DEF Ways
  <1> QED
    BY <1>2, <1>3

\* There are finitely many such ways.
LEMMA ViaFinite ==
    ASSUME TypeOK, NEW p, NEW C, NEW s
    PROVE  IsFiniteSet(Via(p, C, s)) /\ Cardinality(Via(p, C, s)) \in Nat
  <1>1. Via(p, C, s) \subseteq Ways
    BY DEF Via
  <1> QED
    BY <1>1, WaysFinite, FS_Subset, FS_CardinalityType

\* What the stars tell is a count, and nothing if there are none.
LEMMA ToldType ==
    ASSUME TypeOK, NEW p, NEW C
    PROVE  Told(p, C) \in Discoveries /\ Told(p, {}) = Nothing
  <1>1. Told(p, C) \in Discoveries
    BY ViaFinite DEF Told, Discoveries
  <1>2. \A s : Via(p, {}, s) = {}
    BY DEF Via
  <1>3. \A s : Cardinality(Via(p, {}, s)) = 0
    BY <1>2, FS_EmptySet
  <1> QED
    BY <1>1, <1>3 DEF Told, Nothing

\* With one more star come the ways by that star, and no others.
LEMMA ViaGrows ==
    ASSUME TypeOK, NEW p, NEW C, NEW c, c \notin C, NEW s
    PROVE  Cardinality(Via(p, C \cup {c}, s)) = Cardinality(Via(p, C, s)) + Cardinality(Via(p, {c}, s))
  <1>1. Via(p, C \cup {c}, s) = Via(p, C, s) \cup Via(p, {c}, s)
    BY DEF Via
  <1>2. Via(p, C, s) \cap Via(p, {c}, s) = {}
    BY DEF Via
  <1>3. Cardinality(Via(p, C, s) \cap Via(p, {c}, s)) = 0
    BY <1>2, FS_EmptySet
  <1>4. Cardinality(Via(p, C, s) \cup Via(p, {c}, s))
          = Cardinality(Via(p, C, s)) + Cardinality(Via(p, {c}, s))
            - Cardinality(Via(p, C, s) \cap Via(p, {c}, s))
    BY ViaFinite, FS_Union
  <1>5. Cardinality(Via(p, C, s)) \in Nat /\ Cardinality(Via(p, {c}, s)) \in Nat
    BY ViaFinite
  <1>6. Cardinality(Via(p, C \cup {c}, s)) = Cardinality(Via(p, C, s) \cup Via(p, {c}, s))
    BY <1>1
  <1>7. \A i, j \in Nat : i + j - 0 = i + j
    OBVIOUS
  <1> QED
    BY <1>3, <1>4, <1>5, <1>6, <1>7

\* The ways by a star are the one that ends there, and those that go on.
LEMMA ViaOne ==
    ASSUME TypeOK, NEW p \in Seq(Stars), NEW c \in Stars, Append(p, c) \in Ways, NEW s
    PROVE  Cardinality(Via(p, {c}, s))
             = Cardinality(Via(Append(p, c), Stars, s)) + (IF s = c THEN 1 ELSE 0)
  <1> DEFINE q == Append(p, c)
             n == Len(p)
  <1>1. q \in Seq(Stars) /\ Len(q) = n + 1 /\ q[n + 1] = c /\ n \in Nat /\ \A i \in 1..n : q[i] = p[i]
    OBVIOUS
  <1>2. Last(q) = c
    BY <1>1 DEF Last
  <1>3. q \in Ways
    OBVIOUS
  <1> HIDE DEF q, n
  <1>4. ASSUME NEW w \in Ways, Last(w) = s
        PROVE  w \in Via(p, {c}, s) <=> w \in Via(q, Stars, s) \/ (w = q /\ s = c)
    <2>1. w \in Seq(Stars) /\ Len(w) \in Nat
      BY WaysAre
    <2>2. w \in Via(p, {c}, s) <=> Len(w) > n /\ (\A i \in 1..n : w[i] = p[i]) /\ w[n + 1] = c
      BY <1>4 DEF Via, n
    <2>3. w \in Via(q, Stars, s)
            <=> Len(w) > n + 1 /\ (\A i \in 1..n + 1 : w[i] = q[i]) /\ w[n + 2] \in Stars
      BY <1>1, <1>4 DEF Via
    <2>4. Len(w) > n + 1 => w[n + 2] \in Stars
      BY <1>1, <2>1
    <2>5. (\A i \in 1..n + 1 : w[i] = q[i]) <=> (\A i \in 1..n : w[i] = p[i]) /\ w[n + 1] = c
      <3>1. \A i \in 1..n + 1 : i \in 1..n \/ i = n + 1
        BY <1>1
      <3>2. n + 1 \in 1..n + 1 /\ \A i \in 1..n : i \in 1..n + 1
        BY <1>1
      <3> QED
        BY <1>1, <3>1, <3>2
    <2>6. Len(w) = n + 1 /\ (\A i \in 1..n + 1 : w[i] = q[i]) => w = q
      BY <1>1, <2>1, SeqEqual
    <2>7. w = q => Len(w) = n + 1 /\ \A i \in 1..n + 1 : w[i] = q[i]
      BY <1>1
    <2>8. w = q => s = c
      BY <1>2, <1>4
    <2>9. Len(w) > n <=> Len(w) = n + 1 \/ Len(w) > n + 1
      BY <1>1, <2>1
    <2> QED
      BY <2>2, <2>3, <2>4, <2>5, <2>6, <2>7, <2>8, <2>9
  <1>5. Via(p, {c}, s) = Via(q, Stars, s) \cup (IF s = c THEN {q} ELSE {})
    <2>1. \A w \in Via(p, {c}, s) \cup Via(q, Stars, s) : w \in Ways /\ Last(w) = s
      BY DEF Via
    <2> QED
      BY <1>2, <1>3, <1>4, <2>1
  <1>6. q \notin Via(q, Stars, s)
    BY <1>1 DEF Via
  <1>7. IsFiniteSet(Via(q, Stars, s)) /\ Cardinality(Via(q, Stars, s)) \in Nat
    BY ViaFinite
  <1>8. CASE s = c
    <2>1. Via(p, {c}, s) = Via(q, Stars, s) \cup {q}
      BY <1>5, <1>8
    <2>2. Cardinality(Via(p, {c}, s)) = Cardinality(Via(q, Stars, s)) + 1
      BY <1>6, <1>7, <2>1, FS_AddElement
    <2> QED
      BY <1>8, <2>2 DEF q
  <1>9. CASE s # c
    <2>1. Via(p, {c}, s) = Via(q, Stars, s)
      BY <1>5, <1>9
    <2> QED
      BY <1>7, <1>9, <2>1 DEF q
  <1> QED
    BY <1>8, <1>9

\* A way that goes on from an asker goes on by a star that it asks, and it does so if the
\* asker forwards.
LEMMA ViaAsked ==
    ASSUME TypeOK, NEW a \in Askings, Way(a.path), NEW s
    PROVE  /\ Via(a.path, Stars, s) = Via(a.path, ToAsk(a), s)
           /\ a.path # <<web.root>> /\ Star(a) \notin web.forwarders => Via(a.path, Stars, s) = {}
  <1> DEFINE p == a.path
             n == Len(p)
  <1>1. p \in Seq(Stars) /\ p # <<>> /\ n \in Nat /\ n >= 1 /\ Star(a) = p[n]
    BY LastOf DEF Askings, Way, Star
  <1>2. ToAsk(a) \subseteq Stars
    BY <1>1, ToAskType
  <1>3. \A i : i \in ToAsk(a) <=> i \in web.adjacents[p[n]] /\ \A j \in 1..n : p[j] # i
    BY <1>1, RangeOf DEF ToAsk
  <1> HIDE DEF p, n
  <1>4. ASSUME NEW w \in Via(p, Stars, s)
        PROVE  /\ w[n + 1] \in ToAsk(a)
               /\ n # 1 => Star(a) \in web.forwarders
    <2>1. /\ w \in Seq(Stars) /\ Way(w) /\ Len(w) \in Nat
          /\ Len(w) > n /\ \A i \in 1..n : w[i] = p[i]
      BY WaysAre DEF Via, n
    <2>2. /\ \A i, j \in 1..Len(w) : w[i] = w[j] => i = j
          /\ \A i \in 1..Len(w) - 1 : w[i + 1] \in web.adjacents[w[i]]
          /\ \A i \in 2..Len(w) - 1 : w[i] \in web.forwarders
      BY <2>1, InjectiveOf DEF Way
    <2>3. n \in 1..n /\ n \in 1..Len(w) - 1 /\ n + 1 \in 1..Len(w) /\ (n # 1 => n \in 2..Len(w) - 1)
      BY <1>1, <2>1
    <2>4. w[n + 1] \in web.adjacents[p[n]] /\ (n # 1 => p[n] \in web.forwarders)
      BY <2>1, <2>2, <2>3
    <2>5. \A j \in 1..n : p[j] # w[n + 1]
      <3> SUFFICES ASSUME NEW j \in 1..n PROVE p[j] # w[n + 1]
        OBVIOUS
      <3>1. j \in 1..Len(w) /\ j # n + 1 /\ w[j] = p[j]
        BY <1>1, <2>1
      <3> QED
        BY <2>2, <2>3, <3>1
    <2> QED
      BY <1>1, <1>3, <2>4, <2>5
  <1>5. Via(p, Stars, s) = Via(p, ToAsk(a), s)
    <2>1. Via(p, Stars, s) \subseteq Via(p, ToAsk(a), s)
      <3> SUFFICES ASSUME NEW w \in Via(p, Stars, s) PROVE w \in Via(p, ToAsk(a), s)
        OBVIOUS
      <3>1. w[n + 1] \in ToAsk(a)
        BY <1>4
      <3> QED
        BY <3>1 DEF Via, n
    <2>2. Via(p, ToAsk(a), s) \subseteq Via(p, Stars, s)
      BY <1>2 DEF Via
    <2> QED
      BY <2>1, <2>2
  <1>6. ASSUME p # <<web.root>>, Star(a) \notin web.forwarders PROVE Via(p, Stars, s) = {}
    <2>1. n # 1
      BY <1>1, <1>6, WaysAre DEF p, n
    <2> QED
      BY <1>4, <1>6, <2>1
  <1> QED
    BY <1>5, <1>6 DEF p

\* A star that answers adds what it was told, and itself.
LEMMA ToldGrows ==
    ASSUME TypeOK, NEW a \in Askings, NEW c \in Stars, Append(a.path, c) \in Ways,
           NEW C, c \notin C
    PROVE  Join(Told(a.path, C), WithOwn(Told(Append(a.path, c), Stars), c)) = Told(a.path, C \cup {c})
  <1> DEFINE p == a.path
             q == Append(p, c)
             d == Told(p, C)
             e == Told(q, Stars)
             f == Told(p, C \cup {c})
  <1>1. p \in Seq(Stars)
    BY DEF Askings
  <1>2. d \in [Stars -> Nat] /\ e \in [Stars -> Nat] /\ f \in [Stars -> Nat]
    BY ToldType DEF Discoveries
  <1>3. ASSUME NEW s \in Stars
        PROVE  f[s] = d[s] + (IF c \in web.hosts /\ s = c THEN e[s] + 1 ELSE e[s])
    <2>1. CASE s \in web.hosts
      <3>1. /\ d[s] = Cardinality(Via(p, C, s))
            /\ e[s] = Cardinality(Via(q, Stars, s))
            /\ f[s] = Cardinality(Via(p, C \cup {c}, s))
        BY <2>1 DEF Told
      <3>2. f[s] = d[s] + Cardinality(Via(p, {c}, s))
        BY <3>1, ViaGrows
      <3>3. Cardinality(Via(p, {c}, s)) = e[s] + (IF s = c THEN 1 ELSE 0)
        BY <1>1, <3>1, ViaOne
      <3> HIDE DEF d, e, f, p, q
      <3>4. e[s] \in Nat /\ d[s] \in Nat
        BY <1>2
      <3> QED
        BY <2>1, <3>2, <3>3, <3>4
    <2>2. CASE s \notin web.hosts
      <3>1. d[s] = 0 /\ e[s] = 0 /\ f[s] = 0
        BY <2>2 DEF Told
      <3> QED
        BY <2>2, <3>1
    <2> QED
      BY <2>1, <2>2
  <1> HIDE DEF d, e, f, p, q
  <1>4. WithOwn(e, c) = [s \in Stars |-> IF c \in web.hosts /\ s = c THEN e[s] + 1 ELSE e[s]]
    BY <1>2 DEF WithOwn
  <1>5. Join(d, WithOwn(e, c)) = [s \in Stars |-> f[s]]
    BY <1>3, <1>4 DEF Join
  <1> QED
    BY <1>2, <1>5 DEF d, e, f, p, q

\* All that there is to be told is told by those that are asked; and if nobody is asked
\* there is nothing.
LEMMA ToldAll ==
    ASSUME TypeOK, NEW a \in Askings, Way(a.path)
    PROVE  /\ Told(a.path, ToAsk(a)) = Told(a.path, Stars)
           /\ ToAsk(a) = {} \/ (a.path # <<web.root>> /\ Star(a) \notin web.forwarders)
                => Told(a.path, Stars) = Nothing
  <1>1. \A s : Via(a.path, Stars, s) = Via(a.path, ToAsk(a), s)
    BY ViaAsked
  <1>2. Told(a.path, ToAsk(a)) = Told(a.path, Stars)
    BY <1>1 DEF Told
  <1>3. ASSUME ToAsk(a) = {} PROVE Told(a.path, Stars) = Nothing
    BY <1>2, <1>3, ToldType
  <1>4. ASSUME a.path # <<web.root>>, Star(a) \notin web.forwarders
        PROVE  Told(a.path, Stars) = Nothing
    <2>1. \A s : Via(a.path, Stars, s) = Via(a.path, {}, s)
      BY <1>4, ViaAsked DEF Via
    <2>2. Told(a.path, Stars) = Told(a.path, {})
      BY <2>1 DEF Told
    <2> QED
      BY <2>2, ToldType
  <1> QED
    BY <1>2, <1>3, <1>4

\* All ways go on from the wrangling star.
LEMMA ToldRoot ==
    ASSUME TypeOK
    PROVE  Complete(Told(<<web.root>>, Stars))
  <1> DEFINE p == <<web.root>>
  <1>1. Len(p) = 1 /\ p[1] = web.root
    OBVIOUS
  <1> HIDE DEF p
  <1>2. ASSUME NEW s \in Stars PROVE Via(p, Stars, s) = {w \in Ways : Last(w) = s}
    <2>1. \A w \in Ways : /\ Len(w) > Len(p)
                          /\ \A i \in 1..Len(p) : w[i] = p[i]
                          /\ w[Len(p) + 1] \in Stars
      <3> SUFFICES ASSUME NEW w \in Ways PROVE Len(w) > 1 /\ w[1] = p[1] /\ w[2] \in Stars
        BY <1>1
      <3>1. w \in Seq(Stars) /\ Len(w) >= 2 /\ w[1] = web.root
        BY WaysAre DEF Way
      <3> QED
        BY <1>1, <3>1
    <2> QED
      BY <2>1 DEF Via
  <1> QED
    BY <1>2 DEF Complete, Told, p

\* An asking that was asked for: who asked, and that it asks this star.
LEMMA AskedFor ==
    ASSUME TypeOK, NEW a \in Askings, Way(a.path), a.path # <<web.root>>
    PROVE  /\ Parent(a) \in Askings /\ Parent(a).round = a.round
           /\ Parent(a).path \in Seq(Stars) /\ Parent(a) # a
           /\ Star(a) \in Stars
           /\ Parent(a).path # <<>> => Star(a) \in ToAsk(Parent(a))
           /\ a = Asking(a.round, Append(Parent(a).path, Star(a)))
           /\ a.path \in Ways
           /\ a # Whole(a.round)
  <1> DEFINE p == a.path
             n == Len(p)
             q == Front(p)
  <1>1. p \in Seq(Stars) /\ p # <<>> /\ n \in Nat /\ n >= 2 /\ p \in Ways
    <2>1. p \in Seq(Stars) /\ n \in Nat
      BY DEF Askings
    <2>2. p \in Ways /\ n >= 2
      BY <2>1, WaysAre
    <2> QED
      BY <2>1, <2>2 DEF Way
  <1>2. Star(a) = p[n] /\ p[n] \in Stars
    BY <1>1, LastOf DEF Star
  <1>3. q \in Seq(Stars) /\ Len(q) = n - 1 /\ \A i \in 1..n - 1 : q[i] = p[i]
    <2>1. q = SubSeq(p, 1, n - 1)
      BY DEF Front
    <2>2. \A i \in 1..n - 1 : p[i] \in Stars
      BY <1>1
    <2> QED
      BY <1>1, <2>1, <2>2, SubSeqProperties
  <1>4. Parent(a) = [round |-> a.round, path |-> q] /\ a = [round |-> a.round, path |-> p] /\ a.round \in Rounds
    BY DEF Parent, Asking, Askings
  <1> HIDE DEF p, n, q
  <1>5. p = Append(q, p[n])
    <2>1. Append(q, p[n]) \in Seq(Stars) /\ Len(Append(q, p[n])) = n
      BY <1>1, <1>2, <1>3
    <2>2. \A i \in 1..n : Append(q, p[n])[i] = p[i]
      BY <1>1, <1>2, <1>3
    <2> QED
      BY <1>1, <2>1, <2>2, SeqEqual DEF n
  <1>6. q # p
    BY <1>1, <1>3 DEF n
  <1>7. ASSUME q # <<>> PROVE p[n] \in ToAsk(Parent(a))
    <2>1. Star(Parent(a)) = p[n - 1]
      BY <1>1, <1>3, <1>4, <1>7, LastOf DEF Star
    <2>2. /\ \A i, j \in 1..n : p[i] = p[j] => i = j
          /\ \A i \in 1..n - 1 : p[i + 1] \in web.adjacents[p[i]]
      BY <1>1, InjectiveOf DEF Way, p, n
    <2>3. n - 1 \in 1..n - 1 /\ n \in 1..n
      BY <1>1
    <2>4. p[n] \in web.adjacents[p[n - 1]]
      BY <1>1, <2>2, <2>3
    <2>5. \A i \in 1..n - 1 : q[i] # p[n]
      BY <1>1, <1>3, <2>2, <2>3
    <2>6. p[n] \notin Range(q)
      BY <1>3, <2>5, RangeOf
    <2> QED
      BY <1>4, <2>1, <2>4, <2>6 DEF ToAsk
  <1>8. a # Whole(a.round)
    BY DEF Whole, Asking
  <1>9. Parent(a).path = q /\ Parent(a).round = a.round /\ Parent(a) \in Askings
    BY <1>3, <1>4 DEF Askings
  <1>10. a = Asking(a.round, Append(Parent(a).path, Star(a)))
    BY <1>2, <1>4, <1>5, <1>9 DEF Asking
  <1> QED
    BY <1>1, <1>2, <1>3, <1>4, <1>6, <1>7, <1>8, <1>9, <1>10 DEF p

\* Whoever is asked was asked by this one.
LEMMA ParentOf ==
    ASSUME NEW a \in Askings, NEW s \in Stars
    PROVE  /\ Parent(Asking(a.round, Append(a.path, s))) = a
           /\ Star(Asking(a.round, Append(a.path, s))) = s
  <1>1. a.path \in Seq(Stars) /\ a = [round |-> a.round, path |-> a.path]
    BY DEF Askings
  <1> DEFINE q == Append(a.path, s)
  <1>2. q \in Seq(Stars) /\ Len(q) = Len(a.path) + 1 /\ Len(a.path) \in Nat /\ q[Len(q)] = s
    BY <1>1
  <1>3. \A i \in 1..Len(a.path) : q[i] = a.path[i] /\ q[i] \in Stars
    BY <1>1
  <1> HIDE DEF q
  <1>4. Front(q) = a.path
    <2>1. Front(q) = SubSeq(q, 1, Len(a.path))
      BY <1>2 DEF Front
    <2>2. Front(q) \in Seq(Stars) /\ Len(Front(q)) = Len(a.path) /\ \A i \in 1..Len(a.path) : Front(q)[i] = q[i]
      BY <1>2, <1>3, <2>1, SubSeqProperties
    <2> QED
      BY <1>1, <1>2, <1>3, <2>2, SeqEqual
  <1>5. Last(q) = s
    BY <1>2 DEF Last
  <1> QED
    BY <1>1, <1>4, <1>5 DEF Parent, Star, Asking, q

\* The web stays, and with it what is to be told.
LEMMA ToldStays ==
    ASSUME web' = web
    PROVE  /\ \A p, C : Told(p, C)' = Told(p, C)
           /\ \A a : ToAsk(a)' = ToAsk(a)
           /\ \A d, s : WithOwn(d, s)' = WithOwn(d, s)
           /\ \A r : Whole(r)' = Whole(r)
  <1>1. \A p : Way(p)' <=> Way(p)
    BY DEF Way
  <1>2. Ways' = Ways
    BY <1>1 DEF Ways
  <1>3. \A p, C, s : Via(p, C, s)' = Via(p, C, s)
    BY <1>2 DEF Via
  <1>4. \A p, C : Told(p, C)' = Told(p, C)
    BY <1>3 DEF Told
  <1> QED
    BY <1>4 DEF ToAsk, WithOwn, Whole, Star

-----------------------------------------------------------------------------
(* The steps of it.                                                        *)

\* Somebody asks, of whom nothing is outstanding; nobody of those that are asked was asked by
\* the same before.
LEMMA AskTold ==
    ASSUME IInv, AllTold, NEW a \in Askings, Way(a.path), NEW rest \in SUBSET shards, Ask(a, rest),
           web' = web, UNCHANGED <<echoes, late, result, faults>>,
           a.path = <<web.root>> \/ (Star(a) \in web.forwarders /\ a \in shards),
           a.round \notin late => a \notin rest \cup DOMAIN asking \cup {e.of : e \in echoes},
           a.path # <<web.root>> /\ a.round \notin late => Parent(a) \in DOMAIN asking,
           a.path = <<web.root>> => a \notin Outstanding /\ a.round \notin DOMAIN result,
           round' \in Nat, round <= round', a.round <= round'
    PROVE  (Begun /\ Single /\ Waited /\ Tallied /\ Echoed /\ Results)'
  <1>1. /\ shards' = rest \cup Shards(a)
        /\ DOMAIN asking' = DOMAIN asking \cup {a}
        /\ asking'[a] = [left |-> Cardinality(ToAsk(a)), found |-> Nothing]
        /\ \A b \in DOMAIN asking : b # a => asking'[b] = asking[b]
    BY DEF Ask
  <1>2. TypeOK /\ a.path # <<>> /\ ToAsk(a) \subseteq Stars /\ Cardinality(ToAsk(a)) \in Nat
    <2>1. a.path # <<>> /\ TypeOK
      BY DEF Way, IInv
    <2> QED
      BY <2>1, ToAskType
  <1>3. ASSUME NEW b \in Shards(a)
        PROVE  b.round = a.round /\ Parent(b) = a /\ b.path # <<web.root>> /\ b # a /\ b \in Askings
    <2>1. PICK s \in ToAsk(a) : b = Asking(a.round, Append(a.path, s))
      BY DEF Shards
    <2>2. s \in Stars /\ Append(a.path, s) \in Seq(Stars) /\ Append(a.path, s) # a.path
      BY <1>2, <2>1 DEF Askings
    <2>3. Parent(b) = a /\ Append(a.path, s) # <<web.root>>
      BY <1>2, <2>1, <2>2, ParentOf, WayGrows
    <2> QED
      BY <2>1, <2>2, <2>3 DEF Asking, Askings
  <1>4. ASSUME NEW b \in Shards(a), a.round \notin late PROVE b \notin Outstanding
    <2>1. CASE a.path = <<web.root>>
      BY <1>3, <1>4, <2>1 DEF AllTold, Waited, Outstanding
    <2>2. CASE a.path # <<web.root>>
      BY <1>3, <1>4, <2>2 DEF AllTold, Waited
    <2> QED
      BY <2>1, <2>2
  <1>5. \A b \in Outstanding' : b \in Outstanding \/ b = a \/ b \in Shards(a)
    BY <1>1 DEF Outstanding
  <1>6. Outstanding \subseteq Askings
    BY <1>2 DEF Outstanding, TypeOK
  <1>7. Begun'
    <2>1. round \in Nat /\ \A b \in Outstanding : b.round \in Nat
      BY <1>2, <1>6, SearchAssumption DEF TypeOK, Askings, Rounds
    <2>2. \A r \in late \cup DOMAIN result : r \in Nat
      BY <1>2 DEF TypeOK, Rounds
    <2>3. \A b \in Outstanding' : b.round <= round'
      BY <1>3, <1>5, <2>1 DEF AllTold, Begun
    <2>4. \A r \in late' \cup DOMAIN result' : r <= round'
      BY <2>1, <2>2 DEF AllTold, Begun
    <2> QED
      BY <2>3, <2>4 DEF Begun
  <1>8. Single'
    <2>1. ASSUME NEW b \in shards', b.round \notin late PROVE b \notin DOMAIN asking'
      BY <1>1, <1>3, <1>4, <2>1 DEF AllTold, Single, Outstanding
    <2>2. ASSUME NEW e \in echoes', e.of.round \notin late PROVE e.of \notin shards' \cup DOMAIN asking'
      BY <1>1, <1>3, <1>4, <2>2 DEF AllTold, Single, Outstanding
    <2>3. ASSUME NEW e \in echoes', NEW o \in echoes', e.of.round \notin late, e.of = o.of PROVE e = o
      BY <2>3 DEF AllTold, Single
    <2>4. ASSUME NEW r \in DOMAIN result' PROVE Whole(r) \notin DOMAIN asking'
      <3>1. Whole(r) = a => a.path = <<web.root>> /\ a.round = r
        BY DEF Whole, Asking
      <3> QED
        BY <1>1, <3>1 DEF AllTold, Single
    <2>5. \A r : Whole(r)' = Whole(r)
      BY ToldStays
    <2> QED
      BY <2>1, <2>2, <2>3, <2>4, <2>5 DEF Single
  <1>9. Waited'
    <2> SUFFICES ASSUME NEW b \in Outstanding', b.round \notin late, b.path # <<web.root>>
                 PROVE  Parent(b) \in DOMAIN asking'
      BY DEF Waited, Parent, Asking
    <2>1. CASE b \in Outstanding
      BY <1>1, <2>1 DEF AllTold, Waited
    <2>2. CASE b = a
      BY <1>1, <2>2
    <2>3. CASE b \in Shards(a)
      BY <1>1, <1>3, <2>3
    <2> QED
      BY <1>5, <2>1, <2>2, <2>3
  <1>10. Tallied'
    <2> SUFFICES ASSUME NEW b \in DOMAIN asking', b.round \notin late
                 PROVE  \E C \in SUBSET ToAsk(b) : Tally(b, C)'
      BY ToldStays DEF Tallied
    <2>1. CASE b = a
      <3>1. Cardinality({}) = 0
        BY FS_EmptySet
      <3>2. asking'[a].left = Cardinality(ToAsk(a)) - Cardinality({})
        BY <1>1, <1>2, <3>1
      <3>3. asking'[a].found = Told(a.path, {})
        BY <1>1, <1>2, ToldType
      <3>4. Tally(a, {})'
        BY <3>2, <3>3, ToldStays DEF Tally
      <3> QED
        BY <2>1, <3>4
    <2>2. CASE b # a
      <3>1. b \in DOMAIN asking /\ asking'[b] = asking[b] /\ b \in Askings
        BY <1>1, <1>2, <2>2 DEF TypeOK
      <3>2. PICK C \in SUBSET ToAsk(b) : Tally(b, C)
        BY <3>1 DEF AllTold, Tallied
      <3>3. ASSUME NEW s \in C PROVE Asking(b.round, Append(b.path, s)) \notin Outstanding'
        <4> DEFINE x == Asking(b.round, Append(b.path, s))
        <4>1. x \notin Outstanding
          BY <3>2 DEF Tally
        <4>2. b.path # <<>> /\ b \in Outstanding
          BY <3>1 DEF IInv, Walks, Way, Outstanding
        <4>3. s \in Stars /\ Parent(x) = b
          BY <1>2, <3>1, <4>2, ToAskType, ParentOf
        <4>4. x # a
          <5>1. CASE a.path = <<web.root>>
            <6>1. Append(b.path, s) # <<web.root>>
              <7>1. b.path \in Seq(Stars) /\ Len(b.path) # 0
                BY <3>1, <4>2 DEF Askings
              <7>2. Len(Append(b.path, s)) = Len(b.path) + 1 /\ Len(<<web.root>>) = 1 /\ Len(b.path) \in Nat
                BY <4>3, <7>1
              <7>3. Len(Append(b.path, s)) # Len(<<web.root>>)
                BY <7>1, <7>2
              <7> QED
                BY <7>3
            <6>2. x.path = Append(b.path, s)
              BY DEF Asking
            <6> QED
              BY <5>1, <6>1, <6>2
          <5>2. CASE a.path # <<web.root>>
            BY <4>1, <5>2 DEF Outstanding
          <5> QED
            BY <5>1, <5>2
        <4>5. x \notin Shards(a)
          BY <1>3, <2>2, <4>3
        <4> QED
          BY <1>5, <4>1, <4>4, <4>5
      <3>4. Tally(b, C)'
        BY <3>1, <3>2, <3>3, ToldStays DEF Tally, Exact
      <3> QED
        BY <3>4
    <2> QED
      BY <2>1, <2>2
  <1>11. Echoed'
    BY ToldStays, WayStays DEF AllTold, Echoed, Exact
  <1>12. Results'
    BY ToldStays DEF AllTold, Results, Exact
  <1> QED
    BY <1>7, <1>8, <1>9, <1>10, <1>11, <1>12

\* Askings leave, or become echoes: what else is as it was stays counted.
LEMMA LessTold ==
    ASSUME IInv, AllTold, web' = web, round' = round, late \subseteq late', faults \subseteq faults',
           \A r \in late' \cup DOMAIN result' : r <= round,
           shards' \subseteq shards, DOMAIN asking' \subseteq DOMAIN asking,
           \A b \in DOMAIN asking' :
              \/ b.round \in late'
              \/ asking'[b] = asking[b]
              \/ \E C \in SUBSET ToAsk(b) : Tally(b, C)',
           \A e \in echoes' :
              \/ e \in echoes
              \/ /\ e.of \in shards \cup DOMAIN asking
                 /\ e.of.round \notin late' =>
                       /\ e.of \notin shards' \cup DOMAIN asking'
                       /\ \A o \in echoes' : o.of = e.of => o = e
                       /\ Exact(e.of.round)' => e.found = WithOwn(Told(e.of.path, Stars), Star(e.of)),
           \A b \in Outstanding' :
              b.round \notin late' /\ b.path # <<web.root>> => Parent(b) \in DOMAIN asking',
           \A r \in DOMAIN result' :
              /\ Whole(r) \notin DOMAIN asking'
              /\ Exact(r)' => result'[r] = Told(<<web.root>>, Stars)
    PROVE  (Begun /\ Single /\ Waited /\ Tallied /\ Echoed /\ Results)'
  <1>1. Outstanding' \subseteq Outstanding
    BY DEF Outstanding
  <1>2. \A r : Exact(r)' => Exact(r)
    BY DEF Exact
  <1>3. \A r : r \notin late' => r \notin late
    OBVIOUS
  <1>4. Begun'
    BY <1>1 DEF AllTold, Begun
  <1>5. Single'
    <2>1. ASSUME NEW b \in shards', b.round \notin late' PROVE b \notin DOMAIN asking'
      BY <1>3, <2>1 DEF AllTold, Single
    <2>2. ASSUME NEW e \in echoes', e.of.round \notin late' PROVE e.of \notin shards' \cup DOMAIN asking'
      BY <1>3, <2>2 DEF AllTold, Single
    <2>3. ASSUME NEW e \in echoes', NEW o \in echoes', e.of.round \notin late', e.of = o.of PROVE e = o
      BY <1>3, <2>3 DEF AllTold, Single
    <2>4. \A r : Whole(r)' = Whole(r)
      BY ToldStays
    <2> QED
      BY <2>1, <2>2, <2>3, <2>4 DEF Single
  <1>6. Waited'
    <2>1. \A b : Parent(b)' = Parent(b)
      BY DEF Parent, Asking
    <2> QED
      BY <2>1 DEF Waited
  <1>7. Tallied'
    <2> SUFFICES ASSUME NEW b \in DOMAIN asking', b.round \notin late'
                 PROVE  \E C \in SUBSET ToAsk(b) : Tally(b, C)'
      BY ToldStays DEF Tallied
    <2>1. CASE asking'[b] = asking[b]
      <3>1. PICK C \in SUBSET ToAsk(b) : Tally(b, C)
        BY <1>3 DEF AllTold, Tallied
      <3>2. Tally(b, C)'
        BY <1>1, <1>2, <2>1, <3>1, ToldStays DEF Tally
      <3> QED
        BY <3>2
    <2> QED
      BY <2>1
  <1>8. Echoed'
    <2> SUFFICES ASSUME NEW e \in echoes', Exact(e.of.round)'
                 PROVE  e.found = WithOwn(Told(e.of.path, Stars), Star(e.of))
      BY ToldStays, WayStays DEF Echoed
    <2>1. e.of.round \notin late'
      BY DEF Exact
    <2> QED
      BY <1>2, <2>1 DEF AllTold, Echoed
  <1>9. Results'
    BY ToldStays DEF Results
  <1> QED
    BY <1>4, <1>5, <1>6, <1>7, <1>8, <1>9

\* An asking becomes an echo of it.
LEMMA EchoTold ==
    ASSUME IInv, AllTold, NEW a \in shards \cup DOMAIN asking, NEW v,
           NEW rest \in SUBSET echoes, echoes' = rest \cup {[of |-> a, found |-> v]},
           UNCHANGED <<web, round, late, result>>, faults \subseteq faults',
           shards' \subseteq shards, DOMAIN asking' \subseteq DOMAIN asking,
           \A b \in DOMAIN asking' : asking'[b] = asking[b],
           a.round \notin late => a \notin shards' \cup DOMAIN asking',
           Exact(a.round)' => v = WithOwn(Told(a.path, Stars), Star(a)),
           \A b \in Outstanding' :
              b.round \notin late /\ b.path # <<web.root>> => Parent(b) \in DOMAIN asking'
    PROVE  (Begun /\ Single /\ Waited /\ Tallied /\ Echoed /\ Results)'
  <1> DEFINE x == [of |-> a, found |-> v]
  <1>1. echoes' = rest \cup {x} /\ x.of = a /\ x.found = v
    OBVIOUS
  <1>2. \A r \in late' \cup DOMAIN result' : r <= round
    BY DEF AllTold, Begun
  <1> HIDE DEF x
  <1>3. a.round \notin late' => \A o \in echoes' : o.of = a => o = x
    BY <1>1 DEF AllTold, Single
  <1>4. \A r \in DOMAIN result' : /\ Whole(r) \notin DOMAIN asking'
                                  /\ Exact(r)' => result'[r] = Told(<<web.root>>, Stars)
    BY DEF AllTold, Single, Results, Exact
  <1>5. \A e \in echoes' :
            \/ e \in echoes
            \/ /\ e.of \in shards \cup DOMAIN asking
               /\ e.of.round \notin late' =>
                     /\ e.of \notin shards' \cup DOMAIN asking'
                     /\ \A o \in echoes' : o.of = e.of => o = e
                     /\ Exact(e.of.round)' => e.found = WithOwn(Told(e.of.path, Stars), Star(e.of))
    BY <1>1, <1>3
  <1> QED
    BY <1>2, <1>4, <1>5, LessTold

\* What an asking is over with: a result of its round, or an echo of it.
LEMMA FinishTold ==
    ASSUME IInv, AllTold, NEW a \in shards \cup DOMAIN asking,
           a.path # <<web.root>> \/ a \in DOMAIN asking,
           NEW d, NEW rest \in SUBSET echoes, Finish(a, d, rest),
           UNCHANGED <<web, round, late>>, faults \subseteq faults',
           shards' \subseteq shards, DOMAIN asking' \subseteq DOMAIN asking,
           \A b \in DOMAIN asking' : asking'[b] = asking[b],
           a \notin DOMAIN asking' \/ (a.round \in late /\ a.path # <<web.root>>),
           a.round \notin late => a \notin shards',
           Exact(a.round)' => d = Told(a.path, Stars),
           \A b \in Outstanding' :
              b.round \notin late /\ b.path # <<web.root>> => Parent(b) \in DOMAIN asking'
    PROVE  (Begun /\ Single /\ Waited /\ Tallied /\ Echoed /\ Results)'
  <1>1. /\ a \in Askings /\ a.round <= round
        /\ a = Whole(a.round) <=> a.path = <<web.root>>
    <2>1. a \in Askings /\ a = [round |-> a.round, path |-> a.path]
      BY DEF IInv, TypeOK, Askings
    <2>2. a \in Outstanding
      BY DEF Outstanding
    <2>3. a.round <= round
      BY <2>2 DEF AllTold, Begun
    <2>4. a = Whole(a.round) <=> a.path = <<web.root>>
      <3>1. Whole(a.round) = [round |-> a.round, path |-> <<web.root>>]
        BY DEF Whole, Asking
      <3> QED
        BY <2>1, <3>1
    <2> QED
      BY <2>1, <2>3, <2>4
  <1>2. \A r : Exact(r)' => Exact(r)
    BY DEF Exact
  <1>3. \A r : Whole(r) = a => r = a.round
    BY DEF Whole, Asking
  <1>4. CASE a = Whole(a.round)
    <2>1. /\ echoes' = rest
          /\ DOMAIN result' = DOMAIN result \cup {a.round}
          /\ \A r \in DOMAIN result' : result'[r] = IF r = a.round THEN d ELSE result[r]
      BY <1>4 DEF Finish
    <2>2. \A r \in late' \cup DOMAIN result' : r <= round
      BY <1>1, <2>1 DEF AllTold, Begun
    <2>3. ASSUME NEW r \in DOMAIN result'
          PROVE  /\ Whole(r) \notin DOMAIN asking'
                 /\ Exact(r)' => result'[r] = Told(<<web.root>>, Stars)
      <3>1. CASE r = a.round
        BY <1>1, <1>4, <2>1, <3>1
      <3>2. CASE r # a.round
        BY <1>2, <2>1, <3>2 DEF AllTold, Single, Results
      <3> QED
        BY <3>1, <3>2
    <2> QED
      BY <2>1, <2>2, <2>3, LessTold
  <1>5. CASE a # Whole(a.round)
    <2>1. echoes' = rest \cup {[of |-> a, found |-> WithOwn(d, Star(a))]} /\ result' = result
      BY <1>5 DEF Finish
    <2>2. Exact(a.round)' => WithOwn(d, Star(a)) = WithOwn(Told(a.path, Stars), Star(a))
      OBVIOUS
    <2> QED
      BY <1>1, <1>5, <2>1, <2>2, EchoTold
  <1> QED
    BY <1>4, <1>5

\* The round begins, with the wrangling star asking, or with nobody to ask.
LEMMA StartTold ==
    ASSUME IInv, AllTold, StartRound
    PROVE  AllTold'
  <1>a. PICK a : a = Whole(round')
    OBVIOUS
  <1>1. /\ round' = round + 1 /\ round \in Nat /\ round' \in Rounds /\ round' \in Nat
        /\ UNCHANGED <<web, late, faults>> /\ TypeOK
    BY SearchAssumption DEF StartRound, IInv, TypeOK, Rounds
  <1>2. a \in Askings /\ a.path = <<web.root>> /\ a.round = round' /\ Way(a.path)
    <2>1. <<web.root>> \in Seq(Stars)
      BY SearchAssumption DEF IInv, TypeOK, WebType
    <2>2. Way(<<web.root>>)
      BY <1>1, WayBegins
    <2> QED
      BY <1>a, <1>1, <2>1, <2>2 DEF Whole, Asking, Askings
  <1>3. /\ \A b \in Outstanding : b.round <= round /\ b.round \in Nat
        /\ \A r \in late \cup DOMAIN result : r <= round /\ r \in Nat
    BY DEF AllTold, Begun, IInv, TypeOK, Outstanding, Askings, Rounds
  <1>4. a \notin Outstanding /\ round' \notin late \cup DOMAIN result
    BY <1>1, <1>2, <1>3
  <1>6. CASE Ask(a, shards) /\ UNCHANGED <<result, echoes>>
    <2>1. (Begun /\ Single /\ Waited /\ Tallied /\ Echoed /\ Results)'
      <3>1. a \notin shards \cup DOMAIN asking \cup {e.of : e \in echoes}
        BY <1>4 DEF Outstanding
      <3>2. shards \in SUBSET shards /\ round <= round' /\ a.round <= round'
        BY <1>1, <1>2
      <3> QED
        BY <1>1, <1>2, <1>4, <1>6, <3>1, <3>2, AskTold
    <2>2. loop' = "wait"
      BY DEF StartRound
    <2> QED
      BY <1>1, <1>4, <2>1, <2>2 DEF AllTold, InTime
  <1>7. CASE Finish(a, Nothing, echoes) /\ UNCHANGED <<asking, shards>> /\ ToAsk(a) = {}
    <2>1. /\ echoes' = echoes
          /\ DOMAIN result' = DOMAIN result \cup {a.round}
          /\ \A r \in DOMAIN result' : result'[r] = IF r = a.round THEN Nothing ELSE result[r]
      <3>1. a = Whole(a.round)
        BY <1>a, <1>2
      <3> QED
        BY <1>7, <3>1 DEF Finish
    <2>2. Outstanding' = Outstanding
      BY <1>7, <2>1 DEF Outstanding
    <2>3. Begun'
      BY <1>1, <1>2, <1>3, <2>1, <2>2 DEF Begun
    <2>4. Single'
      <3>1. \A r : Whole(r)' = Whole(r)
        BY <1>1, ToldStays
      <3>2. Whole(a.round) \notin DOMAIN asking
        BY <1>a, <1>2, <1>4 DEF Outstanding
      <3> QED
        BY <1>1, <1>7, <2>1, <3>1, <3>2 DEF AllTold, Single
    <2>5. Waited'
      BY <1>1, <1>7, <2>2 DEF AllTold, Waited, Parent, Asking
    <2>6. Tallied'
      <3>1. \A b, C : b \in DOMAIN asking => (Tally(b, C) <=> Tally(b, C)')
        BY <1>1, <1>7, <2>2, ToldStays DEF Tally, Exact
      <3> QED
        BY <1>1, <1>7, <3>1, ToldStays DEF AllTold, Tallied
    <2>7. Echoed'
      BY <1>1, <2>1, ToldStays, WayStays DEF AllTold, Echoed, Exact
    <2>8. Results'
      <3>1. Told(<<web.root>>, Stars) = Nothing
        BY <1>1, <1>2, <1>7, ToldAll
      <3>2. \A r : Exact(r)' <=> Exact(r)
        BY <1>1 DEF Exact
      <3>3. \A r \in DOMAIN result' : Exact(r) => result'[r] = Told(<<web.root>>, Stars)
        BY <2>1, <3>1 DEF AllTold, Results
      <3> QED
        BY <1>1, <3>2, <3>3, ToldStays DEF Results
    <2>9. loop' = "wait"
      BY DEF StartRound
    <2> QED
      BY <1>1, <1>4, <2>3, <2>4, <2>5, <2>6, <2>7, <2>8, <2>9 DEF AllTold, InTime
  <1>8. IF ToAsk(a) = {} THEN Finish(a, Nothing, echoes) /\ UNCHANGED <<asking, shards>>
                         ELSE Ask(a, shards) /\ UNCHANGED <<result, echoes>>
    BY <1>a DEF StartRound
  <1> QED
    BY <1>6, <1>7, <1>8

\* The loop stays in time while its round does.
LEMMA InTimeStays ==
    ASSUME AllTold, UNCHANGED <<loop, round, late>>, DOMAIN result \subseteq DOMAIN result'
    PROVE  InTime'
  BY DEF AllTold, InTime

\* Results stay.
LEMMA FinishKeeps ==
    ASSUME NEW a, NEW d, NEW rest, Finish(a, d, rest)
    PROVE  DOMAIN result \subseteq DOMAIN result'
  BY DEF Finish

\* Somebody who is asked asks on, or answers, as well as it can.
LEMMA ShardTold ==
    ASSUME IInv, AllTold, NEW a \in shards, Forward(a) \/ Answer(a) \/ AnswerFails(a)
    PROVE  AllTold'
  <1>1. /\ TypeOK /\ a \in Askings /\ Way(a.path) /\ a.path # <<web.root>> /\ a \in Outstanding
        /\ a.round <= round /\ round \in Nat
    BY DEF IInv, TypeOK, Walks, Asked, Outstanding, AllTold, Begun
  <1>2. UNCHANGED <<web, loop, round, late>> /\ faults \subseteq faults'
    BY DEF Forward, Answer, AnswerFails, Fault
  <1>3. a.round \notin late => /\ a \notin DOMAIN asking \cup {e.of : e \in echoes}
                               /\ Parent(a) \in DOMAIN asking
    BY <1>1 DEF AllTold, Single, Waited
  <1>4. CASE Forward(a)
    <2>1. /\ Star(a) \in web.forwarders /\ Ask(a, shards \ {a})
          /\ UNCHANGED <<web, loop, round, echoes, late, result, faults>>
      BY <1>4 DEF Forward
    <2>2. (Begun /\ Single /\ Waited /\ Tallied /\ Echoed /\ Results)'
      <3>1. a.round \notin late => a \notin (shards \ {a}) \cup DOMAIN asking \cup {e.of : e \in echoes}
        BY <1>3
      <3>2. round' \in Nat /\ round <= round' /\ a.round <= round' /\ shards \ {a} \in SUBSET shards
        BY <1>1, <1>2
      <3> QED
        BY <1>1, <1>3, <2>1, <3>1, <3>2, AskTold
    <2> QED
      BY <1>2, <2>1, <2>2, InTimeStays DEF AllTold
  <1>5. CASE Answer(a) \/ AnswerFails(a)
    <2>1. /\ Star(a) \notin web.forwarders \/ ToAsk(a) = {}
          /\ shards' = shards \ {a} /\ asking' = asking
      BY <1>5 DEF Answer, AnswerFails
    <2>2. Told(a.path, Stars) = Nothing
      BY <1>1, <2>1, ToldAll
    <2>3. a # Whole(a.round)
      BY <1>1 DEF Whole, Asking
    <2>4. PICK v : /\ echoes' = echoes \cup {[of |-> a, found |-> v]} /\ result' = result
                   /\ Exact(a.round)' => v = WithOwn(Told(a.path, Stars), Star(a))
      <3>1. CASE Answer(a)
        BY <2>2, <2>3, <3>1 DEF Answer, Finish
      <3>2. CASE AnswerFails(a)
        BY <3>2 DEF AnswerFails, Fault, Exact
      <3> QED
        BY <1>5, <3>1, <3>2
    <2>5. \A b \in Outstanding' :
             b.round \notin late /\ b.path # <<web.root>> => Parent(b) \in DOMAIN asking'
      <3>1. \A b \in Outstanding' : b \in Outstanding
        BY <2>1, <2>4, <1>1 DEF Outstanding
      <3> QED
        BY <2>1, <3>1 DEF AllTold, Waited
    <2>6. (Begun /\ Single /\ Waited /\ Tallied /\ Echoed /\ Results)'
      BY <1>2, <1>3, <2>1, <2>4, <2>5, EchoTold
    <2> QED
      BY <1>2, <2>4, <2>6, InTimeStays DEF AllTold
  <1> QED
    BY <1>4, <1>5

\* An echo is counted: its star is one more of those that have answered, and when all have,
\* the asking is over with all there is to be told.
LEMMA CollectTold ==
    ASSUME IInv, AllTold, NEW e \in echoes, Collect(e)
    PROVE  AllTold'
  <1>a. PICK a : a = Parent(e.of)
    OBVIOUS
  <1>d. PICK d : d = Join(asking[a].found, e.found)
    OBVIOUS
  <1>1. /\ TypeOK /\ a \in DOMAIN asking /\ a \in Askings /\ Way(a.path) /\ a.path # <<>>
        /\ asking[a].left \in Nat
    BY <1>a DEF Collect, IInv, TypeOK, Walks, Way
  <1>2. /\ UNCHANGED <<web, loop, round, shards, late>> /\ faults \subseteq faults'
    BY <1>a DEF Collect, Fault
  <1>3. /\ e.of \in Askings /\ Way(e.of.path) /\ e.of.path # <<web.root>> /\ e.of \in Outstanding
    BY DEF IInv, TypeOK, Walks, Asked, Outstanding
  <1>4. PICK c : c = Star(e.of)
    OBVIOUS
  <1>5. /\ e.of.round = a.round /\ c \in Stars /\ c \in ToAsk(a) /\ a # e.of
        /\ e.of = Asking(a.round, Append(a.path, c))
        /\ e.of.path \in Ways /\ e.of.path = Append(a.path, c)
    <2>1. /\ e.of.round = a.round /\ c \in Stars /\ c \in ToAsk(a) /\ a # e.of
          /\ e.of = Asking(a.round, Append(a.path, c)) /\ e.of.path \in Ways
      BY <1>a, <1>1, <1>3, <1>4, AskedFor
    <2>2. Asking(a.round, Append(a.path, c)).path = Append(a.path, c)
      BY DEF Asking
    <2> QED
      BY <2>1, <2>2
  <1>6. /\ asking[a].left > 1 => /\ asking' = [asking EXCEPT ![a] = [left |-> @.left - 1, found |-> d]]
                                 /\ echoes' = echoes \ {e}
                                 /\ UNCHANGED <<result, faults>>
        /\ ~(asking[a].left > 1) =>
              /\ asking' = [b \in DOMAIN asking \ {a} |-> asking[b]]
              /\ \/ Finish(a, d, echoes \ {e}) /\ UNCHANGED faults
                 \/ /\ Star(a) \in web.hosts /\ a # Whole(a.round)
                    /\ Fault("failed", a.round)
                    /\ echoes' = (echoes \ {e}) \cup {[of |-> a, found |-> Nothing]}
                    /\ UNCHANGED result
    BY <1>a, <1>d DEF Collect
  <1>7. \A r : Exact(r)' => Exact(r)
    BY <1>2 DEF Exact
  <1>8. IsFiniteSet(ToAsk(a)) /\ Cardinality(ToAsk(a)) \in Nat
    BY <1>1, ToAskType, SearchAssumption, FS_Subset
  \* those that have answered, with this one
  <1>9. ASSUME a.round \notin late
        PROVE  \E C \in SUBSET ToAsk(a) :
                  /\ asking[a].left = Cardinality(ToAsk(a)) - Cardinality(C) + 1
                  /\ Cardinality(C) \in Nat /\ Cardinality(C) <= Cardinality(ToAsk(a))
                  /\ Exact(a.round) => d = Told(a.path, C)
                  /\ \A s \in C : \/ Asking(a.round, Append(a.path, s)) \notin Outstanding
                                  \/ Asking(a.round, Append(a.path, s)) = e.of
    <2>1. PICK C \in SUBSET ToAsk(a) : Tally(a, C)
      BY <1>1, <1>9 DEF AllTold, Tallied
    <2>2. c \notin C
      BY <1>3, <1>5, <2>1 DEF Tally
    <2>3. IsFiniteSet(C) /\ Cardinality(C) \in Nat
      BY <1>8, <2>1, FS_Subset, FS_CardinalityType
    <2>4. /\ Cardinality(C \cup {c}) = Cardinality(C) + 1 /\ C \cup {c} \in SUBSET ToAsk(a)
      BY <1>5, <2>2, <2>3, FS_AddElement
    <2>5. Cardinality(C \cup {c}) <= Cardinality(ToAsk(a))
      BY <1>8, <2>4, FS_Subset
    <2>6. ASSUME Exact(a.round) PROVE d = Told(a.path, C \cup {c})
      <3>1. asking[a].found = Told(a.path, C)
        BY <2>1, <2>6 DEF Tally
      <3>2. e.found = WithOwn(Told(Append(a.path, c), Stars), c)
        BY <1>4, <1>5, <2>6 DEF AllTold, Echoed
      <3> QED
        BY <1>d, <1>1, <1>5, <2>2, <3>1, <3>2, ToldGrows
    <2>7. asking[a].left = Cardinality(ToAsk(a)) - Cardinality(C \cup {c}) + 1
      BY <1>8, <2>1, <2>3, <2>4 DEF Tally
    <2>8. \A s \in C \cup {c} : \/ Asking(a.round, Append(a.path, s)) \notin Outstanding
                                \/ Asking(a.round, Append(a.path, s)) = e.of
      BY <1>5, <2>1 DEF Tally
    <2>9. Cardinality(C \cup {c}) \in Nat
      BY <2>3, <2>4
    <2> QED
      BY <2>4, <2>5, <2>6, <2>7, <2>8, <2>9
  \* the echo is gone
  <1>10. ASSUME a.round \notin late
         PROVE  e.of \notin shards \cup DOMAIN asking \cup {o.of : o \in echoes \ {e}}
    BY <1>5, <1>10 DEF AllTold, Single
  <1>11. CASE asking[a].left > 1
    <2>1. /\ asking' = [asking EXCEPT ![a] = [left |-> @.left - 1, found |-> d]]
          /\ echoes' = echoes \ {e} /\ UNCHANGED <<result, faults>>
      BY <1>6, <1>11
    <2>2. DOMAIN asking' = DOMAIN asking /\ \A b \in DOMAIN asking : b # a => asking'[b] = asking[b]
      BY <2>1
    <2>3. asking'[a] = [left |-> asking[a].left - 1, found |-> d]
      BY <1>1, <2>1
    <2>4. Outstanding' \subseteq Outstanding /\ (a.round \notin late => e.of \notin Outstanding')
      BY <1>2, <1>10, <2>1, <2>2 DEF Outstanding
    <2>5. ASSUME a.round \notin late PROVE \E C \in SUBSET ToAsk(a) : Tally(a, C)'
      <3>1. PICK C \in SUBSET ToAsk(a) :
               /\ asking[a].left = Cardinality(ToAsk(a)) - Cardinality(C) + 1
               /\ Cardinality(C) \in Nat
               /\ Exact(a.round) => d = Told(a.path, C)
               /\ \A s \in C : \/ Asking(a.round, Append(a.path, s)) \notin Outstanding
                               \/ Asking(a.round, Append(a.path, s)) = e.of
        BY <1>9, <2>5
      <3>2. asking'[a].left = Cardinality(ToAsk(a)) - Cardinality(C) /\ asking'[a].found = d
        BY <1>8, <2>3, <3>1
      <3>3. \A s \in C : Asking(a.round, Append(a.path, s)) \notin Outstanding'
        BY <2>4, <2>5, <3>1
      <3>4. Tally(a, C)'
        BY <1>2, <1>7, <3>1, <3>2, <3>3, ToldStays DEF Tally
      <3> QED
        BY <3>4
    <2>6. \A b \in Outstanding' :
             b.round \notin late' /\ b.path # <<web.root>> => Parent(b) \in DOMAIN asking'
      BY <1>2, <2>2, <2>4 DEF AllTold, Waited
    <2>7. \A r \in DOMAIN result' : /\ Whole(r) \notin DOMAIN asking'
                                    /\ Exact(r)' => result'[r] = Told(<<web.root>>, Stars)
      BY <1>7, <2>1, <2>2 DEF AllTold, Single, Results
    <2>8. \A r \in late' \cup DOMAIN result' : r <= round
      BY <1>2, <2>1 DEF AllTold, Begun
    <2>9. \A b \in DOMAIN asking' :
              \/ b.round \in late'
              \/ asking'[b] = asking[b]
              \/ \E C \in SUBSET ToAsk(b) : Tally(b, C)'
      BY <1>2, <2>2, <2>5
    <2>10. /\ shards' \subseteq shards /\ DOMAIN asking' \subseteq DOMAIN asking
           /\ \A o \in echoes' : o \in echoes
      BY <1>2, <2>1, <2>2
    <2>11. (Begun /\ Single /\ Waited /\ Tallied /\ Echoed /\ Results)'
      BY <1>2, <2>6, <2>7, <2>8, <2>9, <2>10, LessTold
    <2> QED
      BY <1>2, <2>1, <2>11, InTimeStays DEF AllTold
  <1>12. CASE ~(asking[a].left > 1)
    <2>1. /\ asking' = [b \in DOMAIN asking \ {a} |-> asking[b]]
          /\ \/ Finish(a, d, echoes \ {e}) /\ UNCHANGED faults
             \/ /\ Star(a) \in web.hosts /\ a # Whole(a.round)
                /\ Fault("failed", a.round)
                /\ echoes' = (echoes \ {e}) \cup {[of |-> a, found |-> Nothing]}
                /\ UNCHANGED result
      BY <1>6, <1>12
    <2>2. DOMAIN asking' = DOMAIN asking \ {a} /\ \A b \in DOMAIN asking' : asking'[b] = asking[b]
      BY <2>1
    <2>3. ASSUME a.round \notin late
          PROVE  /\ Exact(a.round) => d = Told(a.path, Stars)
                 /\ \A s \in ToAsk(a) : \/ Asking(a.round, Append(a.path, s)) \notin Outstanding
                                        \/ Asking(a.round, Append(a.path, s)) = e.of
      <3>1. PICK C \in SUBSET ToAsk(a) :
               /\ asking[a].left = Cardinality(ToAsk(a)) - Cardinality(C) + 1
               /\ Cardinality(C) \in Nat /\ Cardinality(C) <= Cardinality(ToAsk(a))
               /\ Exact(a.round) => d = Told(a.path, C)
               /\ \A s \in C : \/ Asking(a.round, Append(a.path, s)) \notin Outstanding
                               \/ Asking(a.round, Append(a.path, s)) = e.of
        BY <1>9, <2>3
      <3>2. Cardinality(ToAsk(a)) = Cardinality(C)
        BY <1>1, <1>8, <1>12, <3>1
      <3>3. C = ToAsk(a)
        BY <1>8, <3>1, <3>2, FS_Subset
      <3> QED
        BY <1>1, <3>1, <3>3, ToldAll
    <2>4. \A b \in Outstanding' :
             b = a \/ b \in shards \cup DOMAIN asking \cup {o.of : o \in echoes \ {e}}
      BY <1>2, <2>1, <2>2 DEF Outstanding, Finish
    <2>5. \A b \in Outstanding' : b \in Outstanding
      BY <1>1, <2>4 DEF Outstanding
    <2>6. ASSUME NEW b \in Outstanding', b.round \notin late, b.path # <<web.root>>
          PROVE  Parent(b) \in DOMAIN asking'
      <3>1. Parent(b) \in DOMAIN asking
        BY <2>5, <2>6 DEF AllTold, Waited
      <3>2. b \in Askings /\ Way(b.path)
        BY <2>5 DEF Outstanding, IInv, TypeOK, Walks
      <3>3. /\ Parent(b).round = b.round /\ Parent(b) # b
            /\ (Parent(b).path # <<>> => Star(b) \in ToAsk(Parent(b)))
            /\ b = Asking(b.round, Append(Parent(b).path, Star(b)))
        BY <1>1, <2>6, <3>2, AskedFor
      <3>4. ASSUME Parent(b) = a PROVE FALSE
        <4>1. b = Asking(a.round, Append(a.path, Star(b))) /\ Star(b) \in ToAsk(a) /\ a.round \notin late
          BY <1>1, <2>6, <3>3, <3>4
        <4>2. b = e.of
          BY <2>3, <2>5, <4>1
        <4>3. b \notin shards \cup DOMAIN asking \cup {o.of : o \in echoes \ {e}}
          BY <1>10, <4>1, <4>2
        <4> QED
          BY <2>4, <3>3, <3>4, <4>3
      <3> QED
        BY <2>2, <3>1, <3>4
    <2>7. a.round \notin late => a \notin shards' \cup DOMAIN asking'
      BY <1>1, <1>2, <2>2 DEF AllTold, Single
    <2>8. Exact(a.round)' => Exact(a.round) /\ a.round \notin late
      BY <1>7 DEF Exact
    <2>9. /\ shards' \subseteq shards /\ DOMAIN asking' \subseteq DOMAIN asking
          /\ a \notin DOMAIN asking' /\ echoes \ {e} \in SUBSET echoes
          /\ a \in shards \cup DOMAIN asking
      BY <1>1, <1>2, <2>2
    <2>10. CASE Finish(a, d, echoes \ {e}) /\ UNCHANGED faults
      <3>1. (Begun /\ Single /\ Waited /\ Tallied /\ Echoed /\ Results)'
        BY <1>1, <1>2, <2>2, <2>3, <2>6, <2>7, <2>8, <2>9, <2>10, FinishTold
      <3> QED
        BY <1>2, <2>10, <3>1, FinishKeeps, InTimeStays DEF AllTold
    <2>11. CASE /\ Star(a) \in web.hosts /\ a # Whole(a.round)
                /\ Fault("failed", a.round)
                /\ echoes' = (echoes \ {e}) \cup {[of |-> a, found |-> Nothing]}
                /\ UNCHANGED result
      <3>1. ~Exact(a.round)'
        BY <2>11 DEF Fault, Exact
      <3>2. (Begun /\ Single /\ Waited /\ Tallied /\ Echoed /\ Results)'
        BY <1>2, <2>2, <2>6, <2>7, <2>9, <2>11, <3>1, EchoTold
      <3> QED
        BY <1>2, <2>11, <3>2, InTimeStays DEF AllTold
    <2> QED
      BY <2>1, <2>10, <2>11
  <1> QED
    BY <1>11, <1>12

\* Messages are refused or lost, a timer is due, or the loop goes on.
LEMMA OtherTold ==
    ASSUME IInv, AllTold,
           \/ Lose
           \/ \E e \in echoes : Refuse(e)
           \/ \E r \in Rounds : Deadline(r)
           \/ Accept \/ GiveUp
           \/ UNCHANGED vars
    PROVE  AllTold'
  <1>1. /\ UNCHANGED <<web, round, asking, result>> /\ late \subseteq late' /\ faults \subseteq faults'
        /\ shards' \subseteq shards /\ echoes' \subseteq echoes
    BY DEF Lose, Refuse, Deadline, Accept, GiveUp, vars, Fault
  <1>2. \A r \in late' : r \in late \/ Whole(r) \in DOMAIN asking
    BY DEF Lose, Refuse, Deadline, Accept, GiveUp, vars
  <1>3. \A r \in late' \cup DOMAIN result' : r <= round
    <2>1. \A r : Whole(r).round = r
      BY DEF Whole, Asking
    <2> QED
      BY <1>1, <1>2, <2>1 DEF AllTold, Begun, Outstanding
  <1>4. \A b \in Outstanding' :
           b.round \notin late' /\ b.path # <<web.root>> => Parent(b) \in DOMAIN asking'
    BY <1>1 DEF AllTold, Waited, Outstanding
  <1>5. \A r \in DOMAIN result' : /\ Whole(r) \notin DOMAIN asking'
                                  /\ Exact(r)' => result'[r] = Told(<<web.root>>, Stars)
    BY <1>1 DEF AllTold, Single, Results, Exact
  <1>6. (Begun /\ Single /\ Waited /\ Tallied /\ Echoed /\ Results)'
    BY <1>1, <1>3, <1>4, <1>5, LessTold
  <1>7. InTime'
    <2>1. CASE \E r \in Rounds : Deadline(r)
      <3>1. PICK r \in Rounds : Deadline(r)
        BY <2>1
      <3>2. /\ late' = late \cup {r} /\ UNCHANGED <<loop, round, result>>
            /\ Whole(r) \in DOMAIN asking /\ (loop = "wait" => r # round)
        BY <3>1 DEF Deadline
      <3>3. loop = "wrangled" => r # round
        BY <3>2 DEF AllTold, InTime, Single
      <3>4. loop \in {"start", "wait", "wrangled"}
        BY DEF IInv, TypeOK
      <3> QED
        BY <3>2, <3>3, <3>4 DEF AllTold, InTime
    <2>2. CASE Accept \/ GiveUp
      BY <2>2 DEF Accept, GiveUp, AllTold, InTime
    <2>3. CASE Lose \/ (\E e \in echoes : Refuse(e)) \/ UNCHANGED vars
      BY <2>3 DEF Lose, Refuse, vars, AllTold, InTime
    <2> QED
      BY <2>1, <2>2, <2>3
  <1> QED
    BY <1>6, <1>7 DEF AllTold

\* A timer fires: what came is dropped, but the round is late.
LEMMA TimeoutTold ==
    ASSUME IInv, AllTold, NEW a \in DOMAIN asking, Timeout(a)
    PROVE  AllTold'
  <1>1. /\ a.round \in late /\ Finish(a, Nothing, echoes)
        /\ asking' = [b \in DOMAIN asking \ {a} |-> asking[b]]
        /\ UNCHANGED <<web, loop, round, shards, late, faults>>
    BY DEF Timeout
  <1>2. DOMAIN asking' = DOMAIN asking \ {a} /\ \A b \in DOMAIN asking' : asking'[b] = asking[b]
    BY <1>1
  <1>3. ~Exact(a.round)'
    BY <1>1 DEF Exact
  <1>4. \A b \in Outstanding' : b \in Outstanding
    BY <1>1, <1>2 DEF Outstanding, Finish
  <1>5. ASSUME NEW b \in Outstanding', b.round \notin late, b.path # <<web.root>>
        PROVE  Parent(b) \in DOMAIN asking'
    <2>1. Parent(b) \in DOMAIN asking
      BY <1>4, <1>5 DEF AllTold, Waited
    <2>2. Parent(b).round = b.round
      BY DEF Parent, Asking
    <2> QED
      BY <1>1, <1>2, <1>5, <2>1, <2>2
  <1>6. (Begun /\ Single /\ Waited /\ Tallied /\ Echoed /\ Results)'
    BY <1>1, <1>2, <1>3, <1>5, FinishTold
  <1> QED
    BY <1>1, <1>6, FinishKeeps, InTimeStays DEF AllTold

\* At first nothing was asked.
LEMMA InitTold == Init => AllTold
  <1> SUFFICES ASSUME Init PROVE AllTold
    OBVIOUS
  <1>1. /\ shards = {} /\ DOMAIN asking = {} /\ echoes = {} /\ DOMAIN result = {} /\ late = {}
        /\ loop = "start"
    BY DEF Init
  <1> QED
    BY <1>1 DEF AllTold, Begun, Single, Waited, Tallied, Echoed, Results, InTime, Outstanding

\* Every step keeps the count.
LEMMA NextTold == IInv /\ AllTold /\ [Next]_vars => AllTold'
  <1> SUFFICES ASSUME IInv, AllTold, [Next]_vars PROVE AllTold'
    OBVIOUS
  <1>1. CASE StartRound
    BY <1>1, StartTold
  <1>2. ASSUME NEW a \in shards, Forward(a) \/ Answer(a) \/ AnswerFails(a) PROVE AllTold'
    BY <1>2, ShardTold
  <1>3. ASSUME NEW e \in echoes, Collect(e) PROVE AllTold'
    BY <1>3, CollectTold
  <1>4. ASSUME NEW a \in DOMAIN asking, Timeout(a) PROVE AllTold'
    BY <1>4, TimeoutTold
  <1>5. CASE \/ Lose \/ (\E e \in echoes : Refuse(e)) \/ (\E r \in Rounds : Deadline(r))
             \/ Accept \/ GiveUp \/ UNCHANGED vars
    BY <1>5, OtherTold
  <1> QED
    BY <1>1, <1>2, <1>3, <1>4, <1>5 DEF Next, Go

\* A star that has stopped wrangling has found every star that can be wrangled and that
\* forwarders lead to, once for every way to it, unless one failed to answer for itself: for
\* every web, whatever is lost and however slow they are.
THEOREM WrangledKnowsAll == Spec => []WrangledMeansAll
  <1>1. IInv /\ AllTold => WrangledMeansAll
    <2> SUFFICES ASSUME IInv, AllTold, loop = "wrangled", <<"failed", round>> \notin faults
                 PROVE  Complete(result[round])
      BY DEF WrangledMeansAll
    <2>1. round \in DOMAIN result /\ Exact(round)
      BY DEF AllTold, InTime, Exact
    <2>2. result[round] = Told(<<web.root>>, Stars)
      BY <2>1 DEF AllTold, Results
    <2> QED
      BY <2>2, ToldRoot DEF IInv
  <1> QED
    BY <1>1, SpecIInv, InitTold, NextTold, PTL DEF Spec
=============================================================================
