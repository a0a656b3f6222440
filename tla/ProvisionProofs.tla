-------------------------- MODULE ProvisionProofs --------------------------
(***************************************************************************)
(* Theorems about Provision for any stars, points, kinds and tasks.  What  *)
(* carries them is that a task asks for a particle at most once, because   *)
(* the points of its stack get shorter; so that an assignment belongs to   *)
(* one provision, and its key never changes under it.  The turns are fair  *)
(* because a selector's discoveries stay sorted, so that its step_index    *)
(* counts its nearest stars and these come first; because its picks are    *)
(* those at the indices up to its last one; and because n indices that     *)
(* follow each other have every remainder by n once.                       *)
(***************************************************************************)
EXTENDS Provision, FiniteSetTheorems, SequenceTheorems, TLAPS

\* The particles a task provisions: its own, then parent after parent.
StackOK(t) ==
    LET stack == task[t].stack
    IN  /\ task[t].at = "start" => stack = <<>>
        /\ stack # <<>> => stack[1] = goal[t]
        /\ \A i \in 1..Len(stack) : stack[i] \in known
        /\ \A i \in 1..Len(stack) - 1 : stack[i] # Root /\ stack[i + 1] = Parent[stack[i]]
        /\ \A i, j \in 1..Len(stack) : i < j => Depth[stack[j]] < Depth[stack[i]]
        /\ task[t].at \in {"parent", "again", "wait", "panicked"} => stack # <<>>
        /\ task[t].at \in {"again", "wait", "panicked"} => stack[Len(stack)] # Root

\* What it has still to ask for it has not asked for.
Fresh(t) ==
    LET stack == task[t].stack
    IN  /\ task[t].at \in {"start", "parent"} =>
             \A p \in Points : provisions[<<t, p>>].at = "none"
        /\ task[t].at = "again" =>
             \A i \in 1..Len(stack) : provisions[<<t, stack[i]>>].at = "none"
        /\ task[t].at = "wait" =>
             \A i \in 1..Len(stack) - 1 : provisions[<<t, stack[i]>>].at = "none"

\* What is true of a provision and its assignment.
Serves(t, p) ==
    LET ask == provisions[<<t, p>>]
        done == assigns[<<t, p>>]
    IN  /\ ask.at \in {"none", "sent", "turn", "lost"} => done = "none"
        /\ ask.at # "none" => ask.star \in Stars /\ p \in known
        /\ done # "none" => ask.key \in Stars /\ ask.at # "none"
        /\ ask.at = "turn" => wrangles[ask.star][KindOf[p]] # <<>>
        /\ done = "driver" => <<ask.key, p>> \in shells
        /\ done \in {"driven", "ok"} => Hosts(ask.key, p)
        /\ ask.at = "ok" => done = "ok"
        /\ done = "ok" => home[p] # None \/ <<t, p>> \in again

Registered == \A p \in Points : home[p] # None => p \in known

\* A parent that was provisioned has its star, unless it was created again after that.
Unwraps(t) ==
    LET stack == task[t].stack
        parent == Parent[stack[Len(stack)]]
    IN  /\ task[t].at = "again" => /\ assigns[<<t, parent>>] = "ok"
                                   /\ home[parent] # None \/ <<t, parent>> \in again
        /\ task[t].at = "panicked" => <<t, parent>> \in again

\* A selector is sorted, and its step_index is what sort has counted last.
Stepped(s, k) ==
    /\ Sorted(wrangles[s][k])
    /\ step[s][k] = StepIndex(wrangles[s][k])

IInv ==
    /\ TypeOK
    /\ Registered
    /\ \A t \in Tasks : StackOK(t) /\ Fresh(t) /\ Unwraps(t)
    /\ \A t \in Tasks, p \in Points : Serves(t, p)
    /\ \A s \in Stars, k \in Kinds : Stepped(s, k)
    /\ HomesServe

-----------------------------------------------------------------------------
(* Sequences.                                                              *)

LEMMA LastOf ==
    ASSUME NEW S, NEW q \in Seq(S), q # <<>>
    PROVE  Last(q) \in S /\ Last(q) = q[Len(q)] /\ Len(q) \in Nat \ {0}
  BY DEF Last

LEMMA FrontOf ==
    ASSUME NEW S, NEW q \in Seq(S), q # <<>>
    PROVE  /\ Front(q) \in Seq(S) /\ Len(Front(q)) = Len(q) - 1
           /\ \A i \in 1..Len(q) - 1 : Front(q)[i] = q[i]
  BY DEF Front

LEMMA InsertOf ==
    ASSUME NEW S, NEW q \in Seq(S), NEW e \in S, NEW i \in 1..Len(q) + 1
    PROVE  InsertAt(q, i, e) \in Seq(S) /\ InsertAt(q, i, e) # <<>>
  <1> DEFINE l == SubSeq(q, 1, i - 1)
             r == SubSeq(q, i, Len(q))
  <1>1. l \in Seq(S) /\ r \in Seq(S)
    OBVIOUS
  <1>2. InsertAt(q, i, e) = l \o <<e>> \o r
    BY DEF InsertAt
  <1> HIDE DEF l, r
  <1>3. Len(l \o <<e>> \o r) = Len(l) + 1 + Len(r) /\ Len(l) \in Nat /\ Len(r) \in Nat
    BY <1>1
  <1>4. l \o <<e>> \o r \in Seq(S)
    BY <1>1
  <1> QED
    BY <1>2, <1>3, <1>4

\* A set of numbers that has all numbers below one of its own is an interval.
LEMMA Below ==
    ASSUME NEW n \in Nat, NEW A \in SUBSET (1..n), \A i \in A : 1..i \subseteq A
    PROVE  Cardinality(A) \in 0..n /\ A = 1..Cardinality(A)
  <1>1. IsFiniteSet(1..n) /\ Cardinality(1..n) = n
    BY FS_Interval
  <1>2. IsFiniteSet(A) /\ Cardinality(A) \in Nat /\ Cardinality(A) <= n
    <2>1. IsFiniteSet(A) /\ Cardinality(A) <= Cardinality(1..n)
      <3>1. PICK B : B = 1..n
        OBVIOUS
      <3>2. IsFiniteSet(B) /\ A \in SUBSET B
        BY <1>1, <3>1
      <3>3. IsFiniteSet(A) /\ Cardinality(A) <= Cardinality(B)
        BY <3>2, FS_Subset
      <3> QED
        BY <3>1, <3>3
    <2> QED
      BY <1>1, <2>1, FS_CardinalityType
  <1> DEFINE m == Cardinality(A)
  <1>3. m \in Nat /\ IsFiniteSet(1..m) /\ Cardinality(1..m) = m
    BY <1>2, FS_Interval
  <1>4. ASSUME NEW i \in A PROVE i \in 1..m
    <2>1. i \in Nat /\ i >= 1 /\ 1..i \subseteq A
      OBVIOUS
    <2>2. Cardinality(1..i) = i
      BY <2>1, FS_Interval
    <2>3. Cardinality(1..i) <= m
      BY <1>2, <2>1, FS_Subset
    <2> QED
      BY <1>3, <2>1, <2>2, <2>3
  <1>5. A \subseteq 1..m
    BY <1>4
  <1>6. A = 1..m
    BY <1>3, <1>5, FS_Subset
  <1> QED
    BY <1>2, <1>6

\* Of sorted discoveries the first ones are the nearest, and the step_index counts them.
LEMMA StepIs ==
    ASSUME NEW l \in Seq(Discoveries), Sorted(l)
    PROVE  /\ StepIndex(l) \in 0..Len(l)
           /\ l # <<>> => StepIndex(l) # 0
           /\ Nearest(l) = 1..StepIndex(l)
  <1>1. Len(l) \in Nat /\ DOMAIN l = 1..Len(l) /\ \A i \in 1..Len(l) : l[i].hops \in Nat
    <2>1. \A i \in 1..Len(l) : l[i] \in Discoveries
      OBVIOUS
    <2>2. \A d \in Discoveries : d.hops \in Nat
      BY DEF Discoveries
    <2> QED
      BY <2>1, <2>2
  <1>2. \A i, j \in 1..Len(l) : i <= j => l[i].hops <= l[j].hops
    <2>1. \A i, j \in 1..Len(l) : i < j => l[i].hops <= l[j].hops
      BY <1>1 DEF Sorted
    <2> SUFFICES ASSUME NEW i \in 1..Len(l), NEW j \in 1..Len(l), i <= j
                 PROVE  l[i].hops <= l[j].hops
      OBVIOUS
    <2>2. CASE i = j
      BY <1>1, <2>2
    <2>3. CASE i < j
      BY <2>1, <2>3
    <2> QED
      BY <2>2, <2>3
  <1> DEFINE n == Len(l)
             A == {i \in DOMAIN l : \A j \in 1..i : l[j].hops <= l[1].hops}
  <1>3. n \in Nat /\ DOMAIN l = 1..n
    BY <1>1
  <1>4. \A i \in A : i \in 1..n /\ 1..i \subseteq A
    <2> SUFFICES ASSUME NEW i \in A, NEW j \in 1..i PROVE i \in 1..n /\ j \in A
      OBVIOUS
    <2>1. i \in 1..n /\ \A h \in 1..i : l[h].hops <= l[1].hops
      BY <1>3
    <2>2. j \in 1..n /\ \A h \in 1..j : h \in 1..i
      BY <1>3, <2>1
    <2> QED
      BY <1>3, <2>1, <2>2
  <1>5. Nearest(l) = A
    <2> SUFFICES ASSUME NEW i \in 1..n
                 PROVE  (\A j \in 1..n : l[i].hops <= l[j].hops)
                          <=> (\A j \in 1..i : l[j].hops <= l[1].hops)
      BY <1>3 DEF Nearest
    <2>0. 1 \in 1..n /\ i \in 1..i /\ \A j \in 1..n : 1 <= j
      BY <1>3
    <2>1. ASSUME \A j \in 1..n : l[i].hops <= l[j].hops, NEW j \in 1..i
          PROVE  l[j].hops <= l[1].hops
      <3>1. j \in 1..n /\ j <= i
        BY <1>3
      <3>2. l[j].hops <= l[i].hops /\ l[i].hops <= l[1].hops
        BY <1>2, <2>0, <2>1, <3>1
      <3> QED
        BY <1>1, <2>0, <3>1, <3>2
    <2>2. ASSUME \A j \in 1..i : l[j].hops <= l[1].hops, NEW j \in 1..n
          PROVE  l[i].hops <= l[j].hops
      <3>1. l[i].hops <= l[1].hops /\ l[1].hops <= l[j].hops
        BY <1>2, <2>0, <2>2
      <3> QED
        BY <1>1, <2>0, <3>1
    <2> QED
      BY <2>1, <2>2
  <1>6. l # <<>> => 1 \in A
    <2> SUFFICES ASSUME l # <<>> PROVE 1 \in A
      OBVIOUS
    <2>1. 1 \in 1..n
      BY <1>1
    <2>2. \A j \in 1..1 : l[j].hops <= l[1].hops
      BY <1>1, <2>1
    <2> QED
      BY <1>3, <2>1, <2>2
  <1>7. StepIndex(l) = Cardinality(A)
    BY DEF StepIndex
  <1> HIDE DEF n, A
  <1>8. A \in SUBSET (1..n)
    BY <1>4
  <1>9. Cardinality(A) \in 0..n /\ A = 1..Cardinality(A)
    BY <1>3, <1>4, <1>8, Below
  <1>10. 1 \in A => Cardinality(A) # 0
    BY <1>9
  <1> QED
    BY <1>5, <1>6, <1>7, <1>9, <1>10 DEF n

\* A selector that has stars picks one of them.
LEMMA PickType ==
    ASSUME TypeOK, NEW s \in Stars, NEW k \in Kinds, NEW i \in Nat, wrangles[s][k] # <<>>,
           Stepped(s, k)
    PROVE  Pick(s, k, i) \in Stars
  <1>0. PICK q, n : q = wrangles[s][k] /\ n = step[s][k]
    OBVIOUS
  <1>1. q \in Seq(Discoveries) /\ q # <<>> /\ Sorted(q) /\ n = StepIndex(q)
    BY <1>0 DEF TypeOK, Stepped
  <1>2. n \in 1..Len(q)
    <2>1. Len(q) \in Nat /\ n \in 0..Len(q) /\ n # 0
      BY <1>1, StepIs
    <2> QED
      BY <2>1
  <1> DEFINE r == i % n
  <1>3. n \in Nat \ {0} /\ Len(q) \in Nat /\ n <= Len(q)
    BY <1>1, <1>2
  <1>4. r \in 0..n - 1
    BY <1>3
  <1> HIDE DEF r
  <1>5. r + 1 \in 1..Len(q)
    BY <1>3, <1>4
  <1>6. q[r + 1] \in Discoveries
    BY <1>1, <1>5
  <1>7. q[r + 1].star \in Stars
    BY <1>6 DEF Discoveries
  <1> QED
    BY <1>0, <1>7 DEF Pick, r

-----------------------------------------------------------------------------
(* Types, and what the parts of actions do to the tables.                  *)

Ats == {"start", "parent", "again", "wait", "done", "failed", "panicked"}
TaskType == [Tasks -> [at : Ats, stack : Seq(Points), found : Stars \cup {None}]]
AskAts == {"none", "sent", "lost", "turn", "itself", "assigns", "ok", "error"}
Asks == [at : AskAts, star : Stars \cup {None}, key : Stars \cup {None}]
Dones == {"none", "sent", "lost", "driver", "driven", "ok", "error"}

LEMMA Types ==
    TypeOK => /\ task \in TaskType
              /\ provisions \in [Ids -> Asks]
              /\ assigns \in [Ids -> Dones]
              /\ home \in [Points -> Stars \cup {None}]
  BY DEF TypeOK, TaskType, Ats, Asks, AskAts, Dones

\* A task moves on.
LEMMA GoIs ==
    ASSUME TypeOK, NEW t \in Tasks, NEW at \in Ats, NEW stack \in Seq(Points), Go(t, at, stack)
    PROVE  /\ task' \in TaskType
           /\ task'[t] = [at |-> at, stack |-> stack, found |-> task[t].found]
           /\ \A u \in Tasks : u # t => task'[u] = task[u]
  <1>1. task \in TaskType
    BY Types
  <1> QED
    BY <1>1 DEF Go, TaskType

\* A task has found its star.
LEMMA FoundIs ==
    ASSUME TypeOK, NEW t \in Tasks, NEW s \in Stars, Found(t, s)
    PROVE  /\ task' \in TaskType
           /\ task'[t] = [at |-> "done", stack |-> task[t].stack, found |-> s]
           /\ \A u \in Tasks : u # t => task'[u] = task[u]
  <1>1. task \in TaskType
    BY Types
  <1> QED
    BY <1>1 DEF Found, TaskType, Ats

\* The parent of what a task provisions is a point.
LEMMA TopType ==
    ASSUME TypeOK, NEW t \in Tasks, StackOK(t), task[t].stack # <<>>
    PROVE  /\ Top(t) \in Points /\ Top(t) \in known
           /\ Top(t) = task[t].stack[Len(task[t].stack)]
           /\ Len(task[t].stack) \in Nat \ {0}
           /\ Top(t) # Root => Parent[Top(t)] \in Points
  <1>1. task[t].stack \in Seq(Points)
    BY DEF TypeOK
  <1>2. /\ Top(t) \in Points
        /\ Top(t) = task[t].stack[Len(task[t].stack)]
        /\ Len(task[t].stack) \in Nat \ {0}
    BY <1>1, LastOf DEF Top
  <1>3. Top(t) \in known
    BY <1>2 DEF StackOK
  <1> QED
    BY <1>2, <1>3, ProvisionAssumption

\* A task asks.
LEMMA AskIs ==
    ASSUME TypeOK, NEW t \in Tasks, NEW p \in Points \ {Root}, Ask(t, p)
    PROVE  /\ provisions' \in [Ids -> Asks]
           /\ provisions'[<<t, p>>] = [at |-> "sent", star |-> home[Parent[p]], key |-> None]
           /\ \A id \in Ids : id # <<t, p>> => provisions'[id] = provisions[id]
           /\ task' \in TaskType
           /\ task'[t] = [at |-> "wait", stack |-> task[t].stack, found |-> task[t].found]
           /\ \A u \in Tasks : u # t => task'[u] = task[u]
  <1>1. provisions \in [Ids -> Asks] /\ home \in [Points -> Stars \cup {None}] /\ task \in TaskType
    BY Types
  <1>2. Parent[p] \in Points
    BY ProvisionAssumption
  <1>3. [at |-> "sent", star |-> home[Parent[p]], key |-> None] \in Asks
    BY <1>1, <1>2 DEF Asks, AskAts
  <1>4. <<t, p>> \in Ids
    BY DEF Ids
  <1>5. task[t].stack \in Seq(Points)
    BY <1>1 DEF TaskType
  <1>6. Go(t, "wait", task[t].stack)
    BY DEF Ask
  <1>7. "wait" \in Ats
    BY DEF Ats
  <1>8. provisions' = [provisions EXCEPT ![<<t, p>>] =
                        [at |-> "sent", star |-> home[Parent[p]], key |-> None]]
    BY DEF Ask
  <1>9. /\ provisions' \in [Ids -> Asks]
        /\ provisions'[<<t, p>>] = [at |-> "sent", star |-> home[Parent[p]], key |-> None]
        /\ \A id \in Ids : id # <<t, p>> => provisions'[id] = provisions[id]
    BY <1>1, <1>3, <1>4, <1>8
  <1>10. /\ task' \in TaskType
         /\ task'[t] = [at |-> "wait", stack |-> task[t].stack, found |-> task[t].found]
         /\ \A u \in Tasks : u # t => task'[u] = task[u]
    BY <1>5, <1>6, <1>7, GoIs
  <1> QED
    BY <1>9, <1>10

\* A provision is at another place, with or without another key.
LEMMA ProvisionIs ==
    ASSUME TypeOK, NEW id \in Ids, NEW at \in AskAts,
           provisions' = [provisions EXCEPT ![id].at = at]
    PROVE  /\ provisions' \in [Ids -> Asks]
           /\ provisions'[id] = [at |-> at, star |-> provisions[id].star, key |-> provisions[id].key]
           /\ \A i \in Ids : i # id => provisions'[i] = provisions[i]
  <1>1. provisions \in [Ids -> Asks]
    BY Types
  <1> QED
    BY <1>1 DEF Asks

LEMMA KeyIs ==
    ASSUME TypeOK, NEW id \in Ids, NEW at \in AskAts, NEW s \in Stars,
           provisions' = [provisions EXCEPT ![id].at = at, ![id].key = s]
    PROVE  /\ provisions' \in [Ids -> Asks]
           /\ provisions'[id] = [at |-> at, star |-> provisions[id].star, key |-> s]
           /\ \A i \in Ids : i # id => provisions'[i] = provisions[i]
  <1>1. provisions \in [Ids -> Asks]
    BY Types
  <1> QED
    BY <1>1 DEF Asks

LEMMA AssignIs ==
    ASSUME TypeOK, NEW id \in Ids, NEW done \in Dones,
           assigns' = [assigns EXCEPT ![id] = done]
    PROVE  /\ assigns' \in [Ids -> Dones]
           /\ assigns'[id] = done
           /\ \A i \in Ids : i # id => assigns'[i] = assigns[i]
  <1>1. assigns \in [Ids -> Dones]
    BY Types
  <1> QED
    BY <1>1

\* TypeOK in the words of this module.
Typed ==
    /\ goal \in [Tasks -> Points] /\ makers \subseteq Tasks
    /\ task \in TaskType
    /\ known \subseteq Points /\ panic \subseteq Points /\ again \subseteq Ids
    /\ home \in [Points -> Stars \cup {None}]
    /\ provisions \in [Ids -> Asks]
    /\ assigns \in [Ids -> Dones]
    /\ shells \subseteq Stars \X Points /\ driven \subseteq Stars \X Points
    /\ wrangles \in [Stars -> [Kinds -> Seq(Discoveries)]]
    /\ step \in [Stars -> [Kinds -> Nat]]
    /\ index \in [Stars -> [Kinds -> Nat]]
    /\ lock \in [Stars -> [Kinds -> Ids \cup {None}]]
    /\ adding \in [Stars -> Seq(Kinds \X Discoveries)]
    /\ guard \subseteq Stars
    /\ picks \in [Stars -> [Kinds -> Seq(Stars)]]
    /\ lost \in 0..MaxLost

LEMMA TypedIs == (TypeOK <=> Typed) /\ (TypeOK <=> Typed)'
  BY DEF Typed, TypeOK, TaskType, Ats, Asks, AskAts, Dones

\* A task's step.
LEMMA TypeTask ==
    ASSUME IInv, NEW t \in Tasks,
           Locate(t) \/ Create(t) \/ AskParent(t) \/ AskAgain(t) \/ Answered(t) \/ TimesOut(t)
    PROVE  TypeOK'
  <1> USE DEF registry, hosting, selectors, rounds
  <1>0. TypeOK /\ StackOK(t) /\ goal[t] \in Points /\ task[t].stack \in Seq(Points)
    BY DEF IInv, TypeOK
  <1>1. CASE Locate(t)
    <2>1. task' \in TaskType
      <3>1. <<goal[t]>> \in Seq(Points) /\ <<>> \in Seq(Points)
        BY <1>0
      <3>2. home[goal[t]] # None => home[goal[t]] \in Stars
        BY <1>0 DEF TypeOK
      <3>3. {"failed", "parent"} \subseteq Ats
        BY DEF Ats
      <3> QED
        BY <1>0, <1>1, <3>1, <3>2, <3>3, GoIs, FoundIs DEF Locate
    <2> QED
      BY <1>0, <1>1, <2>1, TypedIs DEF Typed, Locate
  <1>2. CASE Create(t)
    <2>1. task' \in TaskType
      <3>1. <<goal[t]>> \in Seq(Points) /\ <<>> \in Seq(Points)
        BY <1>0
      <3>2. {"done", "parent"} \subseteq Ats
        BY DEF Ats
      <3> QED
        BY <1>0, <1>2, <3>1, <3>2, GoIs DEF Create
    <2>2. home' \in [Points -> Stars \cup {None}] /\ known' \subseteq Points
          /\ panic' \subseteq Points /\ again' \subseteq Ids
      BY <1>0, <1>2, TypedIs DEF Typed, Create
    <2> QED
      BY <1>0, <1>2, <2>1, <2>2, TypedIs DEF Typed, Create
  <1>3. CASE AskParent(t)
    <2>1. task[t].stack # <<>> /\ Top(t) \in Points /\ (Top(t) # Root => Parent[Top(t)] \in Points)
      BY <1>0, <1>3, TopType DEF AskParent, StackOK
    <2>2. CASE Top(t) # Root /\ home[Parent[Top(t)]] # None /\ Ask(t, Top(t))
      <3>1. task' \in TaskType /\ provisions' \in [Ids -> Asks]
        BY <1>0, <2>1, <2>2, AskIs
      <3> QED
        BY <1>0, <1>3, <3>1, TypedIs DEF Typed, AskParent
    <2>3. CASE provisions' = provisions /\ Go(t, "failed", <<>>)
      <3>1. "failed" \in Ats /\ <<>> \in Seq(Points)
        BY DEF Ats
      <3>2. task' \in TaskType
        BY <1>0, <2>3, <3>1, GoIs
      <3> QED
        BY <1>0, <1>3, <2>3, <3>2, TypedIs DEF Typed, AskParent
    <2>4. CASE Top(t) # Root /\ provisions' = provisions
               /\ Go(t, "parent", Append(task[t].stack, Parent[Top(t)]))
      <3>1. "parent" \in Ats /\ Append(task[t].stack, Parent[Top(t)]) \in Seq(Points)
        BY <1>0, <2>1, <2>4 DEF Ats
      <3>2. task' \in TaskType
        BY <1>0, <2>4, <3>1, GoIs
      <3> QED
        BY <1>0, <1>3, <2>4, <3>2, TypedIs DEF Typed, AskParent
    <2> QED
      BY <1>3, <2>2, <2>3, <2>4 DEF AskParent
  <1>4. CASE AskAgain(t)
    <2>1. task[t].stack # <<>> /\ Top(t) \in Points \ {Root}
      BY <1>0, <1>4, TopType DEF AskAgain, StackOK
    <2>2. CASE Ask(t, Top(t))
      <3>1. task' \in TaskType /\ provisions' \in [Ids -> Asks]
        BY <1>0, <2>1, <2>2, AskIs
      <3> QED
        BY <1>0, <1>4, <3>1, TypedIs DEF Typed, AskAgain
    <2>3. CASE provisions' = provisions /\ Go(t, "panicked", task[t].stack)
      <3>1. "panicked" \in Ats
        BY DEF Ats
      <3>2. task' \in TaskType
        BY <1>0, <2>3, <3>1, GoIs
      <3> QED
        BY <1>0, <1>4, <2>3, <3>2, TypedIs DEF Typed, AskAgain
    <2> QED
      BY <1>4, <2>2, <2>3 DEF AskAgain
  <1>5. CASE Answered(t)
    <2>1. /\ task[t].stack # <<>> /\ Top(t) \in Points /\ <<t, Top(t)>> \in Ids
          /\ Top(t) = task[t].stack[Len(task[t].stack)]
      BY <1>0, <1>5, TopType DEF Answered, StackOK, Ids
    <2>2. Serves(t, Top(t))
      BY <2>1 DEF IInv
    <2>3. CASE provisions[<<t, Top(t)>>].at = "ok" /\ UNCHANGED panic
      <3>1. provisions[<<t, Top(t)>>].key \in Stars
        BY <2>2, <2>3 DEF Serves
      <3>2. Front(task[t].stack) \in Seq(Points) /\ "again" \in Ats
        BY <1>0, <2>1, FrontOf DEF Ats
      <3>3. Found(t, provisions[<<t, Top(t)>>].key) \/ Go(t, "again", Front(task[t].stack))
        BY <1>5, <2>3 DEF Answered
      <3>4. task' \in TaskType
        BY <1>0, <3>1, <3>2, <3>3, GoIs, FoundIs
      <3> QED
        BY <1>0, <1>5, <2>3, <3>4, TypedIs DEF Typed, Answered
    <2>4. CASE Go(t, "failed", <<>>) /\ panic' = panic \cup {Top(t)}
      <3>1. "failed" \in Ats /\ <<>> \in Seq(Points)
        BY DEF Ats
      <3>2. task' \in TaskType
        BY <1>0, <2>4, <3>1, GoIs
      <3> QED
        BY <1>0, <1>5, <2>1, <2>4, <3>2, TypedIs DEF Typed, Answered
    <2> QED
      BY <1>5, <2>3, <2>4 DEF Answered
  <1>6. CASE TimesOut(t)
    <2>1. task[t].stack # <<>> /\ Top(t) \in Points
      BY <1>0, <1>6, TopType DEF TimesOut, StackOK
    <2>2. "failed" \in Ats /\ <<>> \in Seq(Points)
      BY DEF Ats
    <2>3. task' \in TaskType
      BY <1>0, <1>6, <2>2, GoIs DEF TimesOut
    <2> QED
      BY <1>0, <1>6, <2>1, <2>3, TypedIs DEF Typed, TimesOut
  <1> QED
    BY <1>1, <1>2, <1>3, <1>4, <1>5, <1>6

\* A table of tables with another entry.
LEMMA Nested ==
    ASSUME NEW S, NEW K, NEW V, NEW f \in [S -> [K -> V]], NEW s \in S, NEW k \in K, NEW v \in V
    PROVE  /\ [f EXCEPT ![s][k] = v] \in [S -> [K -> V]]
           /\ [f EXCEPT ![s][k] = v][s][k] = v
           /\ \A x \in S, y \in K : x # s \/ y # k => [f EXCEPT ![s][k] = v][x][y] = f[x][y]
  OBVIOUS

\* What is known of a provision that was asked for.
LEMMA AskedIs ==
    ASSUME IInv, NEW t \in Tasks, NEW p \in Points
    PROVE  /\ TypeOK /\ Serves(t, p) /\ <<t, p>> \in Ids /\ KindOf[p] \in Kinds
           /\ provisions[<<t, p>>] \in Asks
           /\ assigns[<<t, p>>] \in Dones
  <1>1. TypeOK /\ Serves(t, p) /\ <<t, p>> \in Ids
    BY DEF IInv, Ids
  <1> QED
    BY <1>1, Types, ProvisionAssumption

\* A handler's step at the parent's star or at the star that was picked.
LEMMA TypeAsk ==
    ASSUME IInv, NEW t \in Tasks, NEW p \in Points,
           \/ Provision(t, p) \/ Wrangle(t, p) \/ Assigned(t, p) \/ AssignSlow(t, p)
           \/ Assign(t, p) \/ DriverAssigns(t, p) \/ DriverFails(t, p) \/ AssignStar(t, p)
    PROVE  TypeOK'
  <1> USE DEF registry, hosting, selectors, rounds
  <1> DEFINE id == <<t, p>>
  <1>0. /\ TypeOK /\ Serves(t, p) /\ id \in Ids /\ KindOf[p] \in Kinds
        /\ Typed /\ provisions[id] \in Asks /\ assigns[id] \in Dones
    BY AskedIs, TypedIs
  <1>9. {"turn", "itself", "error", "assigns", "ok"} \subseteq AskAts
        /\ {"sent", "driver", "driven", "ok", "error"} \subseteq Dones
    BY DEF AskAts, Dones
  <1>1. CASE Provision(t, p)
    <2>1. provisions[id].star \in Stars
      BY <1>0, <1>1 DEF Provision, Serves
    <2>2. provisions' \in [Ids -> Asks]
      BY <1>0, <1>1, <1>9, <2>1, ProvisionIs, KeyIs DEF Provision
    <2>3. assigns' \in [Ids -> Dones]
      BY <1>0, <1>1, <1>9, AssignIs, Types DEF Provision
    <2> QED
      BY <1>0, <1>1, <2>2, <2>3, TypedIs DEF Typed, Provision
  <1>2. CASE Wrangle(t, p)
    <2> DEFINE s == provisions[id].star
               k == KindOf[p]
               key == Pick(s, k, index[s][k] + 1)
    <2>1. s \in Stars /\ wrangles[s][k] # <<>>
      BY <1>0, <1>2 DEF Wrangle, Serves
    <2>2. index[s][k] \in Nat
      BY <1>0, <2>1 DEF Typed
    <2>3. key \in Stars
      BY <1>0, <2>1, <2>2, PickType DEF IInv
    <2> HIDE DEF key
    <2>4. provisions' = [provisions EXCEPT ![id].at = "assigns", ![id].key = key]
      BY <1>2 DEF Wrangle, key
    <2>5. provisions' \in [Ids -> Asks]
      BY <1>0, <1>9, <2>3, <2>4, KeyIs
    <2>6. assigns' \in [Ids -> Dones]
      BY <1>0, <1>2, <1>9, AssignIs DEF Wrangle
    <2>7. /\ lock' = [lock EXCEPT ![s][k] = id]
          /\ index' = [index EXCEPT ![s][k] = index[s][k] + 1]
          /\ picks' = [picks EXCEPT ![s][k] = Append(picks[s][k], key)]
      BY <1>2 DEF Wrangle, key
    <2>11. picks[s][k] \in Seq(Stars) /\ k \in Kinds
      BY <1>0, <2>1 DEF Typed
    <2>12. Append(picks[s][k], key) \in Seq(Stars) /\ index[s][k] + 1 \in Nat
           /\ id \in Ids \cup {None}
      BY <1>0, <2>2, <2>3, <2>11
    <2> HIDE DEF s, k
    <2>8. lock' \in [Stars -> [Kinds -> Ids \cup {None}]]
      <3>1. lock \in [Stars -> [Kinds -> Ids \cup {None}]]
        BY <1>0 DEF Typed
      <3> QED
        BY <2>1, <2>7, <2>11, <2>12, <3>1, Nested
    <2>9. index' \in [Stars -> [Kinds -> Nat]]
      <3> DEFINE n == index[s][k] + 1
      <3>1. n \in Nat /\ index' = [index EXCEPT ![s][k] = n] /\ index \in [Stars -> [Kinds -> Nat]]
        BY <1>0, <2>7, <2>12 DEF Typed
      <3> HIDE DEF n
      <3> QED
        BY <2>1, <2>11, <3>1, Nested
    <2>10. picks' \in [Stars -> [Kinds -> Seq(Stars)]]
      BY <1>0, <2>1, <2>7, <2>11, <2>12, Nested DEF Typed
    <2> QED
      BY <1>0, <1>2, <2>5, <2>6, <2>8, <2>9, <2>10, TypedIs DEF Typed, Wrangle
  <1>3. CASE Assigned(t, p)
    <2>1. provisions' = [provisions EXCEPT ![id].at = assigns[id]] /\ assigns[id] \in AskAts
      BY <1>3, <1>9 DEF Assigned, Reply
    <2>2. provisions' \in [Ids -> Asks]
      BY <1>0, <2>1, ProvisionIs
    <2>3. lock' \in [Stars -> [Kinds -> Ids \cup {None}]]
      BY <1>0, <1>3 DEF Typed, Assigned, Reply
    <2> QED
      BY <1>0, <1>3, <2>2, <2>3, TypedIs DEF Typed, Assigned
  <1>4. CASE AssignSlow(t, p)
    <2>1. provisions' \in [Ids -> Asks]
      BY <1>0, <1>4, <1>9, ProvisionIs DEF AssignSlow, Reply
    <2>2. lock' \in [Stars -> [Kinds -> Ids \cup {None}]]
      BY <1>0, <1>4 DEF Typed, AssignSlow, Reply
    <2> QED
      BY <1>0, <1>4, <2>1, <2>2, TypedIs DEF Typed, AssignSlow
  <1>5. CASE Assign(t, p)
    <2>1. provisions[id].key \in Stars
      BY <1>0, <1>5 DEF Assign, Serves
    <2>2. assigns' \in [Ids -> Dones]
      BY <1>0, <1>5, <1>9, AssignIs DEF Assign
    <2>3. shells' \subseteq Stars \X Points
      <3>1. <<provisions[id].key, p>> \in Stars \X Points
        BY <2>1
      <3>2. shells' = shells \/ shells' = shells \cup {<<provisions[id].key, p>>}
        BY <1>5 DEF Assign
      <3> QED
        BY <1>0, <3>1, <3>2 DEF Typed
    <2> QED
      BY <1>0, <1>5, <2>2, <2>3, TypedIs DEF Typed, Assign
  <1>6. CASE DriverAssigns(t, p) \/ DriverFails(t, p)
    <2>1. provisions[id].key \in Stars
      BY <1>0, <1>6 DEF DriverAssigns, DriverFails, Serves
    <2>2. assigns' \in [Ids -> Dones]
      BY <1>0, <1>6, <1>9, AssignIs DEF DriverAssigns, DriverFails
    <2>3. driven' \subseteq Stars \X Points
      <3>1. <<provisions[id].key, p>> \in Stars \X Points
        BY <2>1
      <3>2. driven' = driven \/ driven' = driven \cup {<<provisions[id].key, p>>}
        BY <1>6 DEF DriverAssigns, DriverFails
      <3> QED
        BY <1>0, <3>1, <3>2 DEF Typed
    <2> QED
      BY <1>0, <1>6, <2>2, <2>3, TypedIs DEF Typed, DriverAssigns, DriverFails
  <1>7. CASE AssignStar(t, p)
    <2>1. provisions[id].key \in Stars
      BY <1>0, <1>7 DEF AssignStar, Serves
    <2>2. assigns' \in [Ids -> Dones]
      BY <1>0, <1>7, <1>9, AssignIs DEF AssignStar
    <2>3. home' \in [Points -> Stars \cup {None}]
      BY <1>0, <1>7, <2>1 DEF Typed, AssignStar
    <2> QED
      BY <1>0, <1>7, <2>2, <2>3, TypedIs DEF Typed, AssignStar
  <1> QED
    BY <1>1, <1>2, <1>3, <1>4, <1>5, <1>6, <1>7

\* A selector has another list.
Relist(s, k, l) ==
    /\ l \in Seq(Discoveries) /\ l # <<>> /\ Sorted(l)
    /\ wrangles' = [wrangles EXCEPT ![s][k] = l]
    /\ step' = [step EXCEPT ![s][k] = StepIndex(l)]

LEMMA PushIs ==
    ASSUME TypeOK, NEW s \in Stars, NEW k \in Kinds, NEW d \in Discoveries, Push(s, k, d)
    PROVE  \E l : Relist(s, k, l)
  <1>1. PICK i \in 1..Len(wrangles[s][k]) + 1 :
           /\ Sorted(InsertAt(wrangles[s][k], i, d))
           /\ wrangles' = [wrangles EXCEPT ![s][k] = InsertAt(wrangles[s][k], i, d)]
           /\ step' = [step EXCEPT ![s][k] = StepIndex(InsertAt(wrangles[s][k], i, d))]
    BY DEF Push
  <1>2. PICK l : l = InsertAt(wrangles[s][k], i, d)
    OBVIOUS
  <1>3. wrangles[s][k] \in Seq(Discoveries)
    BY DEF TypeOK
  <1>4. l \in Seq(Discoveries) /\ l # <<>>
    BY <1>2, <1>3, InsertOf
  <1> QED
    BY <1>1, <1>2, <1>4 DEF Relist

\* What it has then, and what the others have.
LEMMA ListIs ==
    ASSUME TypeOK, NEW s \in Stars, NEW k \in Kinds, NEW l, Relist(s, k, l)
    PROVE  /\ wrangles' \in [Stars -> [Kinds -> Seq(Discoveries)]]
           /\ step' \in [Stars -> [Kinds -> Nat]]
           /\ wrangles'[s][k] = l /\ step'[s][k] = StepIndex(l)
           /\ \A r \in Stars, m \in Kinds : r # s \/ m # k =>
                 wrangles'[r][m] = wrangles[r][m] /\ step'[r][m] = step[r][m]
  <1>1. /\ wrangles \in [Stars -> [Kinds -> Seq(Discoveries)]]
        /\ step \in [Stars -> [Kinds -> Nat]]
        /\ l \in Seq(Discoveries) /\ Sorted(l)
        /\ wrangles' = [wrangles EXCEPT ![s][k] = l]
        /\ step' = [step EXCEPT ![s][k] = StepIndex(l)]
    BY DEF TypeOK, Relist
  <1>2. StepIndex(l) \in 0..Len(l)
    BY <1>1, StepIs
  <1>3. PICK n : n = StepIndex(l)
    OBVIOUS
  <1>4. n \in Nat /\ step' = [step EXCEPT ![s][k] = n]
    BY <1>1, <1>2, <1>3
  <1> QED
    BY <1>1, <1>3, <1>4, Nested

\* A round adds, and messages are lost.
LEMMA TypeRest ==
    ASSUME TypeOK, (\E s \in Stars : Add(s)) \/ Lose
    PROVE  TypeOK'
  <1> USE DEF registry, hosting, selectors, rounds
  <1>0. Typed
    BY TypedIs
  <1>1. ASSUME NEW s \in Stars, Add(s) PROVE TypeOK'
    <2>a. PICK k, d : k = Head(adding[s])[1] /\ d = Head(adding[s])[2]
      OBVIOUS
    <2>1. adding[s] # <<>> /\ adding[s] \in Seq(Kinds \X Discoveries)
      BY <1>0, <1>1 DEF Typed, Add
    <2>2. k \in Kinds /\ d \in Discoveries /\ Tail(adding[s]) \in Seq(Kinds \X Discoveries)
      BY <2>a, <2>1
    <2>3. CASE lock[s][k] = None
      <3>1. /\ Push(s, k, d)
            /\ picks' = [picks EXCEPT ![s][k] = <<>>]
            /\ adding' = [adding EXCEPT ![s] = Tail(@)]
            /\ guard' = guard \ {s}
        BY <1>1, <2>a, <2>3 DEF Add
      <3>2. PICK l : Relist(s, k, l)
        BY <2>2, <3>1, PushIs
      <3>3. /\ wrangles' \in [Stars -> [Kinds -> Seq(Discoveries)]]
            /\ step' \in [Stars -> [Kinds -> Nat]]
        BY <2>2, <3>2, ListIs
      <3>4. picks' \in [Stars -> [Kinds -> Seq(Stars)]]
        <4>1. <<>> \in Seq(Stars)
          OBVIOUS
        <4> QED
          BY <1>0, <2>2, <3>1, <4>1, Nested DEF Typed
      <3>5. adding' \in [Stars -> Seq(Kinds \X Discoveries)]
        BY <1>0, <2>2, <3>1 DEF Typed
      <3> QED
        BY <1>0, <1>1, <3>1, <3>3, <3>4, <3>5, TypedIs DEF Typed, Add
    <2>4. CASE lock[s][k] # None
      BY <1>0, <1>1, <2>a, <2>4, TypedIs DEF Typed, Add
    <2> QED
      BY <2>3, <2>4
  <1>2. CASE Lose
    <2>1. PICK i \in Ids :
             \/ /\ provisions' = [provisions EXCEPT ![i].at = "lost"]
                /\ UNCHANGED assigns
             \/ /\ assigns' = [assigns EXCEPT ![i] = "lost"]
                /\ UNCHANGED provisions
      BY <1>2 DEF Lose
    <2>2. "lost" \in AskAts /\ "lost" \in Dones
      BY DEF AskAts, Dones
    <2>3. provisions' \in [Ids -> Asks] /\ assigns' \in [Ids -> Dones]
      BY <1>0, <2>1, <2>2, ProvisionIs, AssignIs DEF Typed
    <2>4. lost' \in 0..MaxLost
      BY <1>0, <1>2, ProvisionAssumption DEF Typed, Lose
    <2> QED
      BY <1>0, <1>2, <2>3, <2>4, TypedIs DEF Typed, Lose
  <1> QED
    BY <1>1, <1>2

-----------------------------------------------------------------------------
(* What steps do to tasks, provisions and homes.                           *)

TaskStep(t) ==
    Locate(t) \/ Create(t) \/ AskParent(t) \/ AskAgain(t) \/ Answered(t) \/ TimesOut(t)
AskStep(t, p) ==
    \/ Provision(t, p) \/ Wrangle(t, p) \/ Assigned(t, p) \/ AssignSlow(t, p)
    \/ Assign(t, p) \/ DriverAssigns(t, p) \/ DriverFails(t, p) \/ AssignStar(t, p)

Moves(t, at, stack) == task'[t] = [at |-> at, stack |-> stack, found |-> task[t].found]

Begins(t) ==
    /\ task[t].at = "start" /\ goal[t] \in known'
    /\ Moves(t, "parent", <<goal[t]>>)
    /\ provisions' = provisions
Ends(t) ==
    /\ task'[t].at \in {"done", "failed"} /\ task'[t].stack \in {<<>>, task[t].stack}
    /\ task'[t].found = task[t].found \/ Hosts(task'[t].found, goal[t])
    /\ provisions' = provisions
Deepens(t) ==
    /\ task[t].at = "parent" /\ Top(t) # Root /\ Parent[Top(t)] \in known
    /\ Moves(t, "parent", Append(task[t].stack, Parent[Top(t)]))
    /\ provisions' = provisions
Asking(t) ==
    /\ task[t].at \in {"parent", "again"} /\ Top(t) # Root
    /\ Moves(t, "wait", task[t].stack)
    /\ \A id \in Ids : id # <<t, Top(t)>> => provisions'[id] = provisions[id]
    /\ provisions'[<<t, Top(t)>>] = [at |-> "sent", star |-> home[Parent[Top(t)]], key |-> None]
    /\ home[Parent[Top(t)]] \in Stars
Panics(t) ==
    /\ task[t].at = "again" /\ home[Parent[Top(t)]] = None
    /\ Moves(t, "panicked", task[t].stack)
    /\ provisions' = provisions
Returns(t) ==
    /\ task[t].at = "wait" /\ provisions[<<t, Top(t)>>].at = "ok"
    /\ Len(task[t].stack) # 1
    /\ Moves(t, "again", Front(task[t].stack))
    /\ provisions' = provisions

\* A step of a task is one of these.
LEMMA TaskMoves ==
    ASSUME IInv, NEW t \in Tasks, TaskStep(t)
    PROVE  /\ Begins(t) \/ Ends(t) \/ Deepens(t) \/ Asking(t) \/ Panics(t) \/ Returns(t)
           /\ \A u \in Tasks : u # t => task'[u] = task[u]
           /\ goal' = goal /\ known \subseteq known'
           /\ assigns' = assigns /\ wrangles' = wrangles /\ shells' = shells /\ driven' = driven
  <1> USE DEF registry, hosting, selectors, rounds
  <1>0. TypeOK /\ StackOK(t) /\ goal[t] \in Points /\ task[t].stack \in Seq(Points)
        /\ home \in [Points -> Stars \cup {None}]
    BY DEF IInv, TypeOK
  <1>9. "failed" \in Ats /\ "parent" \in Ats /\ "again" \in Ats /\ "panicked" \in Ats /\ "done" \in Ats
    BY DEF Ats
  <1>8. <<>> \in Seq(Points) /\ <<goal[t]>> \in Seq(Points)
    BY <1>0
  <1>7. /\ goal' = goal /\ known \subseteq known'
        /\ assigns' = assigns /\ wrangles' = wrangles /\ shells' = shells /\ driven' = driven
    BY DEF TaskStep, Locate, Create, AskParent, AskAgain, Answered, TimesOut
  <1>a. ASSUME NEW at \in {"done", "failed"}, Go(t, at, <<>>), provisions' = provisions
        PROVE  Ends(t) /\ \A u \in Tasks : u # t => task'[u] = task[u]
    <2>1. /\ task'[t] = [at |-> at, stack |-> <<>>, found |-> task[t].found]
          /\ \A u \in Tasks : u # t => task'[u] = task[u]
      <3>1. at \in Ats
        BY <1>9, <1>a
      <3> QED
        BY <1>0, <1>8, <1>a, <3>1, GoIs
    <2>2. task'[t].at = at /\ task'[t].stack = <<>> /\ task'[t].found = task[t].found
      BY <2>1
    <2> QED
      BY <1>a, <2>1, <2>2 DEF Ends
  <1>b. ASSUME NEW s \in Stars, Found(t, s), Hosts(s, goal[t]), provisions' = provisions
        PROVE  Ends(t) /\ \A u \in Tasks : u # t => task'[u] = task[u]
    <2>1. /\ task'[t] = [at |-> "done", stack |-> task[t].stack, found |-> s]
          /\ \A u \in Tasks : u # t => task'[u] = task[u]
      BY <1>0, <1>b, FoundIs
    <2>2. task'[t].at = "done" /\ task'[t].stack = task[t].stack /\ task'[t].found = s
      BY <2>1
    <2> QED
      BY <1>b, <2>1, <2>2 DEF Ends
  <1>1. CASE Locate(t)
    <2>1. provisions' = provisions /\ known' = known
      BY <1>1 DEF Locate
    <2>2. CASE Go(t, "failed", <<>>)
      BY <1>7, <2>1, <2>2, <1>a
    <2>3. CASE home[goal[t]] # None /\ Found(t, home[goal[t]])
      BY <1>0, <1>7, <2>1, <2>3, <1>b DEF IInv, HomesServe
    <2>4. CASE goal[t] \in known /\ Go(t, "parent", <<goal[t]>>)
      <3>1. /\ task'[t] = [at |-> "parent", stack |-> <<goal[t]>>, found |-> task[t].found]
            /\ \A u \in Tasks : u # t => task'[u] = task[u]
        BY <1>0, <1>8, <1>9, <2>4, GoIs
      <3>2. task[t].at = "start"
        BY <1>1 DEF Locate
      <3> QED
        BY <1>7, <2>1, <2>4, <3>1, <3>2 DEF Begins, Moves
    <2> QED
      BY <1>1, <2>2, <2>3, <2>4 DEF Locate
  <1>2. CASE Create(t)
    <2>1. provisions' = provisions /\ goal[t] \in known' /\ task[t].at = "start"
      BY <1>2 DEF Create
    <2>2. CASE Go(t, "done", <<>>)
      BY <1>7, <2>1, <2>2, <1>a
    <2>3. CASE Go(t, "parent", <<goal[t]>>)
      BY <1>0, <1>7, <1>8, <1>9, <2>1, <2>3, GoIs DEF Begins, Moves
    <2> QED
      BY <1>2, <2>2, <2>3 DEF Create
  <1>3. CASE AskParent(t) \/ AskAgain(t)
    <2>1. task[t].stack # <<>> /\ task[t].at \in {"parent", "again"}
      BY <1>0, <1>3 DEF AskParent, AskAgain, StackOK
    <2>2. /\ Top(t) \in Points /\ Top(t) = task[t].stack[Len(task[t].stack)]
          /\ Top(t) # Root => Parent[Top(t)] \in Points
      BY <1>0, <2>1, TopType
    <2>3. AskAgain(t) => Top(t) # Root
      BY <1>0, <2>2 DEF AskAgain, StackOK
    <2>4. CASE Top(t) # Root /\ home[Parent[Top(t)]] # None /\ Ask(t, Top(t))
      <3>1. home[Parent[Top(t)]] \in Stars
        BY <1>0, <2>2, <2>4
      <3> QED
        BY <1>0, <1>7, <2>1, <2>2, <2>4, <3>1, AskIs DEF Asking, Moves
    <2>5. CASE provisions' = provisions /\ Go(t, "failed", <<>>)
      BY <1>7, <2>5, <1>a
    <2>6. CASE /\ task[t].at = "parent" /\ Top(t) # Root /\ Parent[Top(t)] \in known
               /\ provisions' = provisions
               /\ Go(t, "parent", Append(task[t].stack, Parent[Top(t)]))
      <3>1. Append(task[t].stack, Parent[Top(t)]) \in Seq(Points)
        BY <1>0, <2>2, <2>6
      <3> QED
        BY <1>0, <1>7, <1>9, <2>6, <3>1, GoIs DEF Deepens, Moves
    <2>7. CASE /\ task[t].at = "again" /\ home[Parent[Top(t)]] = None
               /\ provisions' = provisions /\ Go(t, "panicked", task[t].stack)
      BY <1>0, <1>7, <1>9, <2>7, GoIs DEF Panics, Moves
    <2> QED
      BY <1>3, <2>3, <2>4, <2>5, <2>6, <2>7 DEF AskParent, AskAgain
  <1>4. CASE Answered(t) \/ TimesOut(t)
    <2>1. task[t].stack # <<>> /\ task[t].at = "wait" /\ provisions' = provisions
      BY <1>0, <1>4 DEF Answered, TimesOut, StackOK
    <2>2. Top(t) \in Points /\ Serves(t, Top(t))
      BY <1>0, <2>1, TopType DEF IInv
    <2>3. CASE /\ provisions[<<t, Top(t)>>].at = "ok" /\ Len(task[t].stack) = 1
               /\ Found(t, provisions[<<t, Top(t)>>].key)
      <3>2. Top(t) = goal[t]
        BY <1>0, <2>1, <2>3, TopType DEF StackOK
      <3>1. /\ provisions[<<t, Top(t)>>].key \in Stars
            /\ Hosts(provisions[<<t, Top(t)>>].key, goal[t])
        BY <2>2, <2>3, <3>2 DEF Serves
      <3> QED
        BY <1>7, <2>1, <2>3, <3>1, <1>b
    <2>4. CASE /\ provisions[<<t, Top(t)>>].at = "ok" /\ Len(task[t].stack) # 1
               /\ Go(t, "again", Front(task[t].stack))
      <3>1. Front(task[t].stack) \in Seq(Points)
        BY <1>0, <2>1, FrontOf
      <3> QED
        BY <1>0, <1>7, <1>9, <2>1, <2>4, <3>1, GoIs DEF Returns, Moves
    <2>5. CASE Go(t, "failed", <<>>)
      BY <1>7, <2>1, <2>5, <1>a
    <2> QED
      BY <1>4, <2>3, <2>4, <2>5 DEF Answered, TimesOut
  <1> QED
    BY <1>1, <1>2, <1>3, <1>4 DEF TaskStep

-----------------------------------------------------------------------------
(* What every step keeps.                                                  *)

Kept ==
    /\ goal' = goal /\ known \subseteq known' /\ again \subseteq again'
    /\ shells \subseteq shells' /\ driven \subseteq driven'
    /\ \A s \in Stars, k \in Kinds : wrangles[s][k] # <<>> => wrangles'[s][k] # <<>>
    /\ \A id \in Ids : assigns[id] = "ok" => assigns'[id] = "ok"
    /\ \A t \in Tasks, p \in Points :
          assigns[<<t, p>>] = "ok" /\ (home[p] # None \/ <<t, p>> \in again)
            => (home'[p] # None \/ <<t, p>> \in again')

LEMMA TaskKeeps ==
    ASSUME IInv, NEW t \in Tasks, TaskStep(t)
    PROVE  Kept
  <1> USE DEF registry, hosting, selectors, rounds
  <1>1. /\ goal' = goal /\ known \subseteq known' /\ assigns' = assigns
        /\ wrangles' = wrangles /\ shells' = shells /\ driven' = driven
    BY TaskMoves
  <1>2. CASE Create(t)
    <2>1. /\ home' = [home EXCEPT ![goal[t]] = None]
          /\ again' = again \cup {i \in Ids : i[2] = goal[t] /\ assigns[i] = "ok"}
      BY <1>2 DEF Create
    <2>2. home \in [Points -> Stars \cup {None}] /\ goal[t] \in Points
      BY DEF IInv, TypeOK
    <2>3. ASSUME NEW u \in Tasks, NEW p \in Points, assigns[<<u, p>>] = "ok",
                 home[p] # None \/ <<u, p>> \in again
          PROVE  home'[p] # None \/ <<u, p>> \in again'
      <3>1. CASE p = goal[t]
        BY <2>1, <2>3, <3>1 DEF Ids
      <3>2. CASE p # goal[t]
        BY <2>1, <2>2, <2>3, <3>2
      <3> QED
        BY <3>1, <3>2
    <2>4. again \subseteq again'
      BY <2>1
    <2> QED
      BY <1>1, <2>3, <2>4 DEF Kept
  <1>3. CASE ~Create(t)
    <2>1. home' = home /\ again' = again
      BY <1>3 DEF TaskStep, Locate, AskParent, AskAgain, Answered, TimesOut
    <2> QED
      BY <1>1, <2>1 DEF Kept
  <1> QED
    BY <1>2, <1>3

\* What is left of the other provisions and of the tasks while a star handles one.
Aside(t, p) ==
    /\ task' = task
    /\ \A id \in Ids : id # <<t, p>> => provisions'[id] = provisions[id] /\ assigns'[id] = assigns[id]
    /\ provisions'[<<t, p>>].at # "none" /\ provisions[<<t, p>>].at # "none"

LEMMA AskKeeps ==
    ASSUME IInv, NEW t \in Tasks, NEW p \in Points, AskStep(t, p)
    PROVE  Kept /\ known' = known /\ again' = again
  <1> USE DEF registry, hosting, selectors, rounds
  <1>1. goal' = goal /\ known' = known /\ again' = again /\ wrangles' = wrangles
    BY DEF AskStep, Provision, Wrangle, Assigned, AssignSlow, Assign, DriverAssigns, DriverFails,
           AssignStar
  <1>2. shells \subseteq shells' /\ driven \subseteq driven'
    BY DEF AskStep, Provision, Wrangle, Assigned, AssignSlow, Assign, DriverAssigns, DriverFails,
           AssignStar
  <1>5. \A id \in Ids : assigns[id] = "ok" => assigns'[id] = "ok"
    <2>0. /\ Serves(t, p) /\ <<t, p>> \in Ids /\ assigns \in [Ids -> Dones]
      BY AskedIs, Types
    <2>1. assigns' = assigns \/ assigns[<<t, p>>] # "ok"
      BY <2>0 DEF AskStep, Provision, Wrangle, Assigned, AssignSlow, Assign, DriverAssigns,
                  DriverFails, AssignStar, Serves
    <2>2. assigns' = assigns \/ \E done : assigns' = [assigns EXCEPT ![<<t, p>>] = done]
      BY DEF AskStep, Provision, Wrangle, Assigned, AssignSlow, Assign, DriverAssigns,
             DriverFails, AssignStar
    <2> QED
      BY <2>0, <2>1, <2>2
  <1>3. CASE AssignStar(t, p)
    <2>1. provisions[<<t, p>>].key \in Stars /\ home \in [Points -> Stars \cup {None}]
      BY <1>3, AskedIs DEF AssignStar, Serves, TypeOK
    <2>2. \A q \in Points : home[q] # None => home'[q] # None
      BY <1>3, <2>1, ProvisionAssumption DEF AssignStar
    <2> QED
      BY <1>1, <1>2, <1>5, <2>2 DEF Kept
  <1>4. CASE ~AssignStar(t, p)
    <2>1. home' = home
      BY <1>4 DEF AskStep, Provision, Wrangle, Assigned, AssignSlow, Assign, DriverAssigns, DriverFails
    <2> QED
      BY <1>1, <1>2, <1>5, <2>1 DEF Kept
  <1> QED
    BY <1>3, <1>4

LEMMA RestKeeps ==
    ASSUME IInv, (\E s \in Stars : Add(s)) \/ Lose \/ UNCHANGED vars
    PROVE  Kept /\ task' = task /\ home' = home /\ known' = known
  <1> USE DEF registry, hosting, selectors, rounds
  <1>1. CASE \E s \in Stars : Add(s)
    <2>1. PICK s \in Stars : Add(s)
      BY <1>1
    <2>2. /\ goal' = goal /\ known' = known /\ again' = again /\ shells' = shells /\ driven' = driven
          /\ home' = home /\ task' = task /\ assigns' = assigns
      BY <2>1 DEF Add
    <2>3. \A x \in Stars, k \in Kinds : wrangles[x][k] # <<>> => wrangles'[x][k] # <<>>
      <3>0. PICK j, y : j = Head(adding[s])[1] /\ y = Head(adding[s])[2]
        OBVIOUS
      <3>1. CASE wrangles' = wrangles
        BY <3>1
      <3>2. CASE Push(s, j, y)
        <4>1. adding[s] # <<>> /\ adding[s] \in Seq(Kinds \X Discoveries) /\ TypeOK
          BY <2>1 DEF Add, IInv, TypeOK
        <4>2. j \in Kinds /\ y \in Discoveries
          BY <3>0, <4>1
        <4>3. PICK l : Relist(s, j, l)
          BY <3>2, <4>1, <4>2, PushIs
        <4>4. l # <<>>
          BY <4>3 DEF Relist
        <4>5. /\ wrangles'[s][j] = l
              /\ \A x \in Stars, k \in Kinds : x # s \/ k # j => wrangles'[x][k] = wrangles[x][k]
          BY <4>1, <4>2, <4>3, ListIs
        <4> QED
          BY <4>4, <4>5
      <3> QED
        BY <2>1, <3>0, <3>1, <3>2 DEF Add
    <2> QED
      BY <2>2, <2>3 DEF Kept
  <1>2. CASE Lose
    <2>1. /\ goal' = goal /\ known' = known /\ again' = again /\ shells' = shells
          /\ driven' = driven /\ home' = home /\ task' = task /\ wrangles' = wrangles
      BY <1>2 DEF Lose
    <2>2. \A id \in Ids : assigns[id] = "ok" => assigns'[id] = "ok"
      <3>1. assigns \in [Ids -> Dones]
        BY Types DEF IInv
      <3>2. \/ assigns' = assigns
            \/ \E i \in Ids : assigns[i] = "sent" /\ assigns' = [assigns EXCEPT ![i] = "lost"]
        BY <1>2 DEF Lose
      <3> QED
        BY <3>1, <3>2
    <2> QED
      BY <2>1, <2>2 DEF Kept
  <1>3. CASE UNCHANGED vars
    BY <1>3 DEF vars, Kept
  <1> QED
    BY <1>1, <1>2, <1>3

-----------------------------------------------------------------------------
(* The parts of the invariant where nothing happens to them.               *)

HostsThen(s, p) == <<s, p>> \in shells' \cap driven'

LEMMA ServesKept ==
    ASSUME IInv, Kept, NEW t \in Tasks, NEW p \in Points,
           provisions'[<<t, p>>] = provisions[<<t, p>>], assigns'[<<t, p>>] = assigns[<<t, p>>]
    PROVE  Serves(t, p)'
  <1>1. Serves(t, p) /\ KindOf[p] \in Kinds
    BY AskedIs
  <1>2. provisions[<<t, p>>].at = "turn" => wrangles'[provisions[<<t, p>>].star][KindOf[p]] # <<>>
    BY <1>1 DEF Serves, Kept
  <1>3. \A s : <<s, p>> \in shells \cap driven => <<s, p>> \in shells' \cap driven'
    BY DEF Kept
  <1>5. \A s : <<s, p>> \in shells => <<s, p>> \in shells'
    BY DEF Kept
  <1>6. p \in known => p \in known'
    BY DEF Kept
  <1>7. assigns[<<t, p>>] = "ok" /\ (home[p] # None \/ <<t, p>> \in again)
          => (home'[p] # None \/ <<t, p>> \in again')
    BY DEF Kept
  <1> QED
    BY <1>1, <1>2, <1>3, <1>5, <1>6, <1>7 DEF Serves, Hosts

LEMMA TaskKept ==
    ASSUME IInv, Kept, NEW t \in Tasks, task'[t] = task[t],
           \A p \in Points : provisions[<<t, p>>].at = "none" => provisions'[<<t, p>>].at = "none"
    PROVE  StackOK(t)' /\ Fresh(t)' /\ Unwraps(t)'
  <1>1. StackOK(t) /\ Fresh(t) /\ Unwraps(t) /\ task[t].stack \in Seq(Points)
    BY DEF IInv, TypeOK
  <1>2. StackOK(t)'
    BY <1>1 DEF StackOK, Kept
  <1>3. Fresh(t)'
    <2>1. \A i \in 1..Len(task[t].stack) : task[t].stack[i] \in Points
      BY <1>1
    <2>2. \A i \in 1..Len(task[t].stack) - 1 : task[t].stack[i] \in Points
      BY <1>1
    <2> QED
      BY <1>1, <2>1, <2>2 DEF Fresh
  <1>4. Unwraps(t)'
    <2>1. CASE task[t].at \in {"again", "panicked"}
      <3> DEFINE q == Parent[task[t].stack[Len(task[t].stack)]]
      <3>1. q \in Points
        BY <1>1, <2>1, LastOf, ProvisionAssumption DEF StackOK
      <3>2. /\ assigns[<<t, q>>] = "ok" => assigns'[<<t, q>>] = "ok"
            /\ assigns[<<t, q>>] = "ok" /\ (home[q] # None \/ <<t, q>> \in again)
                 => (home'[q] # None \/ <<t, q>> \in again')
        BY <3>1 DEF Kept, Ids
      <3>3. <<t, q>> \in again => <<t, q>> \in again'
        BY DEF Kept
      <3> QED
        BY <1>1, <3>2, <3>3 DEF Unwraps
    <2>2. CASE task[t].at \notin {"again", "panicked"}
      BY <2>2 DEF Unwraps
    <2> QED
      BY <2>1, <2>2
  <1> QED
    BY <1>2, <1>3, <1>4

LEMMA HomesKept ==
    ASSUME IInv, Kept,
           \A p \in Points : home'[p] \in {None, home[p]} \/ HostsThen(home'[p], p),
           \A t \in Tasks : task'[t].found = task[t].found \/ Hosts(task'[t].found, goal[t])
    PROVE  HomesServe'
  <1>1. HomesServe /\ goal' = goal
    BY DEF IInv, Kept
  <1>2. ASSUME NEW p \in Points, home'[p] # None
        PROVE  HostsThen(home'[p], p)
    <2>1. CASE HostsThen(home'[p], p)
      BY <2>1
    <2>2. CASE home'[p] = home[p]
      BY <1>1, <1>2, <2>2 DEF HomesServe, Hosts, HostsThen, Kept
    <2> QED
      BY <1>2, <2>1, <2>2
  <1>3. ASSUME NEW t \in Tasks, task'[t].found # None
        PROVE  HostsThen(task'[t].found, goal'[t])
    BY <1>1, <1>3 DEF HomesServe, Hosts, HostsThen, Kept
  <1> QED
    BY <1>2, <1>3 DEF HomesServe, Hosts, HostsThen

-----------------------------------------------------------------------------
(* The parts of the invariant where something happens.                     *)

\* The task's stack.
LEMMA StackStep ==
    ASSUME IInv, NEW t \in Tasks, TaskStep(t)
    PROVE  StackOK(t)'
  <1> DEFINE stack == task[t].stack
  <1>0. /\ StackOK(t) /\ stack \in Seq(Points) /\ TypeOK
        /\ goal' = goal /\ known \subseteq known'
    BY TaskMoves DEF IInv, TypeOK
  <1>1. CASE Begins(t)
    BY <1>0, <1>1 DEF Begins, Moves, StackOK
  <1>2. CASE Ends(t)
    <2>1. task'[t].at \in {"done", "failed"} /\ task'[t].stack \in {<<>>, stack}
      BY <1>2 DEF Ends
    <2>2. CASE task'[t].stack = <<>>
      BY <1>0, <2>1, <2>2 DEF StackOK
    <2>3. CASE task'[t].stack = stack
      BY <1>0, <2>1, <2>3 DEF StackOK
    <2> QED
      BY <2>1, <2>2, <2>3
  <1>3. CASE Deepens(t)
    <2> DEFINE n == Len(stack)
               q == Append(stack, Parent[Top(t)])
    <2>1. /\ task[t].at = "parent" /\ stack # <<>> /\ Top(t) # Root /\ Parent[Top(t)] \in known
      BY <1>0, <1>3 DEF Deepens, StackOK
    <2>2. /\ Top(t) \in Points /\ Top(t) = stack[n] /\ n \in Nat \ {0} /\ Parent[Top(t)] \in Points
      BY <1>0, <2>1, TopType
    <2>3. Depth[Parent[Top(t)]] < Depth[Top(t)] /\ Depth \in [Points -> Nat]
      BY <2>1, <2>2, ProvisionAssumption
    <2>4. task'[t].at = "parent" /\ task'[t].stack = q
      BY <1>3 DEF Deepens, Moves
    <2>5. Len(q) = n + 1 /\ q[n + 1] = Parent[stack[n]] /\ \A i \in 1..n : q[i] = stack[i] /\ q[i] \in Points
      BY <1>0, <2>2
    <2> HIDE DEF q
    <2>6. q # <<>> /\ q[1] = goal[t]
      BY <1>0, <2>1, <2>2, <2>5 DEF StackOK
    <2>7. \A i \in 1..Len(q) : q[i] \in known'
      BY <1>0, <2>1, <2>2, <2>5, SMTT(30) DEF StackOK
    <2>8. \A i \in 1..Len(q) - 1 : q[i] # Root /\ q[i + 1] = Parent[q[i]]
      <3>1. \A i \in 1..n - 1 : stack[i] # Root /\ stack[i + 1] = Parent[stack[i]]
        BY <1>0 DEF StackOK
      <3> HIDE DEF n
      <3>2. ASSUME NEW i \in 1..n
            PROVE  q[i] # Root /\ q[i + 1] = Parent[q[i]]
        <4>1. CASE i = n
          BY <2>1, <2>2, <2>5, <4>1
        <4>2. CASE i # n
          <5>1. i \in 1..n - 1 /\ i + 1 \in 1..n
            BY <2>2, <4>2
          <5> QED
            BY <2>5, <3>1, <5>1
        <4> QED
          BY <4>1, <4>2
      <3>3. Len(q) - 1 = n
        BY <2>2, <2>5
      <3> QED
        BY <3>2, <3>3
    <2>9. \A i, j \in 1..Len(q) : i < j => Depth[q[j]] < Depth[q[i]]
      <3>1. \A i, j \in 1..n : i < j => Depth[stack[j]] < Depth[stack[i]]
        BY <1>0 DEF StackOK
      <3>2. \A i \in 1..n : Depth[q[i]] \in Nat
        BY <2>3, <2>5
      <3>3. Depth[q[n + 1]] < Depth[q[n]] /\ Depth[q[n + 1]] \in Nat
        BY <2>2, <2>3, <2>5
      <3>4. ASSUME NEW i \in 1..Len(q), NEW j \in 1..Len(q), i < j
            PROVE  Depth[q[j]] < Depth[q[i]]
        <4>1. CASE j = n + 1 /\ i = n
          BY <3>3, <4>1
        <4>2. CASE j = n + 1 /\ i # n
          <5>1. i \in 1..n /\ n \in 1..n /\ i < n
            BY <2>2, <2>5, <3>4, <4>2
          <5>2. Depth[q[n]] < Depth[q[i]] /\ Depth[q[n]] \in Nat /\ Depth[q[i]] \in Nat
            BY <2>5, <3>1, <3>2, <5>1
          <5> QED
            BY <3>3, <4>2, <5>2
        <4>3. CASE j # n + 1
          <5>1. i \in 1..n /\ j \in 1..n /\ i < j
            BY <2>2, <2>5, <3>4, <4>3
          <5>2. q[i] = stack[i] /\ q[j] = stack[j]
            BY <2>5, <5>1
          <5> QED
            BY <3>1, <5>1, <5>2
        <4> QED
          BY <4>1, <4>2, <4>3
      <3> QED
        BY <3>4
    <2> QED
      BY <1>0, <2>4, <2>6, <2>7, <2>8, <2>9 DEF StackOK
  <1>4. CASE Asking(t) \/ Panics(t)
    <2>1. /\ task[t].at \in {"parent", "again"} /\ task'[t].stack = stack
          /\ task'[t].at \in {"wait", "panicked"}
          /\ task'[t].at = "wait" => Top(t) # Root
          /\ task'[t].at = "panicked" => task[t].at = "again"
      BY <1>4 DEF Asking, Panics, Moves
    <2>2. stack # <<>> /\ Top(t) = stack[Len(stack)]
      BY <1>0, <2>1, TopType DEF StackOK
    <2> QED
      BY <1>0, <2>1, <2>2 DEF StackOK
  <1>5. CASE Returns(t)
    <2> DEFINE n == Len(stack)
               q == Front(stack)
    <2>1. task[t].at = "wait" /\ stack # <<>> /\ n # 1 /\ task'[t].at = "again" /\ task'[t].stack = q
      BY <1>0, <1>5 DEF Returns, Moves, StackOK
    <2>2. n \in Nat \ {0, 1} /\ Len(q) = n - 1 /\ \A i \in 1..n - 1 : q[i] = stack[i]
      BY <1>0, <2>1, FrontOf
    <2> HIDE DEF q
    <2>6. /\ \A i \in 1..n : stack[i] \in known'
          /\ \A i \in 1..n - 1 : stack[i] # Root /\ stack[i + 1] = Parent[stack[i]]
          /\ \A i, j \in 1..n : i < j => Depth[stack[j]] < Depth[stack[i]]
      BY <1>0 DEF StackOK
    <2>8. stack[1] = goal[t]
      BY <1>0, <2>1 DEF StackOK
    <2> HIDE DEF n
    <2>3. q # <<>> /\ q[1] = goal[t]
      <3>1. Len(q) # 0 /\ 1 \in 1..n - 1
        BY <2>2
      <3> QED
        BY <2>2, <2>8, <3>1
    <2>4. /\ \A i \in 1..Len(q) : q[i] \in known' /\ q[i] # Root
          /\ \A i \in 1..Len(q) - 1 : q[i + 1] = Parent[q[i]]
      <3>1. ASSUME NEW i \in 1..Len(q)
            PROVE  q[i] \in known' /\ q[i] # Root
        <4>1. i \in 1..n - 1 /\ i \in 1..n
          BY <2>2
        <4> QED
          BY <2>2, <2>6, <4>1
      <3>2. ASSUME NEW i \in 1..Len(q) - 1
            PROVE  q[i + 1] = Parent[q[i]]
        <4>1. i \in 1..n - 1 /\ i + 1 \in 1..n - 1
          BY <2>2
        <4> QED
          BY <2>2, <2>6, <4>1
      <3> QED
        BY <3>1, <3>2
    <2>5. \A i, j \in 1..Len(q) : i < j => Depth[q[j]] < Depth[q[i]]
      <3>1. ASSUME NEW i \in 1..Len(q), NEW j \in 1..Len(q), i < j
            PROVE  Depth[q[j]] < Depth[q[i]]
        <4>1. i \in 1..n - 1 /\ j \in 1..n - 1 /\ i \in 1..n /\ j \in 1..n
          BY <2>2
        <4>2. q[i] = stack[i] /\ q[j] = stack[j]
          BY <2>2, <4>1
        <4> QED
          BY <2>6, <3>1, <4>1, <4>2
      <3> QED
        BY <3>1
    <2>7. q[Len(q)] # Root
      <3>1. Len(q) \in 1..Len(q)
        BY <2>2
      <3> QED
        BY <2>4, <3>1
    <2> QED
      BY <1>0, <2>1, <2>3, <2>4, <2>5, <2>7 DEF StackOK
  <1> QED
    BY <1>1, <1>2, <1>3, <1>4, <1>5, TaskMoves

\* What the task has still to ask for.
LEMMA FreshStep ==
    ASSUME IInv, NEW t \in Tasks, TaskStep(t)
    PROVE  Fresh(t)'
  <1> DEFINE stack == task[t].stack
  <1>0. StackOK(t) /\ Fresh(t) /\ stack \in Seq(Points) /\ TypeOK
    BY DEF IInv, TypeOK
  <1>1. CASE Begins(t) \/ Deepens(t)
    BY <1>0, <1>1 DEF Begins, Deepens, Moves, Fresh
  <1>2. CASE Ends(t) \/ Panics(t)
    <2>1. task'[t].at \in {"done", "failed", "panicked"}
      BY <1>2 DEF Ends, Panics, Moves
    <2> QED
      BY <2>1 DEF Fresh
  <1>3. CASE Asking(t)
    <2>1. /\ task[t].at \in {"parent", "again"} /\ task'[t].stack = stack /\ task'[t].at = "wait"
          /\ \A id \in Ids : id # <<t, Top(t)>> => provisions'[id] = provisions[id]
      BY <1>3 DEF Asking, Moves
    <2>2. stack # <<>> /\ Top(t) = stack[Len(stack)] /\ Len(stack) \in Nat \ {0}
      BY <1>0, <2>1, TopType DEF StackOK
    <2>3. ASSUME NEW i \in 1..Len(stack) - 1
          PROVE  provisions'[<<t, stack[i]>>].at = "none"
      <3>1. stack[i] \in Points /\ i \in 1..Len(stack)
        BY <1>0, <2>2
      <3>2. provisions[<<t, stack[i]>>].at = "none"
        BY <1>0, <2>1, <3>1 DEF Fresh
      <3>5. i < Len(stack) /\ Len(stack) \in 1..Len(stack)
        BY <2>2
      <3>3. Depth[stack[Len(stack)]] < Depth[stack[i]] /\ Depth[stack[i]] \in Nat
        BY <1>0, <3>1, <3>5, ProvisionAssumption DEF StackOK
      <3>4. stack[i] # Top(t)
        BY <2>2, <3>1, <3>3
      <3> QED
        BY <2>1, <3>1, <3>2, <3>4 DEF Ids
    <2> QED
      BY <2>1, <2>3 DEF Fresh
  <1>4. CASE Returns(t)
    <2>1. /\ task[t].at = "wait" /\ stack # <<>> /\ provisions' = provisions
          /\ task'[t].at = "again" /\ task'[t].stack = Front(stack)
      BY <1>0, <1>4 DEF Returns, Moves, StackOK
    <2>2. Len(Front(stack)) = Len(stack) - 1 /\ \A i \in 1..Len(stack) - 1 : Front(stack)[i] = stack[i]
      BY <1>0, <2>1, FrontOf
    <2> QED
      BY <1>0, <2>1, <2>2 DEF Fresh
  <1> QED
    BY <1>1, <1>2, <1>3, <1>4, TaskMoves

\* The star of a parent that was provisioned.
LEMMA UnwrapsStep ==
    ASSUME IInv, NEW t \in Tasks, TaskStep(t)
    PROVE  Unwraps(t)'
  <1> DEFINE stack == task[t].stack
  <1>0. StackOK(t) /\ Unwraps(t) /\ stack \in Seq(Points) /\ TypeOK /\ Kept
    BY TaskKeeps DEF IInv, TypeOK
  <1>1. CASE Begins(t) \/ Deepens(t) \/ Ends(t) \/ Asking(t)
    <2>1. task'[t].at \in {"parent", "done", "failed", "wait"}
      BY <1>1 DEF Begins, Deepens, Ends, Asking, Moves
    <2> QED
      BY <2>1 DEF Unwraps
  <1>2. CASE Panics(t)
    <2>1. /\ task[t].at = "again" /\ home[Parent[Top(t)]] = None
          /\ task'[t].stack = stack /\ task'[t].at = "panicked"
      BY <1>2 DEF Panics, Moves
    <2>2. stack # <<>> /\ Top(t) = stack[Len(stack)]
      BY <1>0, <2>1, TopType DEF StackOK
    <2>3. <<t, Parent[Top(t)]>> \in again
      BY <1>0, <2>1, <2>2 DEF Unwraps
    <2> QED
      BY <1>0, <2>1, <2>2, <2>3 DEF Unwraps, Kept
  <1>3. CASE Returns(t)
    <2>1. /\ task[t].at = "wait" /\ stack # <<>> /\ Len(stack) # 1
          /\ provisions[<<t, Top(t)>>].at = "ok"
          /\ task'[t].at = "again" /\ task'[t].stack = Front(stack)
      BY <1>0, <1>3 DEF Returns, Moves, StackOK
    <2>2. Top(t) \in Points /\ Top(t) = stack[Len(stack)] /\ Len(stack) \in Nat \ {0, 1}
      BY <1>0, <2>1, TopType
    <2>3. Len(Front(stack)) = Len(stack) - 1 /\ \A i \in 1..Len(stack) - 1 : Front(stack)[i] = stack[i]
      BY <1>0, <2>1, FrontOf
    <2>4. Parent[Front(stack)[Len(Front(stack))]] = Top(t)
      <3>1. \A i \in 1..Len(stack) - 1 : stack[i + 1] = Parent[stack[i]]
        BY <1>0 DEF StackOK
      <3> DEFINE n == Len(stack)
      <3>4. /\ n \in Nat \ {0, 1} /\ Len(Front(stack)) = n - 1
            /\ \A i \in 1..n - 1 : Front(stack)[i] = stack[i] /\ stack[i + 1] = Parent[stack[i]]
            /\ Top(t) = stack[n]
        BY <2>2, <2>3, <3>1
      <3> HIDE DEF n
      <3>2. n - 1 \in 1..n - 1 /\ (n - 1) + 1 = n
        BY <3>4
      <3>3. stack[n] = Parent[stack[n - 1]]
        BY <3>2, <3>4
      <3> QED
        BY <3>2, <3>3, <3>4
    <2>5. assigns[<<t, Top(t)>>] = "ok" /\ (home[Top(t)] # None \/ <<t, Top(t)>> \in again)
      <3>1. Serves(t, Top(t))
        BY <2>2, AskedIs
      <3> QED
        BY <2>1, <3>1 DEF Serves
    <2>6. /\ assigns'[<<t, Top(t)>>] = "ok"
          /\ home'[Top(t)] # None \/ <<t, Top(t)>> \in again'
      BY <1>0, <2>2, <2>5 DEF Kept, Ids
    <2> QED
      BY <2>1, <2>4, <2>6 DEF Unwraps
  <1> QED
    BY <1>1, <1>2, <1>3, TaskMoves

\* A task asks: the provision is a new one.
LEMMA ServesAsked ==
    ASSUME IInv, NEW t \in Tasks, TaskStep(t)
    PROVE  \A u \in Tasks, p \in Points : Serves(u, p)'
  <1> SUFFICES ASSUME NEW u \in Tasks, NEW p \in Points
               PROVE  Serves(u, p)'
    OBVIOUS
  <1>0. /\ StackOK(t) /\ Fresh(t) /\ TypeOK /\ Kept /\ assigns' = assigns
        /\ <<u, p>> \in Ids
    BY TaskKeeps, TaskMoves DEF IInv, Ids
  <1>1. CASE Asking(t) /\ <<u, p>> = <<t, Top(t)>>
    <2>1. /\ task[t].at \in {"parent", "again"} /\ home[Parent[Top(t)]] \in Stars
          /\ provisions'[<<u, p>>] = [at |-> "sent", star |-> home[Parent[p]], key |-> None]
          /\ u = t /\ p = Top(t)
      BY <1>1 DEF Asking
    <2>2. /\ task[t].stack # <<>> /\ p = task[t].stack[Len(task[t].stack)]
          /\ Len(task[t].stack) \in Nat \ {0} /\ p \in known
      BY <1>0, <2>1, TopType DEF StackOK
    <2>3. provisions[<<u, p>>].at = "none"
      BY <1>0, <2>1, <2>2 DEF Fresh
    <2>4. assigns'[<<u, p>>] = "none"
      BY <1>0, <2>3, AskedIs DEF Serves
    <2>5. p \in known'
      BY <1>0, <2>2 DEF Kept
    <2>6. /\ provisions'[<<u, p>>].at = "sent" /\ provisions'[<<u, p>>].star \in Stars
      BY <2>1
    <2> QED
      BY <2>4, <2>5, <2>6 DEF Serves
  <1>2. CASE ~Asking(t) \/ <<u, p>> # <<t, Top(t)>>
    <2>1. provisions'[<<u, p>>] = provisions[<<u, p>>]
      <3>1. CASE Asking(t)
        BY <1>0, <1>2, <3>1 DEF Asking
      <3>2. CASE ~Asking(t)
        BY <3>2, TaskMoves DEF Begins, Ends, Deepens, Panics, Returns
      <3> QED
        BY <3>1, <3>2
    <2> QED
      BY <1>0, <2>1, ServesKept
  <1> QED
    BY <1>1, <1>2

\* The selectors stay as sort leaves them.
LEMMA SteppedStep ==
    ASSUME IInv, [Next]_vars
    PROVE  \A s \in Stars, k \in Kinds : Stepped(s, k)'
  <1> USE DEF registry, hosting, selectors, rounds
  <1>0. TypeOK /\ \A s \in Stars, k \in Kinds : Stepped(s, k)
    BY DEF IInv
  <1>1. CASE wrangles' = wrangles /\ step' = step
    BY <1>0, <1>1 DEF Stepped
  <1>2. ASSUME NEW s \in Stars, Add(s) PROVE \A r \in Stars, m \in Kinds : Stepped(r, m)'
    <2>1. PICK k, d : k = Head(adding[s])[1] /\ d = Head(adding[s])[2]
      OBVIOUS
    <2>2. k \in Kinds /\ d \in Discoveries
      <3>1. adding[s] # <<>> /\ adding[s] \in Seq(Kinds \X Discoveries)
        BY <1>0, <1>2 DEF TypeOK, Add
      <3> QED
        BY <2>1, <3>1
    <2>3. CASE Push(s, k, d)
      <3>1. PICK l : Relist(s, k, l)
        BY <1>0, <2>2, <2>3, PushIs
      <3>2. Sorted(l)
        BY <3>1 DEF Relist
      <3> SUFFICES ASSUME NEW r \in Stars, NEW m \in Kinds PROVE Stepped(r, m)'
        OBVIOUS
      <3>3. CASE r = s /\ m = k
        BY <1>0, <2>2, <3>1, <3>2, <3>3, ListIs DEF Stepped
      <3>4. CASE r # s \/ m # k
        <4>1. wrangles'[r][m] = wrangles[r][m] /\ step'[r][m] = step[r][m]
          BY <1>0, <2>2, <3>1, <3>4, ListIs
        <4> QED
          BY <1>0, <4>1 DEF Stepped
      <3> QED
        BY <3>3, <3>4
    <2>4. CASE ~Push(s, k, d)
      BY <1>1, <1>2, <2>1, <2>4 DEF Add
    <2> QED
      BY <2>3, <2>4
  <1>3. ASSUME NEW t \in Tasks, TaskStep(t) PROVE wrangles' = wrangles /\ step' = step
    BY <1>3 DEF TaskStep, Locate, Create, AskParent, AskAgain, Answered, TimesOut
  <1>4. ASSUME NEW t \in Tasks, NEW p \in Points, AskStep(t, p)
        PROVE  wrangles' = wrangles /\ step' = step
    BY <1>4 DEF AskStep, Provision, Wrangle, Assigned, AssignSlow, Assign, DriverAssigns,
                DriverFails, AssignStar
  <1>5. CASE Lose \/ UNCHANGED vars
    BY <1>1, <1>5 DEF Lose, vars
  <1> QED
    BY <1>1, <1>2, <1>3, <1>4, <1>5 DEF Next, Work, TaskStep, AskStep

\* A task's step keeps the invariant.
LEMMA InvTask ==
    ASSUME IInv, NEW t \in Tasks, TaskStep(t)
    PROVE  IInv'
  <1> USE DEF registry, hosting, selectors, rounds
  <1>0. /\ TypeOK /\ Kept /\ Registered /\ known \subseteq known'
        /\ \A u \in Tasks : u # t => task'[u] = task[u]
    BY TaskKeeps, TaskMoves DEF IInv
  <1>1. TypeOK'
    BY TypeTask DEF TaskStep
  <1>2. \A p \in Points : home'[p] \in {None, home[p]}
    <2>1. home \in [Points -> Stars \cup {None}] /\ goal[t] \in Points
      BY <1>0 DEF TypeOK
    <2>2. home' = home \/ home' = [home EXCEPT ![goal[t]] = None]
      BY DEF TaskStep, Locate, Create, AskParent, AskAgain, Answered, TimesOut
    <2> QED
      BY <2>1, <2>2
  <1>3. Registered'
    BY <1>0, <1>2 DEF Registered
  <1>4. \A u \in Tasks : StackOK(u)' /\ Fresh(u)' /\ Unwraps(u)'
    <2> SUFFICES ASSUME NEW u \in Tasks
                 PROVE  StackOK(u)' /\ Fresh(u)' /\ Unwraps(u)'
      OBVIOUS
    <2>1. CASE u = t
      BY <2>1, StackStep, FreshStep, UnwrapsStep
    <2>2. CASE u # t
      <3>1. \A p \in Points : provisions'[<<u, p>>] = provisions[<<u, p>>]
        <4>1. CASE Asking(t)
          BY <2>2, <4>1 DEF Asking, Ids
        <4>2. CASE ~Asking(t)
          BY <4>2, TaskMoves DEF Begins, Ends, Deepens, Panics, Returns
        <4> QED
          BY <4>1, <4>2
      <3>2. task'[u] = task[u]
        BY <1>0, <2>2
      <3> QED
        BY <1>0, <3>1, <3>2, TaskKept
    <2> QED
      BY <2>1, <2>2
  <1>5. \A u \in Tasks, p \in Points : Serves(u, p)'
    BY ServesAsked
  <1>6. HomesServe'
    <2>1. task'[t].found = task[t].found \/ Hosts(task'[t].found, goal[t])
      <3>1. CASE Ends(t)
        BY <3>1 DEF Ends
      <3>2. CASE ~Ends(t)
        <4>1. PICK at, stack : Moves(t, at, stack)
          BY <3>2, TaskMoves DEF Begins, Deepens, Asking, Panics, Returns
        <4> QED
          BY <4>1 DEF Moves
      <3> QED
        BY <3>1, <3>2
    <2>2. \A u \in Tasks : task'[u].found = task[u].found \/ Hosts(task'[u].found, goal[u])
      BY <1>0, <2>1
    <2> QED
      BY <1>0, <1>2, <2>2, HomesKept
  <1>7. \A s \in Stars, k \in Kinds : Stepped(s, k)'
    BY SteppedStep DEF Next, Work, TaskStep
  <1> QED
    BY <1>1, <1>3, <1>4, <1>5, <1>6, <1>7 DEF IInv

\* A handler's step touches one provision.
LEMMA AskAside ==
    ASSUME IInv, NEW t \in Tasks, NEW p \in Points, AskStep(t, p)
    PROVE  Aside(t, p)
  <1> DEFINE id == <<t, p>>
  <1>0. /\ TypeOK /\ Serves(t, p) /\ id \in Ids /\ provisions[id] \in Asks /\ assigns[id] \in Dones
        /\ provisions \in [Ids -> Asks] /\ assigns \in [Ids -> Dones]
    BY AskedIs, Types
  <1>1. task' = task
    BY DEF AskStep, Provision, Wrangle, Assigned, AssignSlow, Assign, DriverAssigns, DriverFails,
           AssignStar
  <1>2. provisions[id].at # "none"
    BY <1>0 DEF AskStep, Provision, Wrangle, Assigned, AssignSlow, Assign, DriverAssigns,
           DriverFails, AssignStar, Serves
  <1>3. /\ provisions'[id].at # "none"
        /\ \A i \in Ids : i # id => provisions'[i] = provisions[i]
    <2>1. CASE Provision(t, p)
      BY <1>0, <2>1 DEF Provision, Asks
    <2>2. CASE Wrangle(t, p)
      <3>1. PICK key : provisions' = [provisions EXCEPT ![id].at = "assigns", ![id].key = key]
        BY <2>2 DEF Wrangle
      <3> QED
        BY <1>0, <3>1 DEF Asks
    <2>3. CASE Assigned(t, p) \/ AssignSlow(t, p)
      <3>1. PICK at \in {"ok", "error"} : provisions' = [provisions EXCEPT ![id].at = at]
        BY <2>3 DEF Assigned, AssignSlow, Reply
      <3> QED
        BY <1>0, <3>1 DEF Asks
    <2>4. CASE Assign(t, p) \/ DriverAssigns(t, p) \/ DriverFails(t, p) \/ AssignStar(t, p)
      BY <1>2, <2>4 DEF Assign, DriverAssigns, DriverFails, AssignStar
    <2> QED
      BY <2>1, <2>2, <2>3, <2>4 DEF AskStep
  <1>4. \A i \in Ids : i # id => assigns'[i] = assigns[i]
    <2>1. assigns' = assigns \/ \E done : assigns' = [assigns EXCEPT ![id] = done]
      BY DEF AskStep, Provision, Wrangle, Assigned, AssignSlow, Assign, DriverAssigns,
             DriverFails, AssignStar
    <2> QED
      BY <1>0, <2>1
  <1> QED
    BY <1>1, <1>2, <1>3, <1>4 DEF Aside

\* A handler's step: the provision it touches.
LEMMA ServesHandled ==
    ASSUME IInv, NEW t \in Tasks, NEW p \in Points, AskStep(t, p)
    PROVE  Serves(t, p)'
  <1> USE DEF registry, hosting, selectors, rounds
  <1> DEFINE id == <<t, p>>
             ask == provisions[id]
             done == assigns[id]
  <1>0. /\ TypeOK /\ Kept /\ Serves(t, p) /\ id \in Ids /\ KindOf[p] \in Kinds
        /\ ask \in Asks /\ done \in Dones /\ known' = known /\ again' = again
        /\ provisions \in [Ids -> Asks] /\ assigns \in [Ids -> Dones]
    BY AskKeeps, AskedIs, Types
  <1>9. \A s : <<s, p>> \in shells \cap driven => <<s, p>> \in shells' \cap driven'
    BY <1>0 DEF Kept
  <1>8. done = "ok" /\ (home[p] # None \/ <<t, p>> \in again)
          => (home'[p] # None \/ <<t, p>> \in again')
    BY <1>0 DEF Kept
  <1>1. CASE Provision(t, p)
    <2>1. ask.at = "sent" /\ done = "none" /\ ask.star \in Stars /\ p \in known /\ wrangles' = wrangles
      BY <1>0, <1>1 DEF Provision, Serves
    <2>2. CASE /\ wrangles[ask.star][KindOf[p]] # <<>> /\ assigns' = assigns
               /\ provisions' = [provisions EXCEPT ![id].at = "turn"]
      <3>1. provisions'[id] = [at |-> "turn", star |-> ask.star, key |-> ask.key]
        BY <1>0, <2>2 DEF Asks
      <3>2. provisions'[id].at = "turn" /\ provisions'[id].star = ask.star
        BY <3>1
      <3> QED
        BY <1>0, <2>1, <2>2, <3>2 DEF Serves
    <2>3. CASE /\ provisions' = [provisions EXCEPT ![id].at = "itself", ![id].key = ask.star]
               /\ assigns' = [assigns EXCEPT ![id] = "sent"]
      <3>1. /\ provisions'[id] = [at |-> "itself", star |-> ask.star, key |-> ask.star]
            /\ assigns'[id] = "sent"
        BY <1>0, <2>3 DEF Asks
      <3>2. /\ provisions'[id].at = "itself" /\ provisions'[id].star = ask.star
            /\ provisions'[id].key = ask.star
        BY <3>1
      <3> QED
        BY <1>0, <2>1, <3>1, <3>2 DEF Serves
    <2>4. CASE provisions' = [provisions EXCEPT ![id].at = "error"] /\ assigns' = assigns
      <3>1. provisions'[id] = [at |-> "error", star |-> ask.star, key |-> ask.key]
        BY <1>0, <2>4 DEF Asks
      <3>2. provisions'[id].at = "error" /\ provisions'[id].star = ask.star
        BY <3>1
      <3> QED
        BY <1>0, <2>1, <2>4, <3>2 DEF Serves
    <2> QED
      BY <1>1, <2>2, <2>3, <2>4 DEF Provision
  <1>2. CASE Wrangle(t, p)
    <2> DEFINE key == Pick(ask.star, KindOf[p], index[ask.star][KindOf[p]] + 1)
    <2>1. /\ ask.at = "turn" /\ done = "none" /\ ask.star \in Stars /\ p \in known
          /\ wrangles[ask.star][KindOf[p]] # <<>>
          /\ provisions' = [provisions EXCEPT ![id].at = "assigns", ![id].key = key]
          /\ assigns' = [assigns EXCEPT ![id] = "sent"]
      BY <1>0, <1>2 DEF Wrangle, Serves
    <2>2. index[ask.star][KindOf[p]] + 1 \in Nat
      BY <1>0, <2>1, SMTT(30) DEF TypeOK
    <2>3. key \in Stars
      BY <1>0, <2>1, <2>2, PickType DEF IInv
    <2> HIDE DEF key
    <2>4. /\ provisions'[id] = [at |-> "assigns", star |-> ask.star, key |-> key]
          /\ assigns'[id] = "sent"
      BY <1>0, <2>1 DEF Asks
    <2>5. provisions'[id].at = "assigns" /\ provisions'[id].star = ask.star /\ provisions'[id].key = key
      BY <2>4
    <2> QED
      BY <1>0, <2>1, <2>3, <2>4, <2>5 DEF Serves
  <1>3. CASE Assigned(t, p) \/ AssignSlow(t, p)
    <2>1. PICK at \in {"ok", "error"} : /\ provisions' = [provisions EXCEPT ![id].at = at]
                                        /\ at = "ok" => done = "ok"
      BY <1>3 DEF Assigned, AssignSlow, Reply
    <2>2. ask.at \in {"assigns", "itself"} /\ assigns' = assigns
      BY <1>3 DEF Assigned, AssignSlow
    <2>3. provisions'[id] = [at |-> at, star |-> ask.star, key |-> ask.key]
      BY <1>0, <2>1 DEF Asks
    <2>4. provisions'[id].at = at /\ provisions'[id].star = ask.star /\ provisions'[id].key = ask.key
      BY <2>3
    <2>5. \A s : <<s, p>> \in shells => <<s, p>> \in shells'
      BY <1>0 DEF Kept
    <2> QED
      BY <1>0, <1>8, <1>9, <2>1, <2>2, <2>4, <2>5 DEF Serves, Hosts
  <1>4. CASE Assign(t, p)
    <2>1. done = "sent" /\ ask.key \in Stars /\ ask.at \notin {"none", "sent", "turn", "lost", "ok"}
          /\ provisions' = provisions /\ wrangles' = wrangles
      BY <1>0, <1>4 DEF Assign, Serves
    <2>2. (assigns'[id] = "driver" /\ <<ask.key, p>> \in shells') \/ assigns'[id] = "error"
      BY <1>0, <1>4 DEF Assign
    <2> QED
      BY <1>0, <2>1, <2>2 DEF Serves
  <1>5. CASE DriverAssigns(t, p)
    <2>1. done = "driver" /\ ask.key \in Stars /\ ask.at \notin {"none", "sent", "turn", "lost", "ok"}
          /\ provisions' = provisions /\ wrangles' = wrangles /\ <<ask.key, p>> \in shells
      BY <1>0, <1>5 DEF DriverAssigns, Serves
    <2>2. assigns'[id] = "driven" /\ <<ask.key, p>> \in shells' \cap driven'
      BY <1>0, <1>5, <2>1 DEF DriverAssigns
    <2> QED
      BY <1>0, <2>1, <2>2 DEF Serves, Hosts
  <1>6. CASE DriverFails(t, p)
    <2>1. done = "driver" /\ ask.key \in Stars /\ ask.at \notin {"none", "sent", "turn", "lost", "ok"}
          /\ provisions' = provisions /\ wrangles' = wrangles
      BY <1>0, <1>6 DEF DriverFails, Serves
    <2>2. assigns'[id] = "error"
      BY <1>0, <1>6 DEF DriverFails
    <2> QED
      BY <1>0, <2>1, <2>2 DEF Serves
  <1>7. CASE AssignStar(t, p)
    <2>1. done = "driven" /\ ask.key \in Stars /\ ask.at \notin {"none", "sent", "turn", "lost", "ok"}
          /\ provisions' = provisions /\ wrangles' = wrangles
          /\ <<ask.key, p>> \in shells \cap driven
      BY <1>0, <1>7 DEF AssignStar, Serves, Hosts
    <2>2. assigns'[id] = "ok" /\ home'[p] = ask.key /\ ask.key # None
      BY <1>0, <1>7, <2>1, ProvisionAssumption DEF AssignStar, TypeOK
    <2> QED
      BY <1>0, <1>9, <2>1, <2>2 DEF Serves, Hosts
  <1> QED
    BY <1>1, <1>2, <1>3, <1>4, <1>5, <1>6, <1>7 DEF AskStep

\* A handler's step keeps the invariant.
LEMMA InvAsk ==
    ASSUME IInv, NEW t \in Tasks, NEW p \in Points, AskStep(t, p)
    PROVE  IInv'
  <1> USE DEF registry, hosting, selectors, rounds
  <1>0. TypeOK /\ Kept /\ known' = known /\ Aside(t, p) /\ Serves(t, p)
    BY AskKeeps, AskAside, AskedIs
  <1>1. TypeOK'
    BY TypeAsk DEF AskStep
  <1>2. \A q \in Points : /\ home'[q] = home[q] \/ HostsThen(home'[q], q)
                          /\ home'[q] # None => q \in known
    <2>0. Registered /\ home \in [Points -> Stars \cup {None}]
      BY <1>0 DEF IInv, TypeOK
    <2>1. CASE AssignStar(t, p)
      <3>1. /\ home' = [home EXCEPT ![p] = provisions[<<t, p>>].key] /\ p \in known
            /\ <<provisions[<<t, p>>].key, p>> \in shells \cap driven
            /\ shells' = shells /\ driven' = driven
        BY <1>0, <2>1 DEF AssignStar, Serves, Hosts
      <3> QED
        BY <2>0, <3>1 DEF HostsThen, Registered
    <2>2. CASE ~AssignStar(t, p)
      <3>1. home' = home
        BY <2>2 DEF AskStep, Provision, Wrangle, Assigned, AssignSlow, Assign, DriverAssigns, DriverFails
      <3> QED
        BY <2>0, <3>1 DEF Registered
    <2> QED
      BY <2>1, <2>2
  <1>3. Registered'
    BY <1>0, <1>2 DEF Registered
  <1>4. \A u \in Tasks : StackOK(u)' /\ Fresh(u)' /\ Unwraps(u)'
    <2> SUFFICES ASSUME NEW u \in Tasks
                 PROVE  StackOK(u)' /\ Fresh(u)' /\ Unwraps(u)'
      OBVIOUS
    <2>1. \A q \in Points : provisions[<<u, q>>].at = "none" => provisions'[<<u, q>>].at = "none"
      BY <1>0 DEF Aside, Ids
    <2>2. task'[u] = task[u]
      BY <1>0 DEF Aside
    <2> QED
      BY <1>0, <2>1, <2>2, TaskKept
  <1>5. \A u \in Tasks, q \in Points : Serves(u, q)'
    <2> SUFFICES ASSUME NEW u \in Tasks, NEW q \in Points
                 PROVE  Serves(u, q)'
      OBVIOUS
    <2>1. CASE <<u, q>> = <<t, p>>
      BY <2>1, ServesHandled
    <2>2. CASE <<u, q>> # <<t, p>>
      <3>1. provisions'[<<u, q>>] = provisions[<<u, q>>] /\ assigns'[<<u, q>>] = assigns[<<u, q>>]
        BY <1>0, <2>2 DEF Aside, Ids
      <3> QED
        BY <1>0, <3>1, ServesKept
    <2> QED
      BY <2>1, <2>2
  <1>6. HomesServe'
    BY <1>0, <1>2, HomesKept DEF Aside
  <1>7. \A s \in Stars, k \in Kinds : Stepped(s, k)'
    BY SteppedStep DEF Next, Work, AskStep
  <1> QED
    BY <1>1, <1>3, <1>4, <1>5, <1>6, <1>7 DEF IInv

\* A message that is lost.
LEMMA ServesLost ==
    ASSUME IInv, Lose, NEW t \in Tasks, NEW p \in Points
    PROVE  /\ Serves(t, p)'
           /\ provisions[<<t, p>>].at = "none" => provisions'[<<t, p>>].at = "none"
  <1> USE DEF registry, hosting, selectors, rounds
  <1>0. /\ TypeOK /\ Kept /\ Serves(t, p) /\ <<t, p>> \in Ids
        /\ provisions[<<t, p>>] \in Asks /\ assigns[<<t, p>>] \in Dones
        /\ provisions \in [Ids -> Asks] /\ assigns \in [Ids -> Dones]
    BY RestKeeps, AskedIs, Types
  <1>1. PICK i \in Ids :
             \/ /\ provisions[i].at = "sent"
                /\ provisions' = [provisions EXCEPT ![i].at = "lost"]
                /\ UNCHANGED assigns
             \/ /\ provisions[i].at = "assigns" /\ assigns[i] = "sent"
                /\ assigns' = [assigns EXCEPT ![i] = "lost"]
                /\ UNCHANGED provisions
    BY DEF Lose
  <1>2. CASE i # <<t, p>>
    <2>1. provisions'[<<t, p>>] = provisions[<<t, p>>] /\ assigns'[<<t, p>>] = assigns[<<t, p>>]
      BY <1>0, <1>1, <1>2
    <2> QED
      BY <1>0, <2>1, ServesKept
  <1>3. CASE i = <<t, p>> /\ provisions[i].at = "sent"
    <2>1. /\ provisions' = [provisions EXCEPT ![<<t, p>>].at = "lost"] /\ assigns' = assigns
      BY <1>1, <1>3
    <2>2. provisions'[<<t, p>>] = [at |-> "lost", star |-> provisions[<<t, p>>].star,
                                   key |-> provisions[<<t, p>>].key]
      BY <1>0, <2>1 DEF Asks
    <2>3. /\ provisions'[<<t, p>>].at = "lost"
          /\ provisions'[<<t, p>>].star = provisions[<<t, p>>].star
      BY <2>2
    <2>4. known' = known /\ wrangles' = wrangles
      BY DEF Lose
    <2> QED
      BY <1>0, <1>3, <2>1, <2>3, <2>4 DEF Serves
  <1>4. CASE i = <<t, p>> /\ provisions[i].at = "assigns"
    <2>1. assigns' = [assigns EXCEPT ![<<t, p>>] = "lost"] /\ provisions' = provisions
          /\ assigns[<<t, p>>] = "sent"
      BY <1>1, <1>4
    <2>2. assigns'[<<t, p>>] = "lost"
      BY <1>0, <2>1
    <2>3. known' = known /\ wrangles' = wrangles
      BY DEF Lose
    <2> QED
      BY <1>0, <1>4, <2>1, <2>2, <2>3 DEF Serves
  <1> QED
    BY <1>1, <1>2, <1>3, <1>4

\* A round, a loss and a stutter keep the invariant.
LEMMA InvRest ==
    ASSUME IInv, (\E s \in Stars : Add(s)) \/ Lose \/ UNCHANGED vars
    PROVE  IInv'
  <1> USE DEF registry, hosting, selectors, rounds
  <1>0. TypeOK /\ Kept /\ task' = task /\ home' = home /\ known' = known
    BY RestKeeps DEF IInv
  <1>1. TypeOK'
    <2>1. CASE UNCHANGED vars
      BY <1>0, <2>1 DEF TypeOK, vars, Ids
    <2>2. CASE ~UNCHANGED vars
      BY <1>0, <2>2, TypeRest
    <2> QED
      BY <2>1, <2>2
  <1>2. Registered'
    BY <1>0 DEF IInv, Registered
  <1>3. \A t \in Tasks, p \in Points :
           Serves(t, p)' /\ (provisions[<<t, p>>].at = "none" => provisions'[<<t, p>>].at = "none")
    <2>1. CASE Lose
      BY <2>1, ServesLost
    <2>2. CASE ~Lose
      <3>1. provisions' = provisions /\ assigns' = assigns
        BY <2>2 DEF Add, vars
      <3> QED
        BY <1>0, <3>1, ServesKept
    <2> QED
      BY <2>1, <2>2
  <1>4. \A t \in Tasks : StackOK(t)' /\ Fresh(t)' /\ Unwraps(t)'
    BY <1>0, <1>3, TaskKept
  <1>5. HomesServe'
    BY <1>0, HomesKept
  <1>7. \A s \in Stars, k \in Kinds : Stepped(s, k)'
    BY SteppedStep DEF Next, Work
  <1> QED
    BY <1>1, <1>2, <1>3, <1>4, <1>5, <1>7 DEF IInv

\* The invariant holds at the start.
LEMMA InvInit == Init => IInv
  <1> SUFFICES ASSUME Init
               PROVE  IInv
    OBVIOUS
  <1> USE DEF registry, hosting, selectors, rounds
  <1>1. PICK g \in Situations : goal = g.goal /\ makers = g.makers /\ known = g.known
    BY DEF Init
  <1>2. /\ g \in SituationType /\ \A p \in Points : Homes[p] # None => p \in known
    BY <1>1, ProvisionAssumption
  <1>3. goal \in [Tasks -> Points] /\ makers \subseteq Tasks /\ known \subseteq Points
    BY <1>1, <1>2 DEF SituationType
  <1>4. task \in TaskType
    <2>1. <<>> \in Seq(Points)
      OBVIOUS
    <2> QED
      BY <2>1 DEF Init, TaskType, Ats
  <1>5. provisions \in [Ids -> Asks] /\ assigns \in [Ids -> Dones]
    BY DEF Init, Asks, AskAts, Dones
  <1>6. home \in [Points -> Stars \cup {None}] /\ shells \subseteq Stars \X Points
        /\ driven \subseteq Stars \X Points
    BY ProvisionAssumption DEF Init
  <1>7. picks \in [Stars -> [Kinds -> Seq(Stars)]]
    <2>1. <<>> \in Seq(Stars)
      OBVIOUS
    <2> QED
      BY <2>1 DEF Init
  <1>13. wrangles \in [Stars -> [Kinds -> Seq(Discoveries)]]
         /\ \A s \in Stars, k \in Kinds : Sorted(wrangles[s][k])
    BY ProvisionAssumption DEF Init
  <1>14. ASSUME NEW s \in Stars, NEW k \in Kinds
         PROVE  Stepped(s, k) /\ StepIndex(wrangles[s][k]) \in Nat
    <2>1. step[s][k] = StepIndex(wrangles[s][k])
      BY DEF Init
    <2>2. wrangles[s][k] \in Seq(Discoveries)
      BY <1>13
    <2>3. StepIndex(wrangles[s][k]) \in 0..Len(wrangles[s][k])
      BY <1>13, <2>2, StepIs
    <2> QED
      BY <1>13, <2>1, <2>3 DEF Stepped
  <1>15. step \in [Stars -> [Kinds -> Nat]]
    BY <1>14 DEF Init
  <1>8. TypeOK
    <2>1. Typed
      BY <1>3, <1>4, <1>5, <1>6, <1>7, <1>13, <1>15, ProvisionAssumption DEF Init, Typed
    <2> QED
      BY <2>1, TypedIs
  <1>9. Registered
    BY <1>2 DEF Init, Registered
  <1>10. \A t \in Tasks : StackOK(t) /\ Fresh(t) /\ Unwraps(t)
    BY DEF Init, StackOK, Fresh, Unwraps, Ids
  <1>11. \A t \in Tasks, p \in Points : Serves(t, p)
    BY DEF Init, Serves, Ids
  <1>12. HomesServe
    <2>1. ASSUME NEW p \in Points, home[p] # None
          PROVE  Hosts(home[p], p)
      <3>1. Homes[p] \in Stars /\ home[p] = Homes[p]
        BY <2>1, ProvisionAssumption DEF Init
      <3>2. <<Homes[p], p>> \in {i \in Stars \X Points : Homes[i[2]] = i[1]}
        BY <3>1
      <3> QED
        BY <3>1, <3>2 DEF Init, Hosts
    <2>2. \A t \in Tasks : task[t].found = None
      BY DEF Init
    <2> QED
      BY <2>1, <2>2 DEF HomesServe
  <1> QED
    BY <1>8, <1>9, <1>10, <1>11, <1>12, <1>14 DEF IInv

LEMMA InvNext == IInv /\ [Next]_vars => IInv'
  <1> SUFFICES ASSUME IInv, [Next]_vars
               PROVE  IInv'
    OBVIOUS
  <1>1. CASE \E t \in Tasks : TaskStep(t)
    BY <1>1, InvTask
  <1>2. CASE \E t \in Tasks, p \in Points : AskStep(t, p)
    BY <1>2, InvAsk
  <1>3. CASE (\E s \in Stars : Add(s)) \/ Lose \/ UNCHANGED vars
    BY <1>3, InvRest
  <1> QED
    BY <1>1, <1>2, <1>3 DEF Next, Work, TaskStep, AskStep

THEOREM Invariant == Spec => []IInv
  BY InvInit, InvNext, PTL DEF Spec

-----------------------------------------------------------------------------
\* Every variable keeps its type, for any stars, points, kinds, tasks and situations.
THEOREM TypeCorrect == Spec => []TypeOK
  <1>1. IInv => TypeOK
    BY DEF IInv
  <1> QED
    BY <1>1, Invariant, PTL

\* Wherever the registry says a particle is, and wherever a task was told it is, there are its
\* shell and its driver's assignment: of any tasks, in any order, with any messages lost.
THEOREM HomesAreServed == Spec => []HomesServe
  <1>1. IInv => HomesServe
    BY DEF IInv
  <1> QED
    BY <1>1, Invariant, PTL

\* The unwrap of the parent's star in SmartLocator does panic, and in one case only: the parent
\* was created again after the star that it was assigned to, for this very task, had written
\* itself into its record.  No loss, no timer, no failing driver and no other task's
\* provisioning makes it panic.
THEOREM ParentsUnwrap == Spec => []UnwrapsParent
  <1>1. IInv => UnwrapsParent
    <2> SUFFICES ASSUME IInv, NEW t \in Tasks, task[t].at = "panicked"
                 PROVE  <<t, Parent[Top(t)]>> \in again
      BY DEF UnwrapsParent
    <2>1. TypeOK /\ StackOK(t) /\ Unwraps(t)
      BY DEF IInv
    <2>2. task[t].stack # <<>>
      BY <2>1 DEF StackOK
    <2>3. Top(t) = task[t].stack[Len(task[t].stack)]
      BY <2>1, <2>2, TopType
    <2> QED
      BY <2>1, <2>3 DEF Unwraps
  <1> QED
    BY <1>1, Invariant, PTL

-----------------------------------------------------------------------------
(* Turns.  What was picked since a selector last changed are the picks at  *)
(* the indices up to the last one; indices that follow each other, as many *)
(* as there are nearest stars, are each one's once.                        *)

\* Of n's multiples, those after the first are no less than n.
LEMMA Multiple ==
    ASSUME NEW q \in Nat, NEW n \in Nat, q >= 1
    PROVE  q * n >= n
  OBVIOUS

\* A number is its quotient's multiple and a remainder below the divisor.
LEMMA Remainder ==
    ASSUME NEW a \in Nat, NEW n \in Nat \ {0}
    PROVE  a % n \in 0..n - 1 /\ a \div n \in Nat /\ a = n * (a \div n) + (a % n)
  OBVIOUS

\* Numbers that are close and have the same remainder are the same.
LEMMA SameRemainder ==
    ASSUME NEW a \in Nat, NEW c \in Nat, NEW n \in Nat \ {0}, a % n = c % n, a <= c, c - a < n
    PROVE  a = c
  <1>1. a = n * (a \div n) + (a % n) /\ a \div n \in Nat /\ a % n \in 0..n - 1
    BY Remainder
  <1>2. c = n * (c \div n) + (c % n) /\ c \div n \in Nat
    BY Remainder
  <1> DEFINE q == c \div n
             r == a \div n
  <1>3. q \in Int /\ r \in Int /\ a = n * r + (a % n) /\ c = n * q + (a % n) /\ a % n \in Int
    BY <1>1, <1>2
  <1> HIDE DEF q, r
  <1>4. n * q - n * r = n * (q - r)
    BY <1>3
  <1>5. CASE q - r >= 1
    <2>1. q - r \in Nat
      BY <1>3, <1>5
    <2>2. (q - r) * n >= n
      BY <1>5, <2>1, Multiple
    <2> QED
      BY <1>3, <1>4, <2>2
  <1>6. CASE q - r < 0
    <2>1. r - q \in Nat /\ r - q >= 1
      BY <1>3, <1>6
    <2>2. (r - q) * n >= n
      BY <2>1, Multiple
    <2>3. n * r - n * q = n * (r - q)
      BY <1>3
    <2> QED
      BY <1>3, <2>2, <2>3
  <1>7. CASE q = r
    BY <1>3, <1>7
  <1> QED
    BY <1>3, <1>5, <1>6, <1>7

\* n indices that follow each other turn through all of n places.
LEMMA Turning ==
    ASSUME NEW n \in Nat \ {0}, NEW b \in Nat
    PROVE  [j \in 1..n |-> ((b + j) % n) + 1] \in Bijection(1..n, 1..n)
  <1> DEFINE f == [j \in 1..n |-> ((b + j) % n) + 1]
  <1>1. \A j \in 1..n : b + j \in Nat /\ (b + j) % n \in 0..n - 1
    BY Remainder
  <1>2. f \in [1..n -> 1..n]
    <2>1. \A j \in 1..n : ((b + j) % n) + 1 \in 1..n
      BY <1>1
    <2> QED
      BY <2>1
  <1>3. ASSUME NEW i \in 1..n, NEW j \in 1..n, f[i] = f[j], i <= j PROVE i = j
    <2>1. (b + i) % n = (b + j) % n
      BY <1>1, <1>3
    <2>2. b + i <= b + j /\ (b + j) - (b + i) < n /\ b + i \in Nat /\ b + j \in Nat
      BY <1>3
    <2>3. b + i = b + j
      BY <2>1, <2>2, SameRemainder
    <2> QED
      BY <2>3
  <1>4. IsInjective(f)
    <2>1. DOMAIN f = 1..n
      OBVIOUS
    <2> HIDE DEF f
    <2>2. \A i, j \in 1..n : f[i] = f[j] => i = j
      <3> SUFFICES ASSUME NEW i \in 1..n, NEW j \in 1..n, f[i] = f[j] PROVE i = j
        OBVIOUS
      <3>1. i <= j \/ j <= i
        OBVIOUS
      <3> QED
        BY <1>3, <3>1
    <2> QED
      BY <2>1, <2>2 DEF IsInjective
  <1> HIDE DEF f
  <1>5. f \in Injection(1..n, 1..n)
    BY <1>2, <1>4 DEF Injection
  <1>6. IsFiniteSet(1..n)
    BY FS_Interval
  <1>7. f \in Surjection(1..n, 1..n)
    BY <1>5, <1>6, FS_Injection
  <1> QED
    BY <1>5, <1>7 DEF Bijection, f

\* Places that are only turned have the same stars as often.
LEMMA SameTimes ==
    ASSUME NEW n \in Nat, NEW l, NEW w, DOMAIN l = 1..n, DOMAIN w = 1..n,
           NEW f \in Bijection(1..n, 1..n), \A j \in 1..n : l[j] = w[f[j]], NEW x
    PROVE  Times(x, l) = Times(x, w)
  <1> DEFINE A == {i \in 1..n : l[i] = x}
             B == {i \in 1..n : w[i] = x}
             g == [i \in A |-> f[i]]
  <1>1. /\ f \in [1..n -> 1..n]
        /\ \A i, j \in 1..n : f[i] = f[j] => i = j
        /\ \A k \in 1..n : \E i \in 1..n : f[i] = k
    <2>1. f \in [1..n -> 1..n] /\ IsInjective(f)
      BY DEF Bijection, Injection
    <2>2. \A k \in 1..n : \E i \in 1..n : f[i] = k
      BY DEF Bijection, Surjection
    <2> QED
      BY <2>1, <2>2 DEF IsInjective
  <1>2. \A i \in A : i \in 1..n /\ f[i] \in B
    BY <1>1
  <1>3. g \in [A -> B]
    BY <1>2
  <1>4. IsInjective(g)
    <2>1. DOMAIN g = A /\ \A i \in A : g[i] = f[i]
      OBVIOUS
    <2> HIDE DEF g
    <2> QED
      BY <1>1, <1>2, <2>1 DEF IsInjective
  <1>5. \A k \in B : \E i \in A : g[i] = k
    <2> SUFFICES ASSUME NEW k \in B PROVE \E i \in A : g[i] = k
      OBVIOUS
    <2>1. PICK i \in 1..n : f[i] = k
      BY <1>1
    <2>2. i \in A
      BY <2>1
    <2> QED
      BY <2>1, <2>2
  <1>6. IsFiniteSet(A)
    <2>1. IsFiniteSet(1..n)
      BY FS_Interval
    <2> QED
      BY <2>1, FS_Subset
  <1>7. Times(x, l) = Cardinality(A) /\ Times(x, w) = Cardinality(B)
    BY DEF Times
  <1> HIDE DEF A, B, g
  <1>8. g \in Bijection(A, B)
    BY <1>3, <1>4, <1>5 DEF Bijection, Injection, Surjection
  <1>9. ExistsBijection(A, B)
    BY <1>8 DEF ExistsBijection
  <1> QED
    BY <1>6, <1>7, <1>9, FS_Bijection

\* The picks of a selector are those at the indices up to its last one.
Turn(s, k, i) ==
    /\ Len(picks[s][k]) <= index[s][k]
    /\ wrangles[s][k] # <<>>
    /\ picks[s][k][i] = Pick(s, k, index[s][k] - Len(picks[s][k]) + i)

Turned == \A s \in Stars, k \in Kinds : \A i \in 1..Len(picks[s][k]) : Turn(s, k, i)

\* As many picks in turn as the selector has nearest stars have each of these as often as it
\* is among them.
LEMMA TurnedFair == IInv /\ Turned => FairTurns
  <1> SUFFICES ASSUME TypeOK, Turned, NEW s \in Stars, NEW k \in Kinds, Stepped(s, k),
                      NEW i \in 1..Len(picks[s][k]) - Cardinality(Nearest(wrangles[s][k])) + 1,
                      NEW x \in Stars
               PROVE  Times(x, SubSeq(picks[s][k], i,
                                      i + Cardinality(Nearest(wrangles[s][k])) - 1))
                        = Share(x, wrangles[s][k])
    BY DEF FairTurns, IInv
  <1>a. PICK w, n : w = wrangles[s][k] /\ n = step[s][k]
    OBVIOUS
  <1>b. w \in Seq(Discoveries) /\ Sorted(w) /\ n = StepIndex(w)
    BY <1>a DEF TypeOK, Stepped
  <1>c. n \in Nat /\ Nearest(w) = 1..n
    <2>1. n \in 0..Len(w) /\ Nearest(w) = 1..n
      BY <1>b, StepIs
    <2> QED
      BY <1>b, <2>1
  <1>d. Cardinality(Nearest(w)) = n
    BY <1>c, FS_Interval
  <1> DEFINE v == [j \in 1..n |-> w[j].star]
             p == picks[s][k]
             l == SubSeq(p, i, i + n - 1)
  <1>1. p \in Seq(Stars) /\ n \in Nat /\ Len(p) \in Nat /\ index[s][k] \in Nat
    BY <1>c DEF TypeOK
  <1>2. i \in Nat /\ i >= 1 /\ i + n - 1 <= Len(p)
    <2>1. i \in 1..Len(p) - n + 1
      BY <1>a, <1>d
    <2> HIDE DEF p
    <2> QED
      BY <1>1, <2>1
  <1>3. DOMAIN v = 1..n
    OBVIOUS
  <1>e. Share(x, w) = Times(x, v)
    <2>1. {j \in 1..n : w[j].star = x} = {j \in 1..n : v[j] = x}
      OBVIOUS
    <2> QED
      BY <1>c, <1>3, <2>1 DEF Share, Times
  <1>4. Len(l) = n /\ l \in Seq(Stars) /\ \A j \in 1..n : l[j] = p[i + j - 1]
    <2> HIDE DEF p, v
    <2>1. \A j \in i..i + n - 1 : p[j] \in Stars
      BY <1>1, <1>2
    <2>2. i \in Int /\ i + n - 1 \in Int
      BY <1>1, <1>2
    <2>3. /\ l \in Seq(Stars)
          /\ Len(l) = IF i <= i + n - 1 THEN (i + n - 1) - i + 1 ELSE 0
          /\ \A j \in 1..(i + n - 1) - i + 1 : l[j] = p[i + j - 1]
      BY <2>1, <2>2, SubSeqProperties
    <2> QED
      BY <1>1, <1>2, <2>3
  <1>5. DOMAIN l = 1..n
    BY <1>4
  <1>f. Times(x, l) = Times(x, v) => Times(x, SubSeq(picks[s][k], i,
                                      i + Cardinality(Nearest(wrangles[s][k])) - 1))
                                        = Share(x, wrangles[s][k])
    BY <1>a, <1>d, <1>e
  <1>6. CASE n = 0
    <2>1. {j \in DOMAIN l : l[j] = x} = {j \in DOMAIN v : v[j] = x}
      BY <1>3, <1>5, <1>6
    <2>2. Times(x, l) = Times(x, v)
      BY <2>1 DEF Times
    <2> QED
      BY <1>f, <2>2
  <1>7. CASE n # 0
    <2> DEFINE b == index[s][k] - Len(p) + i - 1
               f == [j \in 1..n |-> ((b + j) % n) + 1]
    <2>1. 1 \in 1..Len(p) /\ Len(p) <= index[s][k]
      BY <1>1, <1>2, <1>7 DEF Turned, Turn
    <2>2. b \in Nat /\ n \in Nat \ {0}
      <3> HIDE DEF p
      <3>1. Len(p) <= index[s][k]
        BY <2>1 DEF p
      <3> QED
        BY <1>1, <1>2, <1>7, <3>1
    <2>3. \A j \in 1..n : l[j] = v[f[j]]
      <3> SUFFICES ASSUME NEW j \in 1..n PROVE l[j] = v[f[j]]
        OBVIOUS
      <3>1. i + j - 1 \in 1..Len(p)
        BY <1>1, <1>2
      <3>2. p[i + j - 1] = Pick(s, k, index[s][k] - Len(p) + (i + j - 1))
        BY <3>1 DEF Turned, Turn
      <3>3. index[s][k] - Len(p) + (i + j - 1) = b + j
        <4> HIDE DEF p
        <4> QED
          BY <1>1, <1>2
      <3>6. b + j \in Nat /\ (b + j) % n \in 0..n - 1
        <4>1. b + j \in Nat
          BY <2>2
        <4> QED
          BY <2>2, <4>1, Remainder
      <3>4. Pick(s, k, b + j) = v[((b + j) % n) + 1]
        <4>1. ((b + j) % n) + 1 \in 1..n
          BY <2>2, <3>6
        <4>2. Pick(s, k, b + j) = w[((b + j) % n) + 1].star
          BY <1>a DEF Pick
        <4> HIDE DEF b
        <4> QED
          BY <4>1, <4>2
      <3> HIDE DEF b, l, v, p
      <3>5. f[j] = ((b + j) % n) + 1
        OBVIOUS
      <3> QED
        BY <1>4, <3>2, <3>3, <3>4, <3>5
    <2> HIDE DEF b, l, v
    <2>4. f \in Bijection(1..n, 1..n)
      BY <2>2, Turning
    <2> HIDE DEF f
    <2>5. Times(x, l) = Times(x, v)
      <3>1. n \in Nat
        BY <2>2
      <3> QED
        BY <1>3, <1>5, <2>3, <2>4, <3>1, SameTimes
    <2> QED
      BY <1>f, <2>5 DEF l, v
  <1> QED
    BY <1>6, <1>7

\* Nothing is picked before the first task.
LEMMA InitTurned == Init => Turned
  <1> SUFFICES ASSUME Init, NEW s \in Stars, NEW k \in Kinds PROVE Len(picks[s][k]) = 0
    BY DEF Turned
  <1>1. picks[s][k] = <<>>
    BY DEF Init
  <1> QED
    BY <1>1

\* Two numbers that both grow by one keep their distance.
LEMMA BothNext ==
    ASSUME NEW a \in Nat, NEW b \in Nat
    PROVE  (a + 1) - (b + 1) = a - b
  OBVIOUS

\* A pick is the one at the next index; a change of the selector starts its count again.
LEMMA NextTurned == IInv /\ Turned /\ [Next]_vars => Turned'
  <1> SUFFICES ASSUME TypeOK, IInv, Turned, [Next]_vars PROVE Turned'
    BY DEF IInv
  <1>t. /\ \A s \in Stars, k \in Kinds :
             picks[s][k] \in Seq(Stars) /\ index[s][k] \in Nat /\ wrangles[s][k] \in Seq(Discoveries)
    BY DEF TypeOK
  <1>1. CASE UNCHANGED <<picks, index, wrangles, step>>
    BY <1>1 DEF Turned, Turn, Pick
  <1>2. ASSUME NEW t \in Tasks, NEW p \in Points, Wrangle(t, p) PROVE Turned'
    <2> DEFINE id == <<t, p>>
    <2>a. PICK s, k : s = provisions[id].star /\ k = KindOf[p]
      OBVIOUS
    <2>b. PICK key : key = Pick(s, k, index[s][k] + 1)
      OBVIOUS
    <2>1. s \in Stars /\ k \in Kinds /\ wrangles[s][k] # <<>>
      <3>1. Serves(t, p) /\ KindOf[p] \in Kinds
        BY ProvisionAssumption DEF IInv
      <3> QED
        BY <1>2, <2>a, <3>1 DEF Wrangle, Serves
    <2>2. /\ index' = [index EXCEPT ![s][k] = @ + 1]
          /\ picks' = [picks EXCEPT ![s][k] = Append(@, key)]
          /\ wrangles' = wrangles /\ step' = step
      BY <1>2, <2>a, <2>b DEF Wrangle
    <2>3. /\ index'[s][k] = index[s][k] + 1
          /\ picks'[s][k] = Append(picks[s][k], key)
          /\ \A r \in Stars, m \in Kinds :
                r # s \/ m # k => index'[r][m] = index[r][m] /\ picks'[r][m] = picks[r][m]
      BY <2>1, <2>2 DEF TypeOK
    <2> SUFFICES ASSUME NEW r \in Stars, NEW m \in Kinds, NEW i \in 1..Len(picks'[r][m])
                 PROVE  Turn(r, m, i)'
      BY DEF Turned
    <2>5. CASE r # s \/ m # k
      <3>1. picks'[r][m] = picks[r][m] /\ index'[r][m] = index[r][m] /\ wrangles'[r][m] = wrangles[r][m]
            /\ step'[r][m] = step[r][m]
        BY <2>2, <2>3, <2>5
      <3>2. Turn(r, m, i)
        BY <3>1 DEF Turned
      <3> QED
        BY <3>1, <3>2 DEF Turn, Pick
    <2>6. CASE r = s /\ m = k
      <3>0. Len(picks'[s][k]) = Len(picks[s][k]) + 1 /\ Len(picks[s][k]) \in Nat
        BY <1>t, <2>1, <2>3
      <3>1. /\ \A j \in 1..Len(picks[s][k]) : picks'[s][k][j] = picks[s][k][j]
            /\ picks'[s][k][Len(picks[s][k]) + 1] = key
        BY <1>t, <2>1, <2>3
      <3>2. index'[s][k] - Len(picks'[s][k]) = index[s][k] - Len(picks[s][k]) /\ index[s][k] \in Nat
        <4>1. index[s][k] \in Nat
          BY <1>t, <2>1
        <4>2. index'[s][k] = index[s][k] + 1
          BY <2>3
        <4>3. index'[s][k] - Len(picks'[s][k]) = (index[s][k] + 1) - (Len(picks[s][k]) + 1)
          BY <3>0, <4>2
        <4>4. (index[s][k] + 1) - (Len(picks[s][k]) + 1) = index[s][k] - Len(picks[s][k])
          BY <3>0, <4>1, BothNext
        <4> QED
          BY <4>1, <4>3, <4>4
      <3>3. Len(picks[s][k]) <= index[s][k]
        <4>1. CASE Len(picks[s][k]) = 0
          BY <3>0, <3>2, <4>1
        <4>2. CASE Len(picks[s][k]) # 0
          <5>1. 1 \in 1..Len(picks[s][k])
            BY <3>0, <4>2
          <5> QED
            BY <2>1, <5>1 DEF Turned, Turn
        <4> QED
          BY <4>1, <4>2
      <3>6. Len(picks'[s][k]) <= index'[s][k] /\ wrangles'[s][k] # <<>>
        BY <2>1, <2>2, <2>3, <3>0, <3>2, <3>3
      <3>4. CASE i \in 1..Len(picks[s][k])
        <4>1. picks[s][k][i] = Pick(s, k, index[s][k] - Len(picks[s][k]) + i)
          BY <2>1, <3>4 DEF Turned, Turn
        <4>2. picks'[s][k][i] = Pick(s, k, index'[s][k] - Len(picks'[s][k]) + i)
          BY <2>6, <3>1, <3>2, <3>4, <4>1
        <4>3. Turn(s, k, i)'
          BY <2>2, <3>6, <4>2 DEF Turn, Pick
        <4> QED
          BY <2>6, <4>3 DEF Turn
      <3>5. CASE i = Len(picks[s][k]) + 1
        <4>1. index'[s][k] - Len(picks'[s][k]) + i = index[s][k] + 1
          BY <3>0, <3>2, <3>5
        <4>2. picks'[s][k][i] = Pick(s, k, index'[s][k] - Len(picks'[s][k]) + i)
          BY <2>b, <2>6, <3>1, <3>5, <4>1
        <4>3. Turn(s, k, i)'
          BY <2>2, <3>6, <4>2 DEF Turn, Pick
        <4> QED
          BY <2>6, <4>3 DEF Turn
      <3>7. i \in 1..Len(picks[s][k]) \/ i = Len(picks[s][k]) + 1
        BY <2>6, <3>0
      <3> QED
        BY <3>4, <3>5, <3>7
    <2> QED
      BY <2>5, <2>6
  <1>3. ASSUME NEW s \in Stars, Add(s) PROVE Turned'
    <2>a. PICK k, d : k = Head(adding[s])[1] /\ d = Head(adding[s])[2]
      OBVIOUS
    <2>1. k \in Kinds /\ d \in Discoveries
      <3>1. adding[s] \in Seq(Kinds \X Discoveries) /\ adding[s] # <<>>
        BY <1>3 DEF Add, TypeOK
      <3> QED
        BY <2>a, <3>1
    <2>2. CASE lock[s][k] # None
      BY <1>1, <1>3, <2>a, <2>2 DEF Add
    <2>3. CASE lock[s][k] = None
      <3>1. PICK l : Relist(s, k, l)
        <4>1. Push(s, k, d)
          BY <1>3, <2>a, <2>3 DEF Add
        <4> QED
          BY <2>1, <4>1, PushIs
      <3>2. picks' = [picks EXCEPT ![s][k] = <<>>] /\ index' = index
        BY <1>3, <2>a, <2>3 DEF Add
      <3>3. /\ picks'[s][k] = <<>>
            /\ \A r \in Stars, m \in Kinds : r # s \/ m # k =>
                  /\ picks'[r][m] = picks[r][m] /\ wrangles'[r][m] = wrangles[r][m]
                  /\ step'[r][m] = step[r][m]
        <4>1. /\ picks'[s][k] = <<>>
              /\ \A r \in Stars, m \in Kinds : r # s \/ m # k => picks'[r][m] = picks[r][m]
          BY <2>1, <3>2 DEF TypeOK
        <4> QED
          BY <2>1, <3>1, <4>1, ListIs
      <3> SUFFICES ASSUME NEW r \in Stars, NEW m \in Kinds, NEW i \in 1..Len(picks'[r][m])
                   PROVE  Turn(r, m, i)'
        BY DEF Turned
      <3>4. r # s \/ m # k
        <4>1. Len(<<>>) = 0
          OBVIOUS
        <4> QED
          BY <3>3, <4>1
      <3> QED
        BY <3>2, <3>3, <3>4 DEF Turned, Turn, Pick
    <2> QED
      BY <2>2, <2>3
  <1>4. ASSUME NEW t \in Tasks,
               \/ Locate(t) \/ Create(t) \/ AskParent(t) \/ AskAgain(t) \/ Answered(t) \/ TimesOut(t)
        PROVE  Turned'
    BY <1>1, <1>4 DEF Locate, Create, AskParent, AskAgain, Answered, TimesOut, selectors
  <1>5. ASSUME NEW t \in Tasks, NEW p \in Points,
               \/ Provision(t, p) \/ Assigned(t, p) \/ AssignSlow(t, p) \/ Assign(t, p)
               \/ DriverAssigns(t, p) \/ DriverFails(t, p) \/ AssignStar(t, p)
        PROVE  Turned'
    BY <1>1, <1>5 DEF Provision, Assigned, AssignSlow, Assign, DriverAssigns, DriverFails, AssignStar,
                      selectors
  <1>6. CASE Lose \/ UNCHANGED vars
    BY <1>1, <1>6 DEF Lose, vars, selectors
  <1> QED
    BY <1>2, <1>3, <1>4, <1>5, <1>6 DEF Next, Work

\* A selector's nearest stars have the same turns and the others none, for any discoveries at
\* any hops, whatever tasks come and go and whatever is found between.
THEOREM TurnsAreFair == Spec => []FairTurns
  BY Invariant, TurnedFair, InitTurned, NextTurned, PTL DEF Spec
=============================================================================
