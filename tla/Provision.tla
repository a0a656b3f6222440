----------------------------- MODULE Provision -----------------------------
(***************************************************************************)
(* How a particle gets its star.  A task of a star that has a wave for the *)
(* particle locates it: the registry knows its star, or it is provisioned, *)
(* its parents first.  To provision is to ask the parent's star, which     *)
(* takes turns among the stars it has wrangled for the particle's kind, or *)
(* takes the particle itself, and has it assigned there: a shell, the      *)
(* driver's own assignment, and only then the registry.  A task that       *)
(* creates a particle registers it and provisions it.                      *)
(*                                                                         *)
(* Every task works on its own, and nothing but the registry and the       *)
(* selectors' locks is between them: two tasks may provision one particle  *)
(* at the same time.  Each ping has a timer of 15 seconds, so that its     *)
(* sender gets a 408 for an answer while the rest goes on without it.      *)
(*                                                                         *)
(* The registry is the one in memory, with which the tests build a star:   *)
(* it overwrites the record of a particle that is created again.           *)
(* Starlane's main takes the one of Postgres, which is not modelled.       *)
(*                                                                         *)
(* A selector turns among the stars with the fewest hops.  The hops are    *)
(* those of the ripple that a star was found with; nothing counts them up  *)
(* (from_hyperway counts the transport's), so today all are 0.  The model  *)
(* has the selector as it is written, for any hops.                        *)
(***************************************************************************)
EXTENDS Naturals, Sequences, FiniteSets, SequencesExt

CONSTANTS
    Stars, Points, Kinds,
    Tasks,      \* tasks that locate or create a particle
    None,
    Root,       \* the point without a parent
    Parent,     \* the parents of all others
    Depth,      \* the number of segments of a point
    KindOf,     \* the particles' kinds
    Drives,     \* per star, the kinds it has an external driver for
    Homes,      \* the stars of particles that are provisioned at the start, or None
    Lists,      \* what wrangling may have found: per star and kind, discoveries as sorted
    Finds,      \* per star, what a wrangling round finds that was slow: kinds, discoveries
    Situations, \* what the tasks are after, see SituationType
    MaxLost     \* bound on the messages that are lost

\* The particle of each task, the tasks that create theirs, and what is registered.
SituationType == [goal : [Tasks -> Points \ {Root}], makers : SUBSET Tasks, known : SUBSET Points]

\* A star that was found, at so many hops; and what the order of discoveries says of them.
Discoveries == [star : Stars, hops : Nat]
Sorted(l) == \A i, j \in DOMAIN l : i < j => l[i].hops <= l[j].hops

ASSUME ProvisionAssumption ==
    /\ None \notin Stars
    /\ Root \in Points
    /\ Parent \in [Points \ {Root} -> Points]
    /\ Depth \in [Points -> Nat]
    /\ \A p \in Points \ {Root} : Depth[Parent[p]] < Depth[p]
    /\ KindOf \in [Points -> Kinds]
    /\ Drives \in [Stars -> SUBSET Kinds]
    /\ Homes \in [Points -> Stars \cup {None}]
    /\ Lists \subseteq [Stars -> [Kinds -> Seq(Discoveries)]]
    /\ \A l \in Lists : \A s \in Stars, k \in Kinds : Sorted(l[s][k])
    /\ Finds \in [Stars -> Seq(Kinds \X Discoveries)]
    /\ Situations \subseteq SituationType
    /\ \A g \in Situations : \A p \in Points : Homes[p] # None => p \in g.known
    /\ MaxLost \in Nat

VARIABLES
    goal,       \* per task, its particle
    makers,     \* the tasks that create theirs
    task,       \* per task, where it is, the particles it provisions, and the star it found
    known,      \* registry: the particles that are registered,
    home,       \* ... their stars, or None,
    panic,      \* ... and those whose status is Panic
    provisions, \* per task and particle, the Provision at the star of the parent
    assigns,    \* per task and particle, the Assign that comes of it
    shells,     \* the stars' particle states
    driven,     \* what their drivers have been assigned
    wrangles,   \* per star and kind, what its selector has; nothing when there is no selector
    step,       \* the selectors' step_index: how many of these take turns
    index,      \* the selectors' index
    lock,       \* the provisions that hold a selector's write lock, or None
    adding,     \* per star, what the slow round has still to add
    guard,      \* the stars whose slow round holds a guard of the map while it waits for the lock
    picks,      \* history: per selector, the stars picked since it last changed
    again,      \* history: per task, the particles that were created again after the star
                \* that was assigned one for the task had told the registry so
    lost        \* history: the number of messages that were lost

registry == <<known, home, panic, again>>
hosting == <<shells, driven>>
selectors == <<wrangles, step, index, lock, picks>>
rounds == <<adding, guard>>
vars == <<goal, makers, task, registry, provisions, assigns, hosting, selectors, rounds, lost>>

Ids == Tasks \X Points

\* RoundRobinWrangleSelector::sort counts discoveries until one is farther than the first.
StepIndex(l) == Cardinality({i \in DOMAIN l : \A j \in 1..i : l[j].hops <= l[1].hops})

Init ==
    /\ \E g \in Situations : goal = g.goal /\ makers = g.makers /\ known = g.known
    /\ task = [t \in Tasks |-> [at |-> "start", stack |-> <<>>, found |-> None]]
    /\ home = Homes
    /\ panic = {}
    /\ provisions = [i \in Ids |-> [at |-> "none", star |-> None, key |-> None]]
    /\ assigns = [i \in Ids |-> "none"]
    /\ shells = {i \in Stars \X Points : Homes[i[2]] = i[1]}
    /\ driven = shells
    /\ wrangles \in Lists
    /\ step = [s \in Stars |-> [k \in Kinds |-> StepIndex(wrangles[s][k])]]
    /\ index = [s \in Stars |-> [k \in Kinds |-> 0]]
    /\ lock = [s \in Stars |-> [k \in Kinds |-> None]]
    /\ adding = Finds
    /\ guard = {}
    /\ picks = [s \in Stars |-> [k \in Kinds |-> <<>>]]
    /\ again = {}
    /\ lost = 0

-----------------------------------------------------------------------------
(* SmartLocator and GlobalExecutionChamber::create.                        *)

Top(t) == Last(task[t].stack)
Go(t, at, stack) == task' = [task EXCEPT ![t].at = at, ![t].stack = stack]
Found(t, s) == task' = [task EXCEPT ![t].at = "done", ![t].found = s]

\* locate: the registry knows the star, or the particle is provisioned.
Locate(t) ==
    /\ task[t].at = "start" /\ t \notin makers
    /\ \/ goal[t] \notin known /\ Go(t, "failed", <<>>)
       \/ goal[t] \in known /\ home[goal[t]] # None /\ Found(t, home[goal[t]])
       \/ goal[t] \in known /\ home[goal[t]] = None /\ Go(t, "parent", <<goal[t]>>)
    /\ UNCHANGED <<goal, makers, registry, provisions, assigns, hosting, selectors, rounds, lost>>

\* create: registered, whether it was or not; then provisioned if it has a state or if its
\* kind is_auto_provision.
Create(t) ==
    /\ task[t].at = "start" /\ t \in makers
    /\ known' = known \cup {goal[t]}
    /\ home' = [home EXCEPT ![goal[t]] = None]
    /\ panic' = panic \ {goal[t]}
    /\ again' = again \cup {i \in Ids : i[2] = goal[t] /\ assigns[i] = "ok"}
    /\ \/ Go(t, "parent", <<goal[t]>>)
       \/ Go(t, "done", <<>>)
    /\ UNCHANGED <<goal, makers, provisions, assigns, hosting, selectors, rounds, lost>>

\* The Provision of the innermost particle goes to the star of its parent.
Ask(t, p) ==
    /\ provisions' = [provisions EXCEPT ![<<t, p>>] =
                        [at |-> "sent", star |-> home[Parent[p]], key |-> None]]
    /\ Go(t, "wait", task[t].stack)

\* provision_inner, as far as the ping: a parent without a star is provisioned before.
AskParent(t) ==
    /\ task[t].at = "parent"
    /\ LET p == Top(t)
       IN  \/ /\ p = Root \/ Parent[p] \notin known
              /\ Go(t, "failed", <<>>)
              /\ UNCHANGED provisions
           \/ /\ p # Root /\ Parent[p] \in known
              /\ IF home[Parent[p]] # None THEN Ask(t, p)
                 ELSE Go(t, "parent", Append(task[t].stack, Parent[p])) /\ UNCHANGED provisions
    /\ UNCHANGED <<goal, makers, registry, assigns, hosting, selectors, rounds, lost>>

\* The parent was provisioned: its record is read again, and its star unwrapped.
AskAgain(t) ==
    /\ task[t].at = "again"
    /\ IF home[Parent[Top(t)]] # None THEN Ask(t, Top(t))
       ELSE Go(t, "panicked", task[t].stack) /\ UNCHANGED provisions
    /\ UNCHANGED <<goal, makers, registry, assigns, hosting, selectors, rounds, lost>>

\* The pong: the location, or an error, which is the status of the particle from now on.
Answered(t) ==
    /\ task[t].at = "wait"
    /\ LET reply == provisions[<<t, Top(t)>>]
       IN  \/ /\ reply.at = "ok"
              /\ IF Len(task[t].stack) = 1 THEN Found(t, reply.key)
                 ELSE Go(t, "again", Front(task[t].stack))
              /\ UNCHANGED panic
           \/ /\ reply.at = "error"
              /\ panic' = panic \cup {Top(t)}
              /\ Go(t, "failed", <<>>)
    /\ UNCHANGED <<goal, makers, known, home, again, provisions, assigns, hosting, selectors,
                   rounds, lost>>

\* 15 seconds: the pong is a 408 of its own making.
TimesOut(t) ==
    /\ task[t].at = "wait"
    /\ panic' = panic \cup {Top(t)}
    /\ Go(t, "failed", <<>>)
    /\ UNCHANGED <<goal, makers, known, home, again, provisions, assigns, hosting, selectors,
                   rounds, lost>>

-----------------------------------------------------------------------------
(* The star of the parent: its handler of Provision, and StarWrangles.     *)

\* find visits the map's kinds until one matches.  It blocks at a kind that is guarded.
Blocked(s, k) == s \in guard /\ (wrangles[s][k] = <<>> \/ Head(adding[s])[1] = k)

\* Without a selector the star assigns the particle to itself, if it can.
Provision(t, p) ==
    LET id == <<t, p>>
        s == provisions[id].star
        k == KindOf[p]
    IN  /\ provisions[id].at = "sent"
        /\ ~Blocked(s, k)
        /\ \/ /\ wrangles[s][k] # <<>>
              /\ provisions' = [provisions EXCEPT ![id].at = "turn"]
              /\ UNCHANGED assigns
           \/ /\ wrangles[s][k] = <<>> /\ k \in Drives[s]
              /\ provisions' = [provisions EXCEPT ![id].at = "itself", ![id].key = s]
              /\ assigns' = [assigns EXCEPT ![id] = "sent"]
           \/ /\ wrangles[s][k] = <<>> /\ k \notin Drives[s]
              /\ provisions' = [provisions EXCEPT ![id].at = "error"]
              /\ UNCHANGED assigns
        /\ UNCHANGED <<goal, makers, task, registry, hosting, selectors, rounds, lost>>

\* The star at an index of a selector.
Pick(s, k, i) == wrangles[s][k][(i % step[s][k]) + 1].star

\* The selector's next star is asked to assign the particle, under the selector's lock.
Wrangle(t, p) ==
    LET id == <<t, p>>
        s == provisions[id].star
        k == KindOf[p]
        key == Pick(s, k, index[s][k] + 1)
    IN  /\ provisions[id].at = "turn"
        /\ lock[s][k] = None
        /\ lock' = [lock EXCEPT ![s][k] = id]
        /\ index' = [index EXCEPT ![s][k] = @ + 1]
        /\ picks' = [picks EXCEPT ![s][k] = Append(@, key)]
        /\ provisions' = [provisions EXCEPT ![id].at = "assigns", ![id].key = key]
        /\ assigns' = [assigns EXCEPT ![id] = "sent"]
        /\ UNCHANGED <<goal, makers, task, registry, hosting, wrangles, step, rounds, lost>>

\* The handler is over; if it has the selector's lock that is free again.
Reply(id, at) ==
    /\ provisions' = [provisions EXCEPT ![id].at = at]
    /\ lock' = [s \in Stars |-> [k \in Kinds |-> IF lock[s][k] = id THEN None ELSE lock[s][k]]]

Assigned(t, p) ==
    LET id == <<t, p>>
    IN  /\ provisions[id].at \in {"assigns", "itself"}
        /\ assigns[id] \in {"ok", "error"}
        /\ Reply(id, assigns[id])
        /\ UNCHANGED <<goal, makers, task, registry, assigns, hosting, wrangles, step,
                       index, picks, rounds, lost>>

MutAssignSlow(t, p) ==
    LET id == <<t, p>>
    IN  /\ provisions[id].at = "assigns"
        /\ provisions' = [provisions EXCEPT ![id].at = "error"]
        /\ UNCHANGED <<goal, makers, task, registry, assigns, hosting, selectors, rounds, lost>>

\* 15 seconds without a pong from the star that was asked.
AssignSlow(t, p) ==
    LET id == <<t, p>>
    IN  /\ provisions[id].at = "assigns"
        /\ Reply(id, "error")
        /\ UNCHANGED <<goal, makers, task, registry, assigns, hosting, wrangles, step,
                       index, picks, rounds, lost>>

\* The selector's list with one more discovery, sorted; equals come in the order of their
\* names.  sort computes the step_index anew.
MutPush(s, k, d) ==
    /\ \E i \in 1..Len(wrangles[s][k]) + 1 :
          /\ Sorted(InsertAt(wrangles[s][k], i, d))
          /\ wrangles' = [wrangles EXCEPT ![s][k] = InsertAt(@, i, d)]
    /\ step' = IF wrangles[s][k] = <<>> THEN [step EXCEPT ![s][k] = 1] ELSE step

Push(s, k, d) ==
    \E i \in 1..Len(wrangles[s][k]) + 1 :
       LET l == InsertAt(wrangles[s][k], i, d)
       IN  /\ Sorted(l)
           /\ wrangles' = [wrangles EXCEPT ![s][k] = l]
           /\ step' = [step EXCEPT ![s][k] = StepIndex(l)]

\* StarWrangles::add, for each discovery and kind: a selector of its own, or one more in the
\* one there is, for which the round waits with a guard of the map in its hand.
Add(s) ==
    LET k == Head(adding[s])[1]
        d == Head(adding[s])[2]
    IN  /\ adding[s] # <<>>
        /\ IF lock[s][k] = None
           THEN /\ Push(s, k, d)
                /\ picks' = [picks EXCEPT ![s][k] = <<>>]
                /\ adding' = [adding EXCEPT ![s] = Tail(@)]
                /\ guard' = guard \ {s}
           ELSE /\ s \notin guard
                /\ guard' = guard \cup {s}
                /\ UNCHANGED <<wrangles, step, picks, adding>>
        /\ UNCHANGED <<goal, makers, task, registry, provisions, assigns, hosting, index, lock, lost>>

-----------------------------------------------------------------------------
(* The star that was picked: its handler of Assign.                        *)

Assign(t, p) ==
    LET id == <<t, p>>
        s == provisions[id].key
    IN  /\ assigns[id] = "sent"
        /\ IF KindOf[p] \in Drives[s]
           THEN /\ shells' = shells \cup {<<s, p>>}
                /\ assigns' = [assigns EXCEPT ![id] = "driver"]
           ELSE /\ assigns' = [assigns EXCEPT ![id] = "error"]
                /\ UNCHANGED shells
        /\ UNCHANGED <<goal, makers, task, registry, provisions, driven, selectors, rounds, lost>>

DriverAssigns(t, p) ==
    /\ assigns[<<t, p>>] = "driver"
    /\ driven' = driven \cup {<<provisions[<<t, p>>].key, p>>}
    /\ assigns' = [assigns EXCEPT ![<<t, p>>] = "driven"]
    /\ UNCHANGED <<goal, makers, task, registry, provisions, shells, selectors, rounds, lost>>

MutDriverFails(t, p) ==
    /\ assigns[<<t, p>>] = "driver"
    /\ driven' \in {driven, driven \cup {<<provisions[<<t, p>>].key, p>>}}
    /\ assigns' = [assigns EXCEPT ![<<t, p>>] = "driven"]
    /\ UNCHANGED <<goal, makers, task, registry, provisions, shells, selectors, rounds, lost>>

\* An error, or 15 seconds without an answer, whether the driver has done it or not.
DriverFails(t, p) ==
    /\ assigns[<<t, p>>] = "driver"
    /\ driven' \in {driven, driven \cup {<<provisions[<<t, p>>].key, p>>}}
    /\ assigns' = [assigns EXCEPT ![<<t, p>>] = "error"]
    /\ UNCHANGED <<goal, makers, task, registry, provisions, shells, selectors, rounds, lost>>

MutAssignStar(t, p) ==
    /\ assigns[<<t, p>>] = "driven"
    /\ assigns' = [assigns EXCEPT ![<<t, p>>] = "ok"]
    /\ UNCHANGED <<goal, makers, task, registry, provisions, hosting, selectors, rounds, lost>>

\* The registry learns of it, whatever it thought before, and the star answers.
AssignStar(t, p) ==
    /\ assigns[<<t, p>>] = "driven"
    /\ home' = [home EXCEPT ![p] = provisions[<<t, p>>].key]
    /\ assigns' = [assigns EXCEPT ![<<t, p>>] = "ok"]
    /\ UNCHANGED <<goal, makers, task, known, panic, again, provisions, hosting, selectors,
                   rounds, lost>>

-----------------------------------------------------------------------------
\* A Provision or an Assign does not arrive; the star that assigns to itself sends none.
Lose ==
    /\ lost < MaxLost
    /\ lost' = lost + 1
    /\ \E id \in Ids :
          \/ /\ provisions[id].at = "sent"
             /\ provisions' = [provisions EXCEPT ![id].at = "lost"]
             /\ UNCHANGED assigns
          \/ /\ provisions[id].at = "assigns" /\ assigns[id] = "sent"
             /\ assigns' = [assigns EXCEPT ![id] = "lost"]
             /\ UNCHANGED provisions
    /\ UNCHANGED <<goal, makers, task, registry, hosting, selectors, rounds>>

Work ==
    \/ \E t \in Tasks : \/ Locate(t) \/ Create(t) \/ AskParent(t) \/ AskAgain(t)
                        \/ Answered(t) \/ TimesOut(t)
    \/ \E t \in Tasks, p \in Points :
          \/ Provision(t, p) \/ Wrangle(t, p) \/ Assigned(t, p) \/ AssignSlow(t, p)
          \/ Assign(t, p) \/ DriverAssigns(t, p) \/ DriverFails(t, p) \/ AssignStar(t, p)
    \/ \E s \in Stars : Add(s)

Next == Work \/ Lose

Spec == Init /\ [][Next]_vars

\* Behaviours are finite, so that one condition says that tasks run and timers fire.
FairSpec == Spec /\ WF_vars(Work)

-----------------------------------------------------------------------------
TypeOK ==
    /\ goal \in [Tasks -> Points]
    /\ makers \subseteq Tasks
    /\ task \in [Tasks -> [at : {"start", "parent", "again", "wait", "done", "failed", "panicked"},
                           stack : Seq(Points), found : Stars \cup {None}]]
    /\ known \subseteq Points /\ panic \subseteq Points /\ again \subseteq Ids
    /\ home \in [Points -> Stars \cup {None}]
    /\ provisions \in [Ids -> [at : {"none", "sent", "lost", "turn", "itself", "assigns", "ok", "error"},
                               star : Stars \cup {None}, key : Stars \cup {None}]]
    /\ assigns \in [Ids -> {"none", "sent", "lost", "driver", "driven", "ok", "error"}]
    /\ shells \subseteq Stars \X Points /\ driven \subseteq Stars \X Points
    /\ wrangles \in [Stars -> [Kinds -> Seq(Discoveries)]]
    /\ step \in [Stars -> [Kinds -> Nat]]
    /\ index \in [Stars -> [Kinds -> Nat]]
    /\ lock \in [Stars -> [Kinds -> Ids \cup {None}]]
    /\ adding \in [Stars -> Seq(Kinds \X Discoveries)]
    /\ guard \subseteq Stars
    /\ picks \in [Stars -> [Kinds -> Seq(Stars)]]
    /\ lost \in 0..MaxLost

\* Where the registry sends waves, and where a task was told to send them, there are a shell
\* and a driver for the particle: whatever failed, came late or was done twice.
Hosts(s, p) == <<s, p>> \in shells \cap driven
HomesServe ==
    /\ \A p \in Points : home[p] # None => Hosts(home[p], p)
    /\ \A t \in Tasks : task[t].found # None => Hosts(task[t].found, goal[t])

\* A task that had a parent provisioned unwraps the star in its record, and there is none in
\* one case only: somebody has created the parent again since the star that it was assigned
\* to wrote itself into the record, for this very task.  Nothing else takes the star out
\* again, whatever is lost, late, failing or done twice; a parent that is created again
\* before that does no harm.
UnwrapsParent ==
    \A t \in Tasks : task[t].at = "panicked" => <<t, Parent[Top(t)]>> \in again

\* Since a selector last changed, each of its nearest stars has had the same turns, and no
\* other star any, among picks that follow each other and are as many as the nearest,
\* though tasks come and go at will and stars that are nearer or farther are found between.
Nearest(l) == {i \in DOMAIN l : \A j \in DOMAIN l : l[i].hops <= l[j].hops}
Times(x, l) == Cardinality({i \in DOMAIN l : l[i] = x})
Share(x, l) == Cardinality({i \in Nearest(l) : l[i].star = x})
FairTurns ==
    \A s \in Stars, k \in Kinds :
       LET n == Cardinality(Nearest(wrangles[s][k]))
       IN  \A i \in 1..Len(picks[s][k]) - n + 1 : \A x \in Stars :
              Times(x, SubSeq(picks[s][k], i, i + n - 1)) = Share(x, wrangles[s][k])

\* Every task comes to an end, and no selector stays locked, nor the map guarded.
AllEnds ==
    <>[](/\ \A t \in Tasks : task[t].at \in {"done", "failed", "panicked"}
         /\ \A s \in Stars, k \in Kinds : lock[s][k] = None
         /\ guard = {} /\ \A s \in Stars : adding[s] = <<>>)
=============================================================================
