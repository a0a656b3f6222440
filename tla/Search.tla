------------------------------- MODULE Search -------------------------------
(***************************************************************************)
(* How a star finds the stars that may host particles ("wrangling").  The  *)
(* star sends a ripple to its adjacent stars; each answers for itself, and *)
(* one that forwards asks on among its own adjacents first, but for those  *)
(* in the ripple's history.  Every asker counts on an echo from each star  *)
(* it asked.  When its timer is faster it has nothing, not even the echoes *)
(* that came.                                                              *)
(*                                                                         *)
(* An asking is named by its round and its path, the stars from the        *)
(* wrangling one to the one that asks; the history of its ripple is that   *)
(* path.  start_wrangling gets 5 seconds for a round from its star's api   *)
(* (its own 60 never pass) and begins another one if that was not enough,  *)
(* while the old one goes on.  All askers set their timers to the same 300 *)
(* seconds, and nobody asks before it is asked: no timer of a round fires  *)
(* before that of the wrangling star is due.                               *)
(*                                                                         *)
(* What the exchanger does about replies is in module Exchanger, what the  *)
(* hyperways do in Interchange: here a shard and an echo arrive in any     *)
(* order, or are lost.                                                     *)
(***************************************************************************)
EXTENDS Naturals, Sequences, FiniteSets, Functions, SequencesExt

CONSTANTS
    Stars,      \* the points of all stars
    Webs,       \* the webs of stars that may be, see WebType
    MaxRounds,  \* bound on the rounds
    MaxFaults   \* bound on the faults, see Fault

\* `root` is the star that wrangles; `forwarders` and `hosts` are the stars whose kind
\* is_forwarder and can_be_wrangled.
WebType ==
    [root : Stars, adjacents : [Stars -> SUBSET Stars],
     forwarders : SUBSET Stars, hosts : SUBSET Stars]

ASSUME SearchAssumption ==
    /\ IsFiniteSet(Stars)
    /\ Webs \subseteq WebType
    /\ MaxRounds \in Nat \ {0}
    /\ MaxFaults \in Nat

VARIABLES
    web,        \* the web
    loop,       \* the task of start_wrangling: "start", "wait" or "wrangled"
    round,      \* the number of its last round
    shards,     \* the askings on their way to their star
    asking,     \* per asking that waits for echoes: how many, and what they said so far
    echoes,     \* the echoes under way: the asking they answer, and what they say
    late,       \* the rounds whose wrangling star's timer is due
    result,     \* per round that has ended, the discoveries
    faults      \* history: what went wrong, see Fault

vars == <<web, loop, round, shards, asking, echoes, late, result, faults>>

Rounds == 1..MaxRounds
Asking(r, path) == [round |-> r, path |-> path]
Whole(r) == Asking(r, <<web.root>>)
Parent(a) == Asking(a.round, Front(a.path))
Star(a) == Last(a.path)

\* Discoveries are counted, star by star: a star is found once for every way to it.
Nothing == [s \in Stars |-> 0]
Join(d, e) == [s \in Stars |-> d[s] + e[s]]

\* A star that can be wrangled adds itself to what it was told.
WithOwn(d, s) == IF s \in web.hosts THEN [d EXCEPT ![s] = @ + 1] ELSE d

\* Whom the star of an asking asks in its turn.
MutToAsk(a) == web.adjacents[Star(a)] \ {Star(a), web.root}
ToAsk(a) == web.adjacents[Star(a)] \ Range(a.path)

Init ==
    /\ web \in Webs
    /\ loop = "start"
    /\ round = 0
    /\ shards = {}
    /\ asking = <<>>
    /\ echoes = {}
    /\ late = {}
    /\ result = <<>>
    /\ faults = {}

\* In a round messages are "lost", a star has "failed" to say what it hosts, or it all was
\* too "slow".
Fault(what, r) ==
    /\ faults' = faults \cup {<<what, r>>}
    /\ Cardinality(faults') <= MaxFaults

-----------------------------------------------------------------------------
(* Wrangler::wrangle, and the sharding of its ripple over the adjacents.   *)

\* shard: each star that is not in the ripple's history gets a ripple of its own.
Shards(a) == {Asking(a.round, Append(a.path, s)) : s \in ToAsk(a)}

\* One shard for each star to ask, and one echo to wait for from each.
MutAsk(a, rest) ==
    /\ asking' = [b \in DOMAIN asking \cup {a} |->
                    IF b = a THEN [left |-> Cardinality(web.adjacents[Star(a)]), found |-> Nothing]
                             ELSE asking[b]]
    /\ shards' = rest \cup Shards(a)

Ask(a, rest) ==
    /\ asking' = [b \in DOMAIN asking \cup {a} |->
                    IF b = a THEN [left |-> Cardinality(ToAsk(a)), found |-> Nothing]
                             ELSE asking[b]]
    /\ shards' = rest \cup Shards(a)

\* The asking is over with discoveries d: the wrangling star has the result of its round,
\* any other star reflects what it was told and itself.
Finish(a, d, rest) ==
    IF a = Whole(a.round)
    THEN /\ result' = [r \in DOMAIN result \cup {a.round} |-> IF r = a.round THEN d ELSE result[r]]
         /\ echoes' = rest
    ELSE /\ echoes' = rest \cup {[of |-> a, found |-> WithOwn(d, Star(a))]}
         /\ UNCHANGED result

\* start_wrangling: with nobody to ask the round is over at once.
StartRound ==
    /\ loop = "start"
    /\ round < MaxRounds
    /\ round' = round + 1
    /\ loop' = "wait"
    /\ IF ToAsk(Whole(round')) = {}
       THEN Finish(Whole(round'), Nothing, echoes) /\ UNCHANGED <<asking, shards>>
       ELSE Ask(Whole(round'), shards) /\ UNCHANGED <<result, echoes>>
    /\ UNCHANGED <<web, late, faults>>

\* A forwarder that has somebody to ask sends a ripple of its own.
Forward(a) ==
    /\ a \in shards
    /\ Star(a) \in web.forwarders /\ ToAsk(a) # {}
    /\ Ask(a, shards \ {a})
    /\ UNCHANGED <<web, loop, round, echoes, late, result, faults>>

\* Any other star answers for itself.
Answer(a) ==
    /\ a \in shards
    /\ Star(a) \notin web.forwarders \/ ToAsk(a) = {}
    /\ shards' = shards \ {a}
    /\ Finish(a, Nothing, echoes)
    /\ UNCHANGED <<web, loop, round, asking, late, faults>>

\* external_kinds fails: the echo is an error, which counts and is logged.
AnswerFails(a) ==
    /\ a \in shards
    /\ Star(a) \in web.hosts
    /\ Star(a) \notin web.forwarders \/ ToAsk(a) = {}
    /\ Fault("failed", a.round)
    /\ shards' = shards \ {a}
    /\ echoes' = echoes \cup {[of |-> a, found |-> Nothing]}
    /\ UNCHANGED <<web, loop, round, asking, late, result>>

\* An echo is counted; the last one ends the waiting.  A forwarder whose own kinds fail
\* drops what it was told.
Collect(e) ==
    LET a == Parent(e.of)
        d == Join(asking[a].found, e.found)
    IN  /\ e \in echoes
        /\ a \in DOMAIN asking
        /\ IF asking[a].left > 1
           THEN /\ asking' = [asking EXCEPT ![a] = [left |-> @.left - 1, found |-> d]]
                /\ echoes' = echoes \ {e}
                /\ UNCHANGED <<result, faults>>
           ELSE /\ asking' = [b \in DOMAIN asking \ {a} |-> asking[b]]
                /\ \/ Finish(a, d, echoes \ {e}) /\ UNCHANGED faults
                   \/ /\ Star(a) \in web.hosts /\ a # Whole(a.round)
                      /\ Fault("failed", a.round)
                      /\ echoes' = (echoes \ {e}) \cup {[of |-> a, found |-> Nothing]}
                      /\ UNCHANGED result
        /\ UNCHANGED <<web, loop, round, shards, late>>

\* Nobody waits for the echo any more: the exchanger refuses it.
Refuse(e) ==
    /\ e \in echoes
    /\ Parent(e.of) \notin DOMAIN asking
    /\ echoes' = echoes \ {e}
    /\ UNCHANGED <<web, loop, round, shards, asking, late, result, faults>>

-----------------------------------------------------------------------------
(* Losses, timers and the loop of start_wrangling.                         *)

Lose ==
    \/ /\ \E a \in shards : shards' = shards \ {a} /\ Fault("lost", a.round)
       /\ UNCHANGED <<web, loop, round, asking, echoes, late, result>>
    \/ /\ \E e \in echoes : echoes' = echoes \ {e} /\ Fault("lost", e.of.round)
       /\ UNCHANGED <<web, loop, round, shards, asking, late, result>>

MutDeadline(r) ==
    /\ Whole(r) \in DOMAIN asking
    /\ r \notin late
    /\ late' = late \cup {r}
    /\ UNCHANGED <<web, loop, round, shards, asking, echoes, result, faults>>

\* 300 seconds, long after the loop has given up on the round.
Deadline(r) ==
    /\ Whole(r) \in DOMAIN asking
    /\ loop = "wait" => r # round
    /\ r \notin late
    /\ late' = late \cup {r}
    /\ UNCHANGED <<web, loop, round, shards, asking, echoes, result, faults>>

\* The echoes that came are dropped: a lone 408 takes their place.
Timeout(a) ==
    /\ a \in DOMAIN asking
    /\ a.round \in late
    /\ asking' = [b \in DOMAIN asking \ {a} |-> asking[b]]
    /\ Finish(a, Nothing, echoes)
    /\ UNCHANGED <<web, loop, round, shards, late, faults>>

Accept ==
    /\ loop = "wait"
    /\ round \in DOMAIN result
    /\ loop' = "wrangled"
    /\ UNCHANGED <<web, round, shards, asking, echoes, late, result, faults>>

\* The 5 seconds of HyperStarApi::wrangle have passed, because something was lost or
\* everything is slow; the round goes on without anybody waiting for it.
GiveUp ==
    /\ loop = "wait"
    /\ round \notin DOMAIN result
    /\ loop' = "start"
    /\ IF <<"lost", round>> \in faults THEN UNCHANGED faults ELSE Fault("slow", round)
    /\ UNCHANGED <<web, round, shards, asking, echoes, late, result>>

Go ==
    \/ StartRound \/ Accept
    \/ GiveUp /\ UNCHANGED faults
    \/ \E a \in shards : Forward(a) \/ Answer(a)
    \/ \E e \in echoes : Collect(e) \/ Refuse(e)
    \/ \E r \in Rounds : Deadline(r)
    \/ \E a \in DOMAIN asking : Timeout(a)

Next == Go \/ GiveUp \/ Lose \/ \E a \in shards : AnswerFails(a)

Spec == Init /\ [][Next]_vars

\* Behaviours are finite, so that one fairness condition says that tasks run, messages
\* that are not lost arrive, and timers fire.
FairSpec == Spec /\ WF_vars(Go)

-----------------------------------------------------------------------------
\* The ways from the wrangling star: no star twice, forwarders all but the ends.
Way(path) ==
    /\ path # <<>> /\ path[1] = web.root
    /\ IsInjective(path)
    /\ \A i \in 1..Len(path) - 1 : path[i + 1] \in web.adjacents[path[i]]
    /\ \A i \in 2..Len(path) - 1 : path[i] \in web.forwarders

Discoveries == [Stars -> Nat]
Askings == [round : Rounds, path : Seq(Stars)]

TypeOK ==
    /\ web \in Webs
    /\ loop \in {"start", "wait", "wrangled"}
    /\ round \in 0..MaxRounds
    /\ loop = "wait" => round \in Rounds
    /\ shards \subseteq Askings
    /\ DOMAIN asking \subseteq Askings
    /\ \A a \in DOMAIN asking : asking[a] \in [left : Nat, found : Discoveries]
    /\ echoes \subseteq [of : Askings, found : Discoveries]
    /\ late \subseteq Rounds
    /\ DOMAIN result \subseteq Rounds
    /\ \A r \in DOMAIN result : result[r] \in Discoveries
    /\ faults \subseteq {"lost", "failed", "slow"} \X Rounds

Ways == {path \in UNION {[1..n -> Stars] : n \in 2..Cardinality(Stars)} : Way(path)}
Complete(d) ==
    \A s \in Stars : d[s] = IF s \in web.hosts THEN Cardinality({p \in Ways : Last(p) = s}) ELSE 0

\* A star that has stopped wrangling knows all there is, whatever was lost and however
\* slowly the stars answered: it has found every star that can be wrangled and that
\* forwarders lead to, once per way, unless a star failed to answer for itself.  (A
\* discovery too many would give that star more than its turns.)
WrangledMeansAll ==
    loop = "wrangled" /\ <<"failed", round>> \notin faults => Complete(result[round])

\* No asking goes in a circle, and none is sent to where no way leads; what was found, in
\* part or late or after losses, can be wrangled and is not the star itself.
NoCircles ==
    /\ \A a \in shards \cup DOMAIN asking \cup {e.of : e \in echoes} : Way(a.path)
    /\ \A r \in DOMAIN result : \A s \in Stars :
          result[r][s] > 0 => s \in web.hosts \ {web.root}

\* If things go wrong only finitely often the star stops wrangling at last.
WranglesAtLast == <>(loop = "wrangled")
=============================================================================
