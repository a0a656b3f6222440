---------------------------- MODULE HyperClient ----------------------------
(***************************************************************************)
(* The client end of a hyperway.  A HyperClient is three tasks: the runner *)
(* connects, relays waves between the client's users and the endpoint of   *)
(* the current connection, and connects again when that fails; the         *)
(* client's relay expects a greeting as the very first wave and then hands *)
(* what arrives to the users (or, with an exchanger, replies to it); the   *)
(* status task copies statuses from a channel to a watch and stops at the  *)
(* first Fatal or Closed.                                                  *)
(*                                                                         *)
(* Connections are numbered in the order in which the factory makes them.  *)
(* The users' waves are the numbers 1..Outgoing, in the order they are     *)
(* routed; the peer's waves carry their connection and their number on it, *)
(* the first one, number 0, being the greeting or what comes instead.  The *)
(* channel of the users' waves holds 1024 in the code and is not bounded    *)
(* here: Outgoing bounds it.                                               *)
(*                                                                         *)
(* The names are other than those of Hyperlane, so that one module can     *)
(* speak of both ends of a hyperway.                                       *)
(***************************************************************************)
EXTENDS Naturals, Sequences, Functions

CONSTANTS
    Outgoing,   \* at most how many waves the users send
    Incoming,   \* at most how many waves the peer sends on one connection
    MaxLinks,   \* bound on the connections that are told apart
    StatusRoom, \* how many statuses fit into their channel, 128 in the code
    ClientRoom, \* how many waves fit between runner and relay, 1024 in the code
    Situations  \* the situations a client may be in, see below

\* "greet" accepts the client, "refuse" stands for 400, 401, 403 and 301, "later" for
\* 408, 503 and the rest, and "other" is a wave that is no reflected greeting.
FirstKinds == {"greet", "refuse", "later", "other"}

\* What users and peer may do, and how the client was made.  With `endless` more than
\* MaxLinks connections may be made, all of them counted as the last one.
SituationType ==
    [sends : 0..Outgoing, receives : 0..Incoming, firsts : SUBSET FirstKinds,
     exchanging : BOOLEAN, endless : BOOLEAN, may : SUBSET {"close", "reset", "leave"}]

ASSUME ClientAssumption ==
    /\ Outgoing \in Nat /\ Incoming \in Nat
    /\ {MaxLinks, StatusRoom, ClientRoom} \subseteq Nat \ {0}
    /\ Situations \subseteq SituationType

VARIABLES
    given,      \* the situation, which stays as it is
    at,         \* the runner: "pending", "connect", "create", "ready", "relay", "closing", "fatal", "ended"
    endpoint,   \* the connection whose endpoint the runner holds, 0 for none
    made,       \* how many connections were made
    down,       \* the connections whose peer end is gone
    toPeer,     \* per connection, the waves put into its endpoint
    fromPeer,   \* per connection, what the peer sent and the runner has not taken
    peerSent,   \* per connection, how many waves the peer has sent
    statusQ,    \* statuses on their way to the watch
    statusOpen, \* whether the status task still runs
    status,     \* the watch
    out,        \* what the users sent and the runner has not taken
    sent,       \* how many waves the users have sent
    asked,      \* which of CloseWave and ResetWave the users have sent
    gone,       \* whether all users have dropped the client
    toClient,   \* waves on their way from the runner to the client's relay
    hear,       \* the client's relay: "greet" (waits for the greeting), "run" or "ended"
    greeted,    \* whether the greeting was received
    heard,      \* history: what users and exchanger were handed
    listening,  \* whether a user has subscribed
    lost        \* history: waves whose send failed, or that the runner dropped at its end

linkVars   == <<endpoint, made, down, toPeer, fromPeer, peerSent>>
statusVars == <<statusQ, statusOpen, status>>
userVars   == <<out, sent, asked, gone>>
hearVars   == <<toClient, hear, greeted, heard, listening>>
clientVars == <<given, at, linkVars, statusVars, userVars, hearVars, lost>>

Links == 1..MaxLinks
UserWaves == 1..Outgoing            \* the users' waves, and the two for the runner itself:
CloseWave == Outgoing + 1
ResetWave == Outgoing + 2
First(l, what) == [link |-> l, n |-> 0, kind |-> what]
Peer(l, i) == [link |-> l, n |-> i, kind |-> "wave"]

ClientInit ==
    /\ given \in Situations
    /\ at = "pending"
    /\ endpoint = 0
    /\ made = 0
    /\ down = {}
    /\ toPeer = [l \in Links |-> <<>>]
    /\ fromPeer = [l \in Links |-> <<>>]
    /\ peerSent = [l \in Links |-> 0]
    /\ statusQ = <<>>
    /\ statusOpen = TRUE
    /\ status = "Pending"
    /\ out = <<>>
    /\ sent = 0
    /\ asked = {}
    /\ gone = FALSE
    /\ toClient = <<>>
    /\ hear = "greet"
    /\ greeted = FALSE
    /\ heard = <<>>
    /\ listening = FALSE
    /\ lost = {}

-----------------------------------------------------------------------------
(* The status channel.                                                     *)

\* Without a receiver the send fails at once, with a full channel it waits.
Tell(s) ==
    /\ statusOpen => Len(statusQ) < StatusRoom
    /\ statusQ' = IF statusOpen THEN Append(statusQ, s) ELSE statusQ

RelayStatus ==
    /\ statusOpen
    /\ statusQ # <<>>
    /\ status' = Head(statusQ)
    /\ IF Head(statusQ) \in {"Fatal", "Closed"}
       THEN statusOpen' = FALSE /\ statusQ' = <<>>
       ELSE statusQ' = Tail(statusQ) /\ UNCHANGED statusOpen
    /\ UNCHANGED <<given, at, linkVars, userVars, hearVars, lost>>

-----------------------------------------------------------------------------
(* The runner.                                                             *)

Begin ==
    /\ at = "pending"
    /\ Tell("Pending")
    /\ at' = "connect"
    /\ UNCHANGED <<given, linkVars, statusOpen, status, userVars, hearVars, lost>>

\* connect: without a status task to tell, the client is beyond help.
Connecting ==
    /\ at = "connect"
    /\ Tell("Connecting")
    /\ at' = IF statusOpen THEN "create" ELSE "fatal"
    /\ UNCHANGED <<given, linkVars, statusOpen, status, userVars, hearVars, lost>>

\* The factory is tried every second until it succeeds.  A new endpoint replaces the
\* old one, if that is still held, and the peer starts with its greeting.
Create ==
    /\ at = "create"
    /\ made < MaxLinks \/ given.endless
    /\ made' = IF made < MaxLinks THEN made + 1 ELSE made
    /\ endpoint' = made'
    /\ down' = (down \cup (1..made)) \ {made'}
    /\ \E first \in given.firsts : fromPeer' = [l \in Links |-> IF l = made' THEN <<First(l, first)>> ELSE <<>>]
    /\ peerSent' = [peerSent EXCEPT ![made'] = 0]
    /\ at' = "ready"
    /\ UNCHANGED <<given, toPeer, statusVars, userVars, hearVars, lost>>

\* Drop the endpoint: the peer's end is of no use any more.
LetGo ==
    /\ down' = down \cup {endpoint}
    /\ fromPeer' = [fromPeer EXCEPT ![endpoint] = <<>>]
    /\ endpoint' = 0

Ready ==
    /\ at = "ready"
    /\ Tell("Ready")
    /\ IF statusOpen
       THEN at' = "relay" /\ UNCHANGED <<endpoint, down, fromPeer>>
       ELSE at' = "fatal" /\ LetGo
    /\ UNCHANGED <<given, made, toPeer, peerSent, statusOpen, status, userVars, hearVars, lost>>

\* The runner ends and drops what it holds, the users' waves that wait included.
EndFatal ==
    /\ at = "fatal"
    /\ Tell("Fatal")
    /\ at' = "ended"
    /\ IF endpoint = 0 THEN UNCHANGED <<endpoint, down, fromPeer>> ELSE LetGo
    /\ out' = <<>>
    /\ lost' = lost \cup (UserWaves \cap Range(out))
    /\ UNCHANGED <<given, made, toPeer, peerSent, statusOpen, status, sent, asked, gone, hearVars>>

Reset ==
    /\ at = "relay"
    /\ out # <<>> /\ Head(out) = ResetWave
    /\ out' = Tail(out)
    /\ LetGo
    /\ at' = "connect"
    /\ UNCHANGED <<given, made, toPeer, peerSent, statusVars, sent, asked, gone, hearVars, lost>>

\* Close ends the relaying.  The loop round it connects again: only if the status
\* task has stopped by then does the runner end.
Close ==
    /\ at = "relay"
    /\ out # <<>> /\ Head(out) = CloseWave
    /\ out' = Tail(out)
    /\ at' = "closing"
    /\ UNCHANGED <<given, linkVars, statusVars, sent, asked, gone, hearVars, lost>>

TellClosed ==
    /\ at = "closing"
    /\ Tell("Closed")
    /\ at' = "connect"
    /\ UNCHANGED <<given, linkVars, statusOpen, status, userVars, hearVars, lost>>

\* A wave of a user goes into the endpoint; if its peer is gone the wave is lost.
MutRequeue ==
    /\ at = "relay"
    /\ out # <<>> /\ Head(out) \in UserWaves
    /\ IF endpoint \in down
       THEN /\ out' = Append(Tail(out), Head(out))
            /\ LetGo
            /\ at' = "connect"
            /\ UNCHANGED toPeer
       ELSE /\ out' = Tail(out)
            /\ toPeer' = [toPeer EXCEPT ![endpoint] = Append(@, Head(out))]
            /\ UNCHANGED <<endpoint, down, fromPeer, at>>
    /\ UNCHANGED <<given, made, peerSent, statusVars, sent, asked, gone, hearVars, lost>>

ToPeer ==
    /\ at = "relay"
    /\ out # <<>> /\ Head(out) \in UserWaves
    /\ out' = Tail(out)
    /\ IF endpoint \in down
       THEN /\ lost' = lost \cup {Head(out)}
            /\ LetGo
            /\ at' = "connect"
            /\ UNCHANGED toPeer
       ELSE /\ toPeer' = [toPeer EXCEPT ![endpoint] = Append(@, Head(out))]
            /\ UNCHANGED <<endpoint, down, fromPeer, at, lost>>
    /\ UNCHANGED <<given, made, peerSent, statusVars, sent, asked, gone, hearVars>>

\* The users are gone: the relaying comes to its natural end.
NoMoreUsers ==
    /\ at = "relay"
    /\ out = <<>> /\ gone
    /\ at' = "connect"
    /\ UNCHANGED <<given, linkVars, statusVars, userVars, hearVars, lost>>

FromPeer ==
    /\ at = "relay"
    /\ fromPeer[endpoint] # <<>>
    /\ hear # "ended" => Len(toClient) < ClientRoom
    /\ fromPeer' = [fromPeer EXCEPT ![endpoint] = Tail(@)]
    /\ toClient' = IF hear = "ended" THEN toClient ELSE Append(toClient, Head(fromPeer[endpoint]))
    /\ UNCHANGED <<given, at, endpoint, made, down, toPeer, peerSent, statusVars, userVars,
                   hear, greeted, heard, listening, lost>>

MutNoMorePeer ==
    /\ at = "relay"
    /\ fromPeer[endpoint] = <<>> /\ endpoint \in down
    /\ UNCHANGED clientVars

\* The endpoint's receiver is closed and empty: also a natural end.
NoMorePeer ==
    /\ at = "relay"
    /\ fromPeer[endpoint] = <<>> /\ endpoint \in down
    /\ at' = "connect"
    /\ UNCHANGED <<given, linkVars, statusVars, userVars, hearVars, lost>>

Runner ==
    \/ Begin \/ Connecting \/ Create \/ Ready \/ EndFatal
    \/ Reset \/ Close \/ TellClosed \/ ToPeer \/ NoMoreUsers \/ FromPeer \/ NoMorePeer

-----------------------------------------------------------------------------
(* The client's relay.                                                     *)

\* The first wave: a greeting, a refusal, or something that must not be.
HearFirst ==
    /\ hear = "greet"
    /\ toClient # <<>>
    /\ IF Head(toClient).kind = "greet"
       THEN /\ greeted' = TRUE
            /\ hear' = "run"
            /\ toClient' = Tail(toClient)
            /\ UNCHANGED statusQ
       ELSE /\ Tell(IF Head(toClient).kind = "later" THEN "Panic" ELSE "Fatal")
            /\ hear' = "ended"
            /\ toClient' = <<>>
            /\ UNCHANGED greeted
    /\ UNCHANGED <<given, at, linkVars, statusOpen, status, userVars, heard, listening, lost>>

\* Every later wave is broadcast, which fails when nobody listens; with an exchanger
\* a reflected wave goes there, and a greeting is a reply it never asked for.  Any
\* failure ends the relay.
Accepted(wave) ==
    IF given.exchanging /\ wave.kind \in {"greet", "refuse", "later"} THEN FALSE ELSE listening

Hear ==
    /\ hear = "run"
    /\ toClient # <<>>
    /\ IF Accepted(Head(toClient))
       THEN /\ heard' = Append(heard, Head(toClient))
            /\ toClient' = Tail(toClient)
            /\ UNCHANGED hear
       ELSE /\ hear' = "ended"
            /\ toClient' = <<>>
            /\ UNCHANGED heard
    /\ UNCHANGED <<given, at, linkVars, statusVars, userVars, greeted, listening, lost>>

\* The runner has ended and nothing is left to hear.
HearEnd ==
    /\ hear # "ended"
    /\ at = "ended" /\ toClient = <<>>
    /\ hear' = "ended"
    /\ UNCHANGED <<given, at, linkVars, statusVars, userVars, toClient, greeted, heard, listening, lost>>

-----------------------------------------------------------------------------
(* The users and the peer.                                                 *)

Route ==
    /\ ~gone /\ sent < given.sends /\ at # "ended"
    /\ sent' = sent + 1
    /\ out' = Append(out, sent + 1)
    /\ UNCHANGED <<given, at, linkVars, statusVars, asked, gone, hearVars, lost>>

\* close and reset send a wave of their own to the runner.
Ask(what) ==
    /\ ~gone /\ at # "ended"
    /\ what \notin asked
    /\ asked' = asked \cup {what}
    /\ out' = Append(out, what)
    /\ UNCHANGED <<given, at, linkVars, statusVars, sent, gone, hearVars, lost>>

Leave ==
    /\ "leave" \in given.may
    /\ ~gone
    /\ gone' = TRUE
    /\ UNCHANGED <<given, at, linkVars, statusVars, out, sent, asked, hearVars, lost>>

Subscribe ==
    /\ ~listening /\ ~gone
    /\ listening' = TRUE
    /\ UNCHANGED <<given, at, linkVars, statusVars, userVars, toClient, hear, greeted, heard, lost>>

PeerSends ==
    /\ endpoint # 0 /\ endpoint \notin down
    /\ peerSent[endpoint] < given.receives
    /\ peerSent' = [peerSent EXCEPT ![endpoint] = @ + 1]
    /\ fromPeer' = [fromPeer EXCEPT ![endpoint] = Append(@, Peer(endpoint, peerSent'[endpoint]))]
    /\ UNCHANGED <<given, at, endpoint, made, down, toPeer, statusVars, userVars, hearVars, lost>>

\* The peer's end goes away; what it had sent can still be read.
PeerLeaves ==
    /\ endpoint # 0 /\ endpoint \notin down
    /\ down' = down \cup {endpoint}
    /\ UNCHANGED <<given, at, endpoint, made, toPeer, fromPeer, peerSent, statusVars, userVars, hearVars, lost>>

Others ==
    \/ Route \/ Leave \/ Subscribe \/ PeerSends \/ PeerLeaves
    \/ "close" \in given.may /\ Ask(CloseWave)
    \/ "reset" \in given.may /\ Ask(ResetWave)

ClientNext == Runner \/ RelayStatus \/ HearFirst \/ Hear \/ HearEnd \/ Others

\* tokio runs the three tasks; the select! of the runner chooses at random among its
\* ready branches, so each is taken in the end; the factory succeeds in the end.  Users and peer do what they like.
ClientFairness ==
    /\ WF_clientVars(Begin \/ Connecting \/ Create \/ Ready \/ TellClosed \/ EndFatal)
    /\ SF_clientVars(Reset \/ Close \/ ToPeer \/ NoMoreUsers)
    /\ SF_clientVars(FromPeer \/ NoMorePeer)
    /\ WF_clientVars(RelayStatus)
    /\ WF_clientVars(HearFirst \/ Hear \/ HearEnd)

ClientSpec == ClientInit /\ [][ClientNext]_clientVars
ClientFairSpec == ClientSpec /\ ClientFairness

-----------------------------------------------------------------------------
\* What was put into the endpoints, connection by connection, and last what still waits.
Stages == 1..MaxLinks + 1
Stage(l) == IF l \in Links THEN toPeer[l] ELSE out

\* However often the connection fails, is reset or replaced, the waves of the users
\* go out in the order they were sent, none twice, and across all connections the
\* only ones missing are those whose very send failed and those dropped at the end.
SentInOrderOnce ==
    /\ \A k, l \in Stages : \A i \in DOMAIN Stage(k), j \in DOMAIN Stage(l) :
          /\ k < l \/ (k = l /\ i < j)
          /\ {Stage(k)[i], Stage(l)[j]} \subseteq UserWaves
          => Stage(k)[i] < Stage(l)[j]
    /\ UserWaves \cap UNION {Range(Stage(l)) : l \in Stages} = (1..sent) \ lost

\* What the users are handed is what the peer sent: connection by connection, on each
\* one in order and from its first wave on.  (The very first greeting is not
\* handed on, later ones are.  Connections that are counted as one are not told apart.)
HeardInOrder ==
    ~given.endless =>
       \A i \in DOMAIN heard :
          IF i = 1 THEN heard[i].n \in {0, 1}
          ELSE IF heard[i].link = heard[i - 1].link THEN heard[i].n = heard[i - 1].n + 1
          ELSE heard[i].link > heard[i - 1].link /\ heard[i].n = 0

\* Nothing overtakes or is repeated, towards the peer or from it, whatever fails.
InOrderOnce == SentInOrderOnce /\ HeardInOrder

\* When a connection fails the client is connected again, unless the runner has ended.
ComesBack == \A l \in Links : l < MaxLinks /\ l \in down /\ endpoint = l ~> endpoint > l \/ at = "ended"
=============================================================================
