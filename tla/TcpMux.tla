------------------------------ MODULE TcpMux ------------------------------
(***************************************************************************)
(* One connection of the TCP hyperlane, from the handshake to its end.     *)
(* Each side has a task, the muxer, that either writes a wave of its       *)
(* endpoint, or reads one, or ends, whichever comes first: while it writes *)
(* or waits for room towards its endpoint it does nothing else, and a read *)
(* that another branch of select! overtakes is dropped with what it has    *)
(* consumed.  A frame is two units on the wire, its size and its body; a   *)
(* reader that lost a size takes what follows for one.                     *)
(*                                                                         *)
(* The client's endpoint is its HyperClient's, which sends the knock first *)
(* (module HyperClient); the server's is connected by two pumps with the   *)
(* endpoint its gate gives it (module Interchange).  TLS is taken for what *)
(* it hides: bytes arrive in order, or reading and writing fail.           *)
(***************************************************************************)
EXTENDS Naturals, Sequences

CONSTANTS
    Versions,   \* versions of the two programs
    MaxWaves,   \* bound on the waves each side sends, the client's knock included
    WireCap,    \* units the buffers of one direction hold
    ChanCap     \* capacity of the channels between muxer and endpoint: 1024

Sides == {"client", "server"}
Other(s) == IF s = "client" THEN "server" ELSE "client"

ASSUME TcpMuxAssumption ==
    /\ MaxWaves \in [Sides -> Nat]
    /\ MaxWaves["client"] > 0
    /\ WireCap \in Nat \ {0}
    /\ ChanCap \in Nat \ {0}

VARIABLES
    version,    \* each side's version
    wire,       \* what each side has written and the other not read
    at,         \* what each side's task is doing
    wave,       \* the wave it writes or hands over, 0 for none
    reading,    \* the frame whose size its unfinished read has consumed, 0 for none
    lost,       \* it has dropped a read that had consumed something
    ep,         \* the muxer's endpoint, as its user holds it
    outbox,     \* waves from the endpoint to the muxer
    inbox,      \* waves from the muxer to the endpoint
    sent,       \* how many waves were put into the outbox
    heard,      \* the waves taken from the inbox
    session     \* the endpoint that the server's gate has given it

connVars == <<version, wire>>
muxVars  == <<at, wave, reading, lost>>
userVars == <<ep, sent, heard, session>>
vars == <<connVars, muxVars, userVars, outbox, inbox>>

Version(v)  == [op |-> "version", arg |-> v]
Verdict(ok) == [op |-> "verdict", arg |-> ok]
Size(n)     == [op |-> "size", arg |-> n]
Body(n)     == [op |-> "body", arg |-> n]

\* Waves are numbered by each side as it sends them; the client's first is its knock.
Knock == 1

Muxing(s)   == at[s] \in {"select", "size", "body", "hand"}
WireRoom(s) == Len(wire[s]) < WireCap
Put(s, u)   == wire' = [wire EXCEPT ![s] = Append(@, u)]
\* what s finds on the wire, and takes from it
Next1(s)    == Head(wire[Other(s)])
Get(s)      == wire' = [wire EXCEPT ![Other(s)] = Tail(@)]
Arrived(s)  == wire[Other(s)] # <<>>
\* the other side's task has dropped its stream
Closed(s)   == at[Other(s)] = "over"

Goes(s, where) == at' = [at EXCEPT ![s] = where]

Init ==
    /\ version \in [Sides -> Versions]
    /\ wire = [s \in Sides |-> <<>>]
    /\ at = [s \in Sides |-> "hello"]
    /\ wave = [s \in Sides |-> 0]
    /\ reading = [s \in Sides |-> 0]
    /\ lost = [s \in Sides |-> FALSE]
    /\ ep = [s \in Sides |-> "none"]
    /\ outbox = [s \in Sides |-> <<>>]
    /\ inbox = [s \in Sides |-> <<>>]
    /\ sent = [s \in Sides |-> 0]
    /\ heard = [s \in Sides |-> <<>>]
    /\ session = "none"

-----------------------------------------------------------------------------
(* The handshake, the same on both sides.                                  *)

Hello(s) ==
    /\ at[s] = "hello"
    /\ Put(s, Version(version[s]))
    /\ Goes(s, "version")
    /\ UNCHANGED <<version, wave, reading, lost, userVars, outbox, inbox>>

\* The versions must be equal; the other side is told what this one found.
Compare(s) ==
    /\ at[s] = "version"
    /\ Arrived(s) /\ Next1(s).op = "version"
    /\ LET ok == Next1(s).arg = version[s] IN
         /\ wire' = [wire EXCEPT ![Other(s)] = Tail(@), ![s] = Append(@, Verdict(ok))]
         /\ Goes(s, IF ok THEN "verdict" ELSE "over")
    /\ UNCHANGED <<version, wave, reading, lost, userVars, outbox, inbox>>

\* With an Ok from the other side the muxer starts.  The client puts its knock into
\* the new channel before create returns.
Agree(s) ==
    /\ at[s] = "verdict"
    /\ Arrived(s) /\ Next1(s) = Verdict(TRUE)
    /\ Get(s)
    /\ Goes(s, "select")
    /\ ep' = [ep EXCEPT ![s] = "held"]
    /\ IF s = "client"
         THEN /\ outbox' = [outbox EXCEPT ![s] = <<Knock>>]
              /\ sent' = [sent EXCEPT ![s] = Knock]
         ELSE UNCHANGED <<outbox, sent>>
    /\ UNCHANGED <<version, wave, reading, lost, inbox, heard, session>>

\* The other side's Err, a failure of the connection, or 30 seconds without an answer.
HandshakeFails(s) ==
    /\ at[s] \in {"hello", "version", "verdict"}
    /\ at[s] = "hello" => Closed(s)
    /\ Goes(s, "over")
    /\ UNCHANGED <<connVars, wave, reading, lost, userVars, outbox, inbox>>

-----------------------------------------------------------------------------
(* The muxer.                                                              *)

\* rx.recv: the read that was going on is dropped, with the size it has consumed.
TakeOut(s) ==
    /\ at[s] = "select"
    /\ outbox[s] # <<>>
    /\ wave' = [wave EXCEPT ![s] = Head(outbox[s])]
    /\ outbox' = [outbox EXCEPT ![s] = Tail(@)]
    /\ lost' = [lost EXCEPT ![s] = @ \/ reading[s] # 0]
    /\ reading' = [reading EXCEPT ![s] = 0]
    /\ Goes(s, "size")
    /\ UNCHANGED <<connVars, userVars, inbox>>

\* write_wave: the size, then the body, each waiting for the buffers to have room.
WriteSize(s) ==
    /\ at[s] = "size"
    /\ WireRoom(s)
    /\ Put(s, Size(wave[s]))
    /\ Goes(s, "body")
    /\ UNCHANGED <<version, wave, reading, lost, userVars, outbox, inbox>>

WriteBody(s) ==
    /\ at[s] = "body"
    /\ WireRoom(s)
    /\ Put(s, Body(wave[s]))
    /\ wave' = [wave EXCEPT ![s] = 0]
    /\ Goes(s, "select")
    /\ UNCHANGED <<version, reading, lost, userVars, outbox, inbox>>

WriteFails(s) ==
    /\ at[s] \in {"size", "body"}
    /\ Closed(s)
    /\ Goes(s, "over")
    /\ UNCHANGED <<connVars, wave, reading, lost, userVars, outbox, inbox>>

\* from_stream: the size ...
ReadSize(s) ==
    /\ at[s] = "select" /\ ~lost[s] /\ reading[s] = 0
    /\ Arrived(s) /\ Next1(s).op = "size"
    /\ reading' = [reading EXCEPT ![s] = Next1(s).arg]
    /\ Get(s)
    /\ UNCHANGED <<version, at, wave, lost, userVars, outbox, inbox>>

\* ... and the body, with which the frame is a wave.
ReadBody(s) ==
    /\ at[s] = "select" /\ reading[s] # 0
    /\ Arrived(s) /\ Next1(s).op = "body"
    /\ wave' = [wave EXCEPT ![s] = reading[s]]
    /\ reading' = [reading EXCEPT ![s] = 0]
    /\ Get(s)
    /\ Goes(s, "hand")
    /\ UNCHANGED <<version, lost, userVars, outbox, inbox>>

MutReadJunk(s) ==
    /\ at[s] = "select" /\ lost[s]
    /\ Arrived(s)
    /\ Get(s)
    /\ lost' = [lost EXCEPT ![s] = FALSE]
    /\ UNCHANGED <<version, at, wave, reading, userVars, outbox, inbox>>

\* After a lost size the bytes of a wave are read as one.  A Ping's begin with zeros:
\* an empty frame, that is no wave, so the muxer ends; other waves' give a size of
\* many megabytes, and all that follows is taken for the body.
ReadJunk(s) ==
    /\ at[s] = "select" /\ lost[s]
    /\ Arrived(s)
    /\ Get(s)
    /\ Goes(s, "over") \/ UNCHANGED at
    /\ UNCHANGED <<version, wave, reading, lost, userVars, outbox, inbox>>

MutReadFails(s) == at[s] = "select" /\ Closed(s) /\ UNCHANGED vars

\* The stream's end, which may overtake what had arrived.
ReadFails(s) ==
    /\ at[s] = "select"
    /\ Closed(s)
    /\ Goes(s, "over")
    /\ UNCHANGED <<connVars, wave, reading, lost, userVars, outbox, inbox>>

\* The connection fails, which this side is the first to see.
Break(s) ==
    /\ at[s] \in {"select", "size", "body"}
    /\ Goes(s, "over")
    /\ UNCHANGED <<connVars, wave, reading, lost, userVars, outbox, inbox>>

MutHand(s) ==
    /\ at[s] = "hand"
    /\ inbox' = IF ep[s] = "held" /\ Len(inbox[s]) < ChanCap
                  THEN [inbox EXCEPT ![s] = Append(@, wave[s])] ELSE inbox
    /\ wave' = [wave EXCEPT ![s] = 0]
    /\ Goes(s, "select")
    /\ UNCHANGED <<connVars, reading, lost, userVars, outbox>>

\* tx.send: waits for room, and fails when the endpoint is gone.
Hand(s) ==
    /\ at[s] = "hand"
    /\ \/ /\ ep[s] = "dropped"
          /\ Goes(s, "over")
          /\ UNCHANGED <<wave, inbox>>
       \/ /\ ep[s] = "held" /\ Len(inbox[s]) < ChanCap
          /\ inbox' = [inbox EXCEPT ![s] = Append(@, wave[s])]
          /\ wave' = [wave EXCEPT ![s] = 0]
          /\ Goes(s, "select")
    /\ UNCHANGED <<connVars, reading, lost, userVars, outbox>>

\* The endpoint was dropped, which is told by its terminate channel; its own sender
\* may be gone as well, but what is in the outbox may still come first.
Terminated(s) ==
    /\ at[s] = "select"
    /\ ep[s] = "dropped"
    /\ Goes(s, "over")
    /\ UNCHANGED <<connVars, wave, reading, lost, userVars, outbox, inbox>>

Read(s)  == ReadSize(s) \/ ReadBody(s) \/ ReadJunk(s)
Write(s) == WriteSize(s) \/ WriteBody(s) \/ WriteFails(s)
Mux(s)   == TakeOut(s) \/ Read(s) \/ Write(s) \/ ReadFails(s) \/ Hand(s) \/ Terminated(s)

-----------------------------------------------------------------------------
(* The endpoints' users.                                                   *)

Leaves(s) == ep' = [ep EXCEPT ![s] = "dropped"]

\* The client's runner passes waves on as long as the endpoint takes them ...
ClientSends ==
    /\ ep["client"] = "held" /\ at["client"] # "over"
    /\ sent["client"] < MaxWaves["client"]
    /\ Len(outbox["client"]) < ChanCap
    /\ outbox' = [outbox EXCEPT !["client"] = Append(@, sent["client"] + 1)]
    /\ sent' = [sent EXCEPT !["client"] = @ + 1]
    /\ UNCHANGED <<connVars, muxVars, inbox, ep, heard, session>>

Hears(s) ==
    /\ inbox[s] # <<>>
    /\ heard' = [heard EXCEPT ![s] = Append(@, Head(inbox[s]))]
    /\ inbox' = [inbox EXCEPT ![s] = Tail(@)]

ClientHears ==
    /\ ep["client"] = "held"
    /\ Hears("client")
    /\ UNCHANGED <<connVars, muxVars, outbox, ep, sent, session>>

\* ... and drops it when it is closed or reset, or finds the muxer gone.
ClientLeaves ==
    /\ ep["client"] = "held"
    /\ Leaves("client")
    /\ UNCHANGED <<connVars, muxVars, outbox, inbox, sent, heard, session>>

\* serve: the first wave must be the knock, and comes within 30 seconds ...
ServerReceives ==
    /\ ep["server"] = "held" /\ session = "none"
    /\ Hears("server")
    /\ IF Head(inbox["server"]) = Knock
         THEN session' = "knocking" /\ UNCHANGED ep
         ELSE session' = "refused" /\ Leaves("server")
    /\ UNCHANGED <<connVars, muxVars, outbox, sent>>

NoKnock ==
    /\ ep["server"] = "held" /\ session = "none"
    /\ session' = "refused"
    /\ Leaves("server")
    /\ UNCHANGED <<connVars, muxVars, outbox, inbox, sent, heard>>

\* ... and the gate lets the client in, or not.
GateAnswers ==
    /\ session = "knocking"
    /\ \/ session' = "on" /\ UNCHANGED ep
       \/ session' = "refused" /\ Leaves("server")
    /\ UNCHANGED <<connVars, muxVars, outbox, inbox, sent, heard>>

\* connect, from the muxer to the interchange; the endpoint of the muxer is dropped
\* when there is nothing more to come.
PumpIn ==
    /\ session \in {"on", "released"} /\ ep["server"] = "held"
    /\ \/ /\ Hears("server")
          /\ UNCHANGED ep
       \/ /\ inbox["server"] = <<>> /\ at["server"] = "over"
          /\ Leaves("server")
          /\ UNCHANGED <<heard, inbox>>
    /\ UNCHANGED <<connVars, muxVars, outbox, sent, session>>

\* connect, from the interchange to the muxer: the endpoint of the gate is dropped,
\* and with it the client's hyperway, when a wave finds the muxer gone.
PumpOut ==
    /\ session = "on"
    /\ sent["server"] < MaxWaves["server"]
    /\ \/ /\ at["server"] = "over"
          /\ session' = "released"
          /\ UNCHANGED <<outbox, sent>>
       \/ /\ at["server"] # "over" /\ Len(outbox["server"]) < ChanCap
          /\ outbox' = [outbox EXCEPT !["server"] = Append(@, sent["server"] + 1)]
          /\ sent' = [sent EXCEPT !["server"] = @ + 1]
          /\ UNCHANGED session
    /\ UNCHANGED <<connVars, muxVars, inbox, ep, heard>>

\* The interchange gives the hyperway to a newer session of the same client.
Replaced ==
    /\ session = "on"
    /\ session' = "released"
    /\ UNCHANGED <<connVars, muxVars, outbox, inbox, ep, sent, heard>>

Next ==
    \/ \E s \in Sides : Hello(s) \/ Compare(s) \/ Agree(s) \/ HandshakeFails(s) \/ Mux(s) \/ Break(s)
    \/ ClientSends \/ ClientHears \/ ClientLeaves
    \/ ServerReceives \/ NoKnock \/ GateAnswers \/ PumpIn \/ PumpOut \/ Replaced

\* Tokio runs each task that can go on, the timeouts of the handshake fire, the gate
\* answers, users listen and find out when a muxer is gone, and the interchange has
\* waves for the client.  The client need not send, and no connection need fail.
Fairness ==
    /\ \A s \in Sides :
         /\ WF_vars(Hello(s) \/ Compare(s) \/ Agree(s) \/ HandshakeFails(s))
         /\ WF_vars(Mux(s))
    /\ WF_vars(ClientHears \/ (ClientLeaves /\ at["client"] = "over" /\ inbox["client"] = <<>>))
    /\ WF_vars(ServerReceives \/ NoKnock \/ GateAnswers \/ PumpIn)
    /\ WF_vars(PumpOut)

Spec == Init /\ [][Next]_vars
FairSpec == Spec /\ Fairness

-----------------------------------------------------------------------------
\* The types of the variables.
TypeOK ==
    /\ version \in [Sides -> Versions]
    /\ wire \in [Sides -> Seq([op : {"version"}, arg : Versions] \cup
                              [op : {"verdict"}, arg : BOOLEAN] \cup
                              [op : {"size", "body"}, arg : Nat])]
    /\ at \in [Sides -> {"hello", "version", "verdict", "select", "size", "body",
                         "hand", "over"}]
    /\ wave \in [Sides -> Nat]
    /\ reading \in [Sides -> Nat]
    /\ lost \in [Sides -> BOOLEAN]
    /\ ep \in [Sides -> {"none", "held", "dropped"}]
    /\ outbox \in [Sides -> Seq(Nat)]
    /\ inbox \in [Sides -> Seq(Nat)]
    /\ sent \in [Sides -> Nat]
    /\ heard \in [Sides -> Seq(Nat)]
    /\ session \in {"none", "knocking", "on", "refused", "released"}

\* However reads are interrupted and connections end, what a side hears is what the
\* other sent, from its first wave on, in order and without a gap: a muxer that has
\* lost its place in the stream never finds a wave in it again.
HeardFromTheFirst ==
    \A s \in Sides :
        /\ Len(heard[s]) <= sent[Other(s)]
        /\ \A i \in 1..Len(heard[s]) : heard[s][i] = i

\* Both muxers write and neither has room: neither reads, and neither sees that it
\* should terminate.
Jam == \A s \in Sides : at[s] \in {"size", "body"} /\ ~WireRoom(s)

\* A wave that was sent is heard, unless a side has ended, the other one's read was
\* interrupted, or the two muxers wait for each other.
Flows ==
    \A s \in Sides : \A n \in 1..MaxWaves[s] :
        sent[s] >= n
          ~> \/ Len(heard[Other(s)]) >= n
             \/ lost[Other(s)]
             \/ \E t \in Sides : at[t] = "over" \/ ep[t] = "dropped"
             \/ Jam

\* When one side is over, or its user leaves, both sides come to an end; but two muxers that
\* wait for each other do not see that their users have left.  The server finds out at its next
\* wave for the client that the connection is gone, and lets go of the client's hyperway.
EndsTogether ==
    /\ (\E s \in Sides : at[s] = "over") ~> (\A s \in Sides : at[s] = "over")
    /\ \A s \in Sides : ep[s] = "dropped" ~> at[s] = "over" \/ Jam
    /\ session = "on" /\ at["server"] = "over" /\ sent["server"] < MaxWaves["server"]
         ~> session = "released"
=============================================================================
