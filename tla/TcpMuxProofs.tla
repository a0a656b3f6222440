---------------------------- MODULE TcpMuxProofs ----------------------------
(***************************************************************************)
(* Theorems about TcpMux for any versions, waves and capacities.  What     *)
(* carries them is that everything one side has written has a place in its *)
(* stream, which says where the other side is that reads it; a reader that *)
(* has lost its place never reads a wave again.                            *)
(***************************************************************************)
EXTENDS TcpMux, Integers, TLAPS

Handshake == {"hello", "version", "verdict"}

\* The waves that the muxer of s has taken, and those that it has read.
Taken(s) == sent[s] - Len(outbox[s])
Got(s) == Len(heard[s]) + Len(inbox[s]) + IF at[s] = "hand" THEN 1 ELSE 0

\* The places in a stream: two units of the handshake, then two of each frame.
Place(u) == IF u.op = "version" THEN 1 ELSE IF u.op = "verdict" THEN 2
            ELSE IF u.op = "size" THEN 2 * u.arg + 1 ELSE 2 * u.arg + 2
WritePlace(s) ==
    IF at[s] = "hello" THEN 0 ELSE IF at[s] = "version" THEN 1 ELSE IF at[s] = "verdict" THEN 2
    ELSE IF at[s] = "size" THEN 2 * Taken(s) ELSE IF at[s] = "body" THEN 2 * Taken(s) + 1
    ELSE 2 * Taken(s) + 2
ReadPlace(s) ==
    IF at[s] \in {"hello", "version"} THEN 0 ELSE IF at[s] = "verdict" THEN 1
    ELSE 2 * Got(s) + 2 + IF reading[s] # 0 THEN 1 ELSE 0

\* What a side sends is numbered, and is taken in order.
Sends(s) ==
    /\ Taken(s) \in Nat
    /\ \A i \in 1..Len(outbox[s]) : outbox[s][i] = Taken(s) + i
    /\ at[s] \in {"size", "body"} => wave[s] = Taken(s) /\ Taken(s) > 0
    /\ \A i \in 1..Len(wire[s]) : wire[s][i].op \in {"size", "body"} => wire[s][i].arg \in 1..Taken(s)

\* What a side hears is numbered.
Receives(s) ==
    /\ Got(s) <= Taken(Other(s)) /\ reading[s] <= Taken(Other(s))
    /\ \A i \in 1..Len(heard[s]) : heard[s][i] = i
    /\ \A i \in 1..Len(inbox[s]) : inbox[s][i] = Len(heard[s]) + i
    /\ at[s] = "hand" => wave[s] = Got(s) /\ reading[s] = 0
    /\ reading[s] # 0 => reading[s] = Got(s) + 1 /\ ~lost[s]
    /\ at[s] \in {"size", "body"} => reading[s] = 0

\* A reader that has not lost its place finds what comes next.
Streams(s) ==
    at[s] # "over" /\ ~lost[s] =>
       /\ \A i \in 1..Len(wire[Other(s)]) : Place(wire[Other(s)][i]) = ReadPlace(s) + i
       /\ at[Other(s)] # "over" => WritePlace(Other(s)) = ReadPlace(s) + Len(wire[Other(s)])

\* Nothing happens to an endpoint before there is one.
Starts(s) ==
    at[s] \in Handshake => /\ ep[s] = "none" /\ sent[s] = 0 /\ outbox[s] = <<>>
                           /\ inbox[s] = <<>> /\ heard[s] = <<>> /\ reading[s] = 0

IInv ==
    /\ TypeOK
    /\ \A s \in Sides : Sends(s) /\ Receives(s) /\ Streams(s) /\ Starts(s)
    /\ session # "none" => ep["server"] # "none"

-----------------------------------------------------------------------------
(* Types.                                                                  *)

Units == [op : {"version"}, arg : Versions] \cup [op : {"verdict"}, arg : BOOLEAN]
           \cup [op : {"size", "body"}, arg : Nat]
Ats == {"hello", "version", "verdict", "select", "size", "body", "hand", "over"}

\* TypeOK in the words of this module.
Typed ==
    /\ version \in [Sides -> Versions]
    /\ wire \in [Sides -> Seq(Units)]
    /\ at \in [Sides -> Ats]
    /\ wave \in [Sides -> Nat] /\ reading \in [Sides -> Nat] /\ lost \in [Sides -> BOOLEAN]
    /\ ep \in [Sides -> {"none", "held", "dropped"}]
    /\ outbox \in [Sides -> Seq(Nat)] /\ inbox \in [Sides -> Seq(Nat)]
    /\ sent \in [Sides -> Nat] /\ heard \in [Sides -> Seq(Nat)]
    /\ session \in {"none", "knocking", "on", "refused", "released"}

LEMMA TypedIs == (TypeOK <=> Typed) /\ (TypeOK <=> Typed)'
  BY DEF TypeOK, Typed, Units, Ats

LEMMA Others ==
    ASSUME NEW s \in Sides
    PROVE  /\ Other(s) \in Sides /\ Other(s) # s /\ Other(Other(s)) = s
           /\ \A x \in Sides : x = s \/ x = Other(s)
           /\ "client" \in Sides /\ "server" \in Sides
           /\ Other("client") = "server" /\ Other("server") = "client"
  BY DEF Sides, Other

LEMMA AUnit ==
    /\ \A v \in Versions : Version(v) \in Units
    /\ \A ok \in BOOLEAN : Verdict(ok) \in Units
    /\ \A n \in Nat : Size(n) \in Units /\ Body(n) \in Units
  BY DEF Units, Version, Verdict, Size, Body

LEMMA Headed ==
    ASSUME NEW S, NEW q \in Seq(S), q # <<>>
    PROVE  /\ Head(q) \in S /\ Head(q) = q[1] /\ Tail(q) \in Seq(S)
           /\ Len(q) \in Nat \ {0} /\ Len(Tail(q)) = Len(q) - 1
           /\ \A i \in 1..Len(q) - 1 : Tail(q)[i] = q[i + 1]
  OBVIOUS

LEMMA Appended ==
    ASSUME NEW S, NEW q \in Seq(S), NEW e \in S
    PROVE  /\ Append(q, e) \in Seq(S) /\ Len(q) \in Nat /\ Len(Append(q, e)) = Len(q) + 1
           /\ Append(q, e)[Len(q) + 1] = e
           /\ \A i \in 1..Len(q) : Append(q, e)[i] = q[i]
  OBVIOUS

\* What the types say about one side.
LEMMA SideTypes ==
    ASSUME TypeOK, NEW s \in Sides
    PROVE  /\ version[s] \in Versions /\ wire[s] \in Seq(Units) /\ at[s] \in Ats
           /\ wave[s] \in Nat /\ reading[s] \in Nat /\ lost[s] \in BOOLEAN
           /\ outbox[s] \in Seq(Nat) /\ inbox[s] \in Seq(Nat)
           /\ sent[s] \in Nat /\ heard[s] \in Seq(Nat)
           /\ Len(wire[s]) \in Nat /\ Len(outbox[s]) \in Nat
           /\ Len(inbox[s]) \in Nat /\ Len(heard[s]) \in Nat
           /\ Taken(s) \in Int /\ Got(s) \in Nat /\ ReadPlace(s) \in Nat /\ WritePlace(s) \in Int
  <1>1. Typed
    BY TypedIs
  <1>2. /\ version[s] \in Versions /\ wire[s] \in Seq(Units) /\ at[s] \in Ats
        /\ wave[s] \in Nat /\ reading[s] \in Nat /\ lost[s] \in BOOLEAN
        /\ outbox[s] \in Seq(Nat) /\ inbox[s] \in Seq(Nat)
        /\ sent[s] \in Nat /\ heard[s] \in Seq(Nat)
    BY <1>1 DEF Typed
  <1>3. /\ Len(wire[s]) \in Nat /\ Len(outbox[s]) \in Nat
        /\ Len(inbox[s]) \in Nat /\ Len(heard[s]) \in Nat
    BY <1>2
  <1>6. sent[s] \in Nat
    BY <1>2
  <1>7. Taken(s) \in Int
    BY <1>3, <1>6 DEF Taken
  <1>8. Got(s) \in Nat
    <2> DEFINE x == Len(heard[s])
               y == Len(inbox[s])
    <2>1. Got(s) = x + y + IF at[s] = "hand" THEN 1 ELSE 0
      BY DEF Got
    <2>2. x \in Nat /\ y \in Nat
      BY <1>3
    <2> HIDE DEF x, y
    <2>3. x + y + (IF at[s] = "hand" THEN 1 ELSE 0) \in Nat
      BY <2>2
    <2> QED
      BY <2>1, <2>3
  <1>4. Taken(s) \in Int /\ Got(s) \in Nat
    BY <1>7, <1>8
  <1>5. ReadPlace(s) \in Nat /\ WritePlace(s) \in Int
    BY <1>4 DEF ReadPlace, WritePlace
  <1> QED
    BY <1>2, <1>3, <1>4, <1>5

LEMMA Placed ==
    ASSUME NEW u \in Units
    PROVE  /\ Place(u) \in Nat
           /\ u.op = "version" => Place(u) = 1
           /\ u.op = "verdict" => Place(u) = 2
           /\ u.op = "size" => u.arg \in Nat /\ Place(u) = 2 * u.arg + 1
           /\ u.op = "body" => u.arg \in Nat /\ Place(u) = 2 * u.arg + 2
  BY DEF Units, Place

-----------------------------------------------------------------------------
(* The parts of the invariant where little happens to them.                *)

LEMMA SendsKept ==
    ASSUME TypeOK, NEW s \in Sides, Sends(s),
           outbox'[s] = outbox[s], sent'[s] = sent[s],
           at'[s] \in {"size", "body"} => at[s] \in {"size", "body"} /\ wave'[s] = wave[s],
           wire'[s] = wire[s] \/ (wire[s] # <<>> /\ wire'[s] = Tail(wire[s]))
    PROVE  Sends(s)' /\ Taken(s)' = Taken(s)
  <1>0. wire[s] \in Seq(Units)
    BY SideTypes
  <1>1. Taken(s)' = Taken(s)
    BY DEF Taken
  <1>2. \A i \in 1..Len(wire'[s]) : \E j \in 1..Len(wire[s]) : wire'[s][i] = wire[s][j]
    <2>1. CASE wire'[s] = wire[s]
      BY <2>1
    <2>2. CASE wire[s] # <<>> /\ wire'[s] = Tail(wire[s])
      <3>1. /\ Len(wire[s]) \in Nat \ {0} /\ Len(wire'[s]) = Len(wire[s]) - 1
            /\ \A i \in 1..Len(wire[s]) - 1 : wire'[s][i] = wire[s][i + 1]
        BY <1>0, <2>2, Headed
      <3>2. \A i \in 1..Len(wire'[s]) : i + 1 \in 1..Len(wire[s]) /\ wire'[s][i] = wire[s][i + 1]
        BY <3>1
      <3> QED
        BY <3>2
    <2> QED
      BY <2>1, <2>2
  <1> QED
    BY <1>1, <1>2 DEF Sends

\* What this side hears, and the other one's waves.
LEMMA ReceivesKept ==
    ASSUME TypeOK, NEW s \in Sides, Receives(s),
           heard'[s] = heard[s], inbox'[s] = inbox[s], lost'[s] = lost[s],
           reading'[s] = reading[s],
           wave'[s] = wave[s] \/ at'[s] # "hand",
           at[s] = "hand" => at'[s] \in {"hand", "over"},
           at'[s] = "hand" => at[s] = "hand",
           at'[s] \in {"size", "body"} => at[s] \in {"size", "body"},
           Taken(Other(s))' \in Int, Taken(Other(s)) <= Taken(Other(s))'
    PROVE  Receives(s)'
  <1>0. /\ Len(heard[s]) \in Nat /\ Len(inbox[s]) \in Nat /\ reading[s] \in Nat
        /\ Taken(Other(s)) \in Int /\ Got(s) \in Nat
    BY SideTypes, Others
  <1>1. (Got(s)' = Got(s)) \/ (at[s] = "hand" /\ at'[s] = "over" /\ Got(s)' = Got(s) - 1 /\ reading[s] = 0)
    <2>1. CASE at[s] = "hand" /\ at'[s] = "over"
      <3>1. Got(s) = Len(heard[s]) + Len(inbox[s]) + 1 /\ Got(s)' = Len(heard[s]) + Len(inbox[s])
        BY <1>0, <2>1 DEF Got
      <3>2. Got(s)' = Got(s) - 1
        BY <1>0, <3>1
      <3>3. reading[s] = 0
        BY <2>1 DEF Receives
      <3> QED
        BY <2>1, <3>2, <3>3
    <2>2. CASE (at[s] = "hand" <=> at'[s] = "hand")
      BY <2>2 DEF Got
    <2> QED
      BY <2>1, <2>2
  <1>2. Got(s)' <= Taken(Other(s))' /\ reading'[s] <= Taken(Other(s))'
    BY <1>0, <1>1 DEF Receives
  <1>3. at'[s] = "hand" => wave'[s] = Got(s)' /\ reading'[s] = 0
    BY <1>1 DEF Receives
  <1>4. reading'[s] # 0 => reading'[s] = Got(s)' + 1 /\ ~lost'[s]
    BY <1>1 DEF Receives
  <1>5. at'[s] \in {"size", "body"} => reading'[s] = 0
    BY DEF Receives
  <1> QED
    BY <1>2, <1>3, <1>4, <1>5 DEF Receives

\* The stream from the other side, when neither side reads or writes in it.
LEMMA StreamsKept ==
    ASSUME TypeOK, NEW s \in Sides, Streams(s),
           wire'[Other(s)] = wire[Other(s)],
           at'[s] # "over" /\ ~lost'[s] =>
               at[s] # "over" /\ ~lost[s] /\ ReadPlace(s)' = ReadPlace(s),
           at'[Other(s)] # "over" =>
               at[Other(s)] # "over" /\ WritePlace(Other(s))' = WritePlace(Other(s))
    PROVE  Streams(s)'
  BY DEF Streams

\* ... when this side reads a unit and keeps its place,
LEMMA StreamsRead ==
    ASSUME TypeOK, NEW s \in Sides, Streams(s),
           wire[Other(s)] # <<>>, wire'[Other(s)] = Tail(wire[Other(s)]),
           at'[s] # "over" => at[s] # "over" /\ lost'[s] = lost[s]
                              /\ (~lost[s] => ReadPlace(s)' = ReadPlace(s) + 1),
           at'[Other(s)] # "over" =>
               at[Other(s)] # "over" /\ WritePlace(Other(s))' = WritePlace(Other(s))
    PROVE  Streams(s)'
  <1> DEFINE q == wire[Other(s)]
             r == wire'[Other(s)]
             n == Len(q)
             a == ReadPlace(s)
             b == ReadPlace(s)'
             w == WritePlace(Other(s))
  <1> SUFFICES ASSUME at'[s] # "over", ~lost'[s]
               PROVE  /\ \A i \in 1..Len(r) : Place(r[i]) = b + i
                      /\ at'[Other(s)] # "over" => WritePlace(Other(s))' = b + Len(r)
    BY DEF Streams
  <1>0. q \in Seq(Units) /\ q # <<>> /\ r = Tail(q) /\ a \in Nat /\ w \in Int /\ b = a + 1
    BY SideTypes, Others
  <1>1. /\ n \in Nat \ {0} /\ Len(r) = n - 1 /\ \A i \in 1..n - 1 : r[i] = q[i + 1]
        /\ a \in Nat /\ b = a + 1 /\ w \in Int
    <2> HIDE DEF q, r, a, w, b
    <2> QED
      BY <1>0, Headed
  <1>2. /\ \A i \in 1..n : Place(q[i]) = a + i
        /\ at[Other(s)] # "over" => w = a + n
    BY DEF Streams
  <1>3. at'[Other(s)] # "over" => at[Other(s)] # "over" /\ WritePlace(Other(s))' = w
    OBVIOUS
  <1> HIDE DEF q, r, n, a, b, w
  <1>4. ASSUME NEW i \in 1..Len(r)
        PROVE  Place(r[i]) = b + i
    <2>1. i \in 1..n - 1 /\ i + 1 \in 1..n
      BY <1>1
    <2>2. Place(r[i]) = a + (i + 1)
      BY <1>1, <1>2, <2>1
    <2> QED
      BY <1>1, <2>2
  <1>5. ASSUME at'[Other(s)] # "over"
        PROVE  WritePlace(Other(s))' = b + Len(r)
    <2>1. WritePlace(Other(s))' = a + n
      BY <1>2, <1>3, <1>5
    <2>2. a + n = b + Len(r)
      BY <1>1
    <2> QED
      BY <2>1, <2>2
  <1> QED
    BY <1>4, <1>5

\* ... and when the other side writes the unit that comes next.
LEMMA StreamsWrite ==
    ASSUME TypeOK, NEW s \in Sides, Streams(s), NEW u \in Units,
           wire'[Other(s)] = Append(wire[Other(s)], u), Place(u) = WritePlace(Other(s)) + 1,
           at'[s] = at[s], lost'[s] = lost[s], ReadPlace(s)' = ReadPlace(s),
           at[Other(s)] # "over",
           at'[Other(s)] # "over" => WritePlace(Other(s))' = WritePlace(Other(s)) + 1
    PROVE  Streams(s)'
  <1> DEFINE q == wire[Other(s)]
             r == wire'[Other(s)]
             n == Len(q)
             a == ReadPlace(s)
             w == WritePlace(Other(s))
  <1> SUFFICES ASSUME at'[s] # "over", ~lost'[s]
               PROVE  /\ \A i \in 1..Len(r) : Place(r[i]) = ReadPlace(s)' + i
                      /\ at'[Other(s)] # "over" => WritePlace(Other(s))' = ReadPlace(s)' + Len(r)
    BY DEF Streams
  <1>0. q \in Seq(Units) /\ r = Append(q, u) /\ a \in Nat /\ w \in Int
    BY SideTypes, Others
  <1>1. /\ n \in Nat /\ Len(r) = n + 1 /\ r[n + 1] = u /\ \A i \in 1..n : r[i] = q[i]
        /\ a \in Nat /\ w \in Int
    <2> HIDE DEF q, r, a, w
    <2> QED
      BY <1>0, Appended
  <1>2. /\ \A i \in 1..n : Place(q[i]) = a + i
        /\ w = a + n
    BY DEF Streams
  <1>3. /\ at'[Other(s)] # "over" => WritePlace(Other(s))' = w + 1
        /\ Place(u) = w + 1 /\ ReadPlace(s)' = a
    OBVIOUS
  <1> HIDE DEF q, r, n, a, w
  <1>4. ASSUME NEW i \in 1..Len(r)
        PROVE  Place(r[i]) = a + i
    <2>1. CASE i = n + 1
      BY <1>1, <1>2, <1>3, <2>1
    <2>2. CASE i # n + 1
      BY <1>1, <1>2, <2>2
    <2> QED
      BY <2>1, <2>2
  <1>5. at'[Other(s)] # "over" => WritePlace(Other(s))' = a + Len(r)
    BY <1>1, <1>2, <1>3
  <1> QED
    BY <1>3, <1>4, <1>5

\* A side writes a unit.
LEMMA SendsWrite ==
    ASSUME TypeOK, NEW s \in Sides, Sends(s), NEW u \in Units,
           outbox'[s] = outbox[s], sent'[s] = sent[s],
           at'[s] \in {"size", "body"} => at[s] \in {"size", "body"} /\ wave'[s] = wave[s],
           wire'[s] = Append(wire[s], u),
           u.op \in {"size", "body"} => u.arg \in 1..Taken(s)
    PROVE  Sends(s)' /\ Taken(s)' = Taken(s)
  <1>1. Taken(s)' = Taken(s)
    BY DEF Taken
  <1>2. /\ Len(wire[s]) \in Nat /\ Len(wire'[s]) = Len(wire[s]) + 1 /\ wire'[s][Len(wire[s]) + 1] = u
        /\ \A i \in 1..Len(wire[s]) : wire'[s][i] = wire[s][i]
    BY SideTypes, Appended
  <1>3. ASSUME NEW i \in 1..Len(wire'[s]), wire'[s][i].op \in {"size", "body"}
        PROVE  wire'[s][i].arg \in 1..Taken(s)
    <2>1. CASE i = Len(wire[s]) + 1
      BY <1>2, <1>3, <2>1
    <2>2. CASE i # Len(wire[s]) + 1
      <3>1. i \in 1..Len(wire[s])
        BY <1>2, <2>2
      <3> QED
        BY <1>2, <1>3, <3>1 DEF Sends
    <2> QED
      BY <2>1, <2>2
  <1> QED
    BY <1>1, <1>3 DEF Sends

\* A side's user puts one more wave into the outbox.
LEMMA SendsMore ==
    ASSUME TypeOK, NEW s \in Sides, Sends(s),
           outbox'[s] = Append(outbox[s], sent[s] + 1), sent'[s] = sent[s] + 1,
           at'[s] = at[s], wave'[s] = wave[s], wire'[s] = wire[s]
    PROVE  Sends(s)' /\ Taken(s)' = Taken(s)
  <1> DEFINE k == sent[s]
             q == outbox[s]
             n == Len(q)
             r == outbox'[s]
             T == Taken(s)
  <1>0. q \in Seq(Nat) /\ k \in Nat /\ k + 1 \in Nat /\ r = Append(q, k + 1)
    BY SideTypes
  <1>1. n \in Nat /\ Len(r) = n + 1 /\ r[n + 1] = k + 1 /\ \A i \in 1..n : r[i] = q[i]
    <2> HIDE DEF k, q, r
    <2> QED
      BY <1>0, Appended
  <1>2. T = k - n /\ T' = (k + 1) - Len(r)
    BY DEF Taken
  <1>3. T' = T /\ T \in Int
    <2> HIDE DEF n, k, q, r
    <2>1. T' = k - n
      BY <1>0, <1>1, <1>2
    <2> QED
      BY <1>0, <1>1, <1>2, <2>1
  <1>4. \A i \in 1..Len(r) : r[i] = T + i
    <2>1. \A i \in 1..n : q[i] = T + i
      BY DEF Sends
    <2> HIDE DEF n, k, q, r, T
    <2>2. ASSUME NEW i \in 1..Len(r)
          PROVE  r[i] = T + i
      <3>1. CASE i = n + 1
        BY <1>0, <1>1, <1>2, <1>3, <3>1
      <3>2. CASE i # n + 1
        BY <1>1, <2>1, <3>2
      <3> QED
        BY <3>1, <3>2
    <2> QED
      BY <2>2
  <1> QED
    BY <1>3, <1>4 DEF Sends

-----------------------------------------------------------------------------
(* A side to which nothing happens, but that the other one reads from it.  *)

Idle(x) ==
    /\ at'[x] = at[x] /\ wave'[x] = wave[x] /\ reading'[x] = reading[x] /\ lost'[x] = lost[x]
    /\ ep'[x] = ep[x] /\ outbox'[x] = outbox[x] /\ inbox'[x] = inbox[x]
    /\ sent'[x] = sent[x] /\ heard'[x] = heard[x]

LEMMA IdlePlaces ==
    ASSUME NEW x \in Sides, Idle(x)
    PROVE  /\ WritePlace(x)' = WritePlace(x) /\ ReadPlace(x)' = ReadPlace(x)
           /\ Taken(x)' = Taken(x) /\ Got(x)' = Got(x)
  <1>1. Taken(x)' = Taken(x) /\ Got(x)' = Got(x)
    BY DEF Idle, Taken, Got
  <1> QED
    BY <1>1 DEF Idle, WritePlace, ReadPlace

LEMMA OtherKeeps ==
    ASSUME IInv, NEW s \in Sides, Idle(Other(s)),
           \/ wire'[Other(s)] = wire[Other(s)]
           \/ wire[Other(s)] # <<>> /\ wire'[Other(s)] = Tail(wire[Other(s)]),
           Taken(s)' \in Int, Taken(s) <= Taken(s)'
    PROVE  Sends(Other(s))' /\ Receives(Other(s))' /\ Starts(Other(s))'
  <1> DEFINE o == Other(s)
  <1>0. /\ o \in Sides /\ Other(o) = s /\ TypeOK
        /\ Sends(o) /\ Receives(o) /\ Starts(o)
    BY Others DEF IInv
  <1> HIDE DEF o
  <1>1. Idle(o) /\ (wire'[o] = wire[o] \/ (wire[o] # <<>> /\ wire'[o] = Tail(wire[o])))
    BY DEF o
  <1>2. Sends(o)'
    BY <1>0, <1>1, SendsKept DEF Idle
  <1>3. Receives(o)'
    BY <1>0, <1>1, ReceivesKept DEF Idle
  <1>4. Starts(o)'
    BY <1>0, <1>1 DEF Idle, Starts
  <1> QED
    BY <1>2, <1>3, <1>4 DEF o

\* What is to be shown of both sides.
Good(x) == Sends(x) /\ Receives(x) /\ Streams(x) /\ Starts(x)

LEMMA BothGood ==
    ASSUME NEW s \in Sides, Good(s)', Good(Other(s))'
    PROVE  \A x \in Sides : Good(x)'
  BY Others

\* What IInv says of a side and of the other one.
LEMMA SideIs ==
    ASSUME IInv, NEW s \in Sides
    PROVE  /\ TypeOK /\ Typed /\ Good(s) /\ Good(Other(s))
           /\ Other(s) \in Sides /\ Other(s) # s /\ Other(Other(s)) = s
  BY Others, TypedIs DEF IInv, Good

\* A side is over, and nothing else happens.
LEMMA OverKeeps ==
    ASSUME IInv, NEW s \in Sides, Goes(s, "over"), Idle(Other(s)), wire' = wire,
           wave' = wave, reading' = reading, lost' = lost, ep' = ep, outbox' = outbox,
           inbox' = inbox, sent' = sent, heard' = heard
    PROVE  \A x \in Sides : Good(x)'
  <1> DEFINE o == Other(s)
  <1>0. TypeOK /\ Typed /\ Good(s) /\ Good(o) /\ o \in Sides /\ o # s /\ Other(o) = s
    BY SideIs
  <1>1. at'[s] = "over" /\ Idle(o)
    BY <1>0 DEF Goes, Typed
  <1>2. Taken(s)' = Taken(s) /\ Taken(s) \in Int /\ Taken(s) <= Taken(s)' /\ Taken(o)' = Taken(o)
        /\ Taken(o) \in Int /\ Taken(o) <= Taken(o)'
    BY <1>0, SideTypes DEF Taken
  <1>3. Sends(o)' /\ Receives(o)' /\ Starts(o)'
    BY <1>1, <1>2, OtherKeeps
  <1>4. Sends(s)'
    BY <1>0, <1>1, SendsKept DEF Good
  <1>5. Receives(s)'
    BY <1>0, <1>1, <1>2, ReceivesKept DEF Good
  <1>6. Starts(s)'
    BY <1>1 DEF Starts, Handshake
  <1>7. Streams(s)'
    BY <1>0, <1>1, IdlePlaces, StreamsKept DEF Good, Idle
  <1>8. Streams(o)'
    BY <1>0, <1>1, IdlePlaces, StreamsKept DEF Good, Idle
  <1>9. Good(s)' /\ Good(o)'
    BY <1>3, <1>4, <1>5, <1>6, <1>7, <1>8 DEF Good
  <1> QED
    BY <1>9, BothGood

-----------------------------------------------------------------------------
(* The handshake and the muxer, action by action.                          *)

LEMMA HelloKeeps ==
    ASSUME IInv, NEW s \in Sides, Hello(s)
    PROVE  \A x \in Sides : Good(x)'
  <1> USE DEF userVars
  <1> DEFINE o == Other(s)
             u == Version(version[s])
  <1>0. TypeOK /\ Typed /\ Good(s) /\ Good(o) /\ o \in Sides /\ o # s /\ Other(o) = s
    BY SideIs
  <1>1. /\ at[s] = "hello" /\ at'[s] = "version"
        /\ wire'[s] = Append(wire[s], u) /\ wire'[o] = wire[o] /\ Idle(o)
        /\ wave'[s] = wave[s] /\ reading'[s] = reading[s] /\ lost'[s] = lost[s] /\ ep'[s] = ep[s]
        /\ outbox'[s] = outbox[s] /\ inbox'[s] = inbox[s] /\ sent'[s] = sent[s] /\ heard'[s] = heard[s]
    BY <1>0 DEF Typed, Hello, Goes, Put, Idle
  <1>2. u \in Units /\ u.op = "version"
    BY <1>0, AUnit DEF Typed, Version
  <1> HIDE DEF u
  <1>3. Sends(s)' /\ Taken(s)' = Taken(s)
    BY <1>0, <1>1, <1>2, SendsWrite DEF Good
  <1>4. Taken(s) \in Int /\ Taken(o) \in Int /\ Taken(o)' = Taken(o)
    BY <1>0, <1>1, SideTypes, IdlePlaces
  <1>5. Sends(o)' /\ Receives(o)' /\ Starts(o)'
    BY <1>1, <1>3, <1>4, OtherKeeps
  <1>6. Receives(s)'
    BY <1>0, <1>1, <1>4, ReceivesKept DEF Good
  <1>7. Starts(s)'
    BY <1>0, <1>1 DEF Good, Starts, Handshake
  <1>8. Streams(s)'
    <2>1. ReadPlace(s)' = ReadPlace(s)
      BY <1>1 DEF ReadPlace
    <2> QED
      BY <1>0, <1>1, <2>1, IdlePlaces, StreamsKept DEF Good, Idle
  <1>9. Streams(o)'
    <2>1. WritePlace(s) = 0 /\ WritePlace(s)' = 1 /\ Place(u) = 1
      BY <1>1, <1>2, Placed DEF WritePlace
    <2> QED
      BY <1>0, <1>1, <1>2, <2>1, IdlePlaces, StreamsWrite DEF Good, Idle
  <1>10. Good(s)' /\ Good(o)'
    BY <1>3, <1>5, <1>6, <1>7, <1>8, <1>9 DEF Good
  <1> QED
    BY <1>10, BothGood

LEMMA CompareKeeps ==
    ASSUME IInv, NEW s \in Sides, Compare(s)
    PROVE  \A x \in Sides : Good(x)'
  <1> USE DEF userVars
  <1> DEFINE o == Other(s)
             ok == Next1(s).arg = version[s]
             u == Verdict(ok)
  <1>0. TypeOK /\ Typed /\ Good(s) /\ Good(o) /\ o \in Sides /\ o # s /\ Other(o) = s
    BY SideIs
  <1>1. /\ at[s] = "version" /\ wire[o] # <<>> /\ at'[s] \in {"verdict", "over"} /\ Idle(o)
        /\ wire'[s] = Append(wire[s], u) /\ wire'[o] = Tail(wire[o])
        /\ wave'[s] = wave[s] /\ reading'[s] = reading[s] /\ lost'[s] = lost[s] /\ ep'[s] = ep[s]
        /\ outbox'[s] = outbox[s] /\ inbox'[s] = inbox[s] /\ sent'[s] = sent[s] /\ heard'[s] = heard[s]
    BY <1>0 DEF Typed, Compare, Goes, Arrived, Idle
  <1>2. u \in Units /\ u.op = "verdict"
    BY AUnit DEF Verdict
  <1> HIDE DEF u
  <1>3. Sends(s)' /\ Taken(s)' = Taken(s)
    BY <1>0, <1>1, <1>2, SendsWrite DEF Good
  <1>4. Taken(s) \in Int /\ Taken(o) \in Int /\ Taken(o)' = Taken(o)
    BY <1>0, <1>1, SideTypes, IdlePlaces
  <1>5. Sends(o)' /\ Receives(o)' /\ Starts(o)'
    BY <1>1, <1>3, <1>4, OtherKeeps
  <1>6. Receives(s)'
    BY <1>0, <1>1, <1>4, ReceivesKept DEF Good
  <1>7. Starts(s)'
    BY <1>0, <1>1 DEF Good, Starts, Handshake
  <1>8. Streams(s)'
    <2>1. at'[s] # "over" => ReadPlace(s)' = ReadPlace(s) + 1
      BY <1>1 DEF ReadPlace
    <2> QED
      BY <1>0, <1>1, <2>1, IdlePlaces, StreamsRead DEF Good, Idle
  <1>9. Streams(o)'
    <2>1. /\ WritePlace(s) = 1 /\ Place(u) = 2
          /\ at'[s] # "over" => WritePlace(s)' = 2
      BY <1>1, <1>2, Placed DEF WritePlace
    <2> QED
      BY <1>0, <1>1, <1>2, <2>1, IdlePlaces, StreamsWrite DEF Good, Idle
  <1>10. Good(s)' /\ Good(o)'
    BY <1>3, <1>5, <1>6, <1>7, <1>8, <1>9 DEF Good
  <1> QED
    BY <1>10, BothGood

LEMMA AgreeKeeps ==
    ASSUME IInv, NEW s \in Sides, Agree(s)
    PROVE  \A x \in Sides : Good(x)'
  <1> USE DEF userVars
  <1> DEFINE o == Other(s)
  <1>0. TypeOK /\ Typed /\ Good(s) /\ Good(o) /\ o \in Sides /\ o # s /\ Other(o) = s
    BY SideIs
  <1>1. /\ at[s] = "verdict" /\ wire[o] # <<>> /\ at'[s] = "select" /\ Idle(o)
        /\ wire'[s] = wire[s] /\ wire'[o] = Tail(wire[o])
        /\ wave'[s] = wave[s] /\ reading'[s] = reading[s] /\ lost'[s] = lost[s]
        /\ inbox'[s] = inbox[s] /\ heard'[s] = heard[s]
        /\ \/ outbox'[s] = outbox[s] /\ sent'[s] = sent[s]
           \/ outbox'[s] = <<1>> /\ sent'[s] = 1
    BY <1>0, SMTT(30) DEF Typed, Agree, Goes, Get, Arrived, Idle, Knock
  <1>2. outbox[s] = <<>> /\ inbox[s] = <<>> /\ heard[s] = <<>> /\ sent[s] = 0 /\ reading[s] = 0
    BY <1>0, <1>1 DEF Good, Starts, Handshake
  <1>3. Taken(s) = 0 /\ Taken(s)' = 0 /\ \A i \in 1..Len(outbox'[s]) : outbox'[s][i] = i
    <2>1. Len(<<>>) = 0 /\ Len(<<1>>) = 1 /\ <<1>>[1] = 1
      OBVIOUS
    <2>2. Taken(s) = 0
      <3>1. Len(outbox[s]) = 0
        BY <1>2, <2>1
      <3>2. sent[s] = 0
        BY <1>2
      <3> QED
        BY <3>1, <3>2 DEF Taken
    <2>3. Len(outbox'[s]) = sent'[s] /\ sent'[s] \in Nat
          /\ \A i \in 1..Len(outbox'[s]) : i = 1 /\ outbox'[s][1] = 1
      <3>1. CASE outbox'[s] = outbox[s] /\ sent'[s] = sent[s]
        <4>1. Len(outbox'[s]) = 0 /\ sent'[s] = 0
          BY <1>2, <2>1, <3>1
        <4> QED
          BY <4>1
      <3>2. CASE outbox'[s] = <<1>> /\ sent'[s] = 1
        <4>1. Len(outbox'[s]) = 1 /\ sent'[s] = 1 /\ outbox'[s][1] = 1
          BY <2>1, <3>2
        <4> QED
          BY <4>1
      <3> QED
        BY <1>1, <3>1, <3>2
    <2>4. Taken(s)' = 0
      BY <2>3 DEF Taken
    <2> QED
      BY <2>2, <2>3, <2>4
  <1>4. Sends(s)'
    BY <1>0, <1>1, <1>3 DEF Good, Sends
  <1>5. Taken(o) \in Int /\ Taken(o)' = Taken(o)
    BY <1>0, <1>1, SideTypes, IdlePlaces
  <1>6. Sends(o)' /\ Receives(o)' /\ Starts(o)'
    BY <1>1, <1>3, OtherKeeps
  <1>7. Receives(s)'
    BY <1>0, <1>1, <1>5, ReceivesKept DEF Good
  <1>8. Starts(s)'
    BY <1>1 DEF Starts, Handshake
  <1>9. Streams(s)'
    <2>1. Got(s)' = 0
      BY <1>1, <1>2 DEF Got
    <2>2. ReadPlace(s) = 1 /\ ReadPlace(s)' = 2
      BY <1>1, <1>2, <2>1 DEF ReadPlace
    <2> QED
      BY <1>0, <1>1, <2>2, IdlePlaces, StreamsRead DEF Good, Idle
  <1>10. Streams(o)'
    <2>1. WritePlace(s) = 2 /\ WritePlace(s)' = 2
      BY <1>1, <1>3 DEF WritePlace
    <2> QED
      BY <1>0, <1>1, <2>1, IdlePlaces, StreamsKept DEF Good, Idle
  <1>11. Good(s)' /\ Good(o)'
    BY <1>4, <1>6, <1>7, <1>8, <1>9, <1>10 DEF Good
  <1> QED
    BY <1>11, BothGood

LEMMA TakeOutKeeps ==
    ASSUME IInv, NEW s \in Sides, TakeOut(s)
    PROVE  \A x \in Sides : Good(x)'
  <1> USE DEF userVars, connVars
  <1> DEFINE o == Other(s)
             q == outbox[s]
             r == outbox'[s]
             n == Len(q)
             T == Taken(s)
  <1>0. TypeOK /\ Typed /\ Good(s) /\ Good(o) /\ o \in Sides /\ o # s /\ Other(o) = s
    BY SideIs
  <1>1. /\ at[s] = "select" /\ q # <<>> /\ at'[s] = "size" /\ Idle(o) /\ wire' = wire
        /\ r = Tail(q) /\ wave'[s] = Head(q) /\ reading'[s] = 0
        /\ lost'[s] = (lost[s] \/ reading[s] # 0)
        /\ ep'[s] = ep[s] /\ inbox'[s] = inbox[s] /\ sent'[s] = sent[s] /\ heard'[s] = heard[s]
    BY <1>0 DEF Typed, TakeOut, Goes, Idle
  <1>2. q \in Seq(Nat) /\ sent[s] \in Nat /\ T \in Int /\ T = sent[s] - n /\ T' = sent[s] - Len(r)
    BY <1>0, <1>1, SideTypes DEF Taken
  <1>3. /\ n \in Nat \ {0} /\ Len(r) = n - 1 /\ \A i \in 1..n - 1 : r[i] = q[i + 1]
        /\ wave'[s] = q[1]
    BY <1>1, <1>2, Headed
  <1>4. T \in Nat /\ \A i \in 1..n : q[i] = T + i
    BY <1>0 DEF Good, Sends
  <1>5. T' = T + 1 /\ wave'[s] = T + 1 /\ \A i \in 1..Len(r) : r[i] = T + 1 + i
    <2> HIDE DEF n, q, r, T
    <2>1. T' = T + 1 /\ wave'[s] = T + 1
      BY <1>2, <1>3, <1>4
    <2>2. ASSUME NEW i \in 1..Len(r)
          PROVE  r[i] = T + 1 + i
      <3>1. i \in 1..n - 1 /\ i + 1 \in 1..n
        BY <1>3
      <3> QED
        BY <1>3, <1>4, <3>1
    <2> QED
      BY <2>1, <2>2
  <1>6. Sends(s)'
    <2>1. \A i \in 1..Len(wire[s]) : wire[s][i].op \in {"size", "body"} => wire[s][i].arg \in 1..T + 1
      BY <1>0, <1>4 DEF Good, Sends
    <2>2. T + 1 \in Nat /\ T + 1 > 0
      BY <1>4
    <2> HIDE DEF T
    <2>3. \A i \in 1..Len(r) : r[i] = Taken(s)' + i
      BY <1>5 DEF T
    <2> QED
      BY <1>1, <1>5, <2>1, <2>2, <2>3 DEF Sends, T
  <1>7. Sends(o)' /\ Receives(o)' /\ Starts(o)'
    <2>1. Taken(s)' \in Int /\ Taken(s) <= Taken(s)'
      BY <1>2, <1>5
    <2> QED
      BY <1>1, <2>1, OtherKeeps
  <1>8. Got(s)' = Got(s) /\ Taken(o)' = Taken(o) /\ Taken(o) \in Int /\ Got(s) \in Nat
    BY <1>0, <1>1, SideTypes, IdlePlaces DEF Got
  <1>9. Receives(s)'
    <2>1. 0 <= Taken(o)
      BY <1>0, <1>8 DEF Good, Sends
    <2> QED
      BY <1>0, <1>1, <1>8, <2>1 DEF Good, Receives
  <1>10. Starts(s)'
    BY <1>1 DEF Starts, Handshake
  <1>11. Streams(s)'
    <2>1. ~lost'[s] => ~lost[s] /\ ReadPlace(s)' = ReadPlace(s)
      BY <1>1, <1>8 DEF ReadPlace
    <2> QED
      BY <1>0, <1>1, <2>1, IdlePlaces, StreamsKept DEF Good, Idle
  <1>12. Streams(o)'
    <2>1. WritePlace(s) = 2 * T + 2 /\ WritePlace(s)' = 2 * T'
      BY <1>1 DEF WritePlace
    <2>2. WritePlace(s)' = WritePlace(s)
      BY <1>4, <1>5, <2>1
    <2> QED
      BY <1>0, <1>1, <2>2, IdlePlaces, StreamsKept DEF Good, Idle
  <1>13. Good(s)' /\ Good(o)'
    BY <1>6, <1>7, <1>9, <1>10, <1>11, <1>12 DEF Good
  <1> QED
    BY <1>13, BothGood

LEMMA WriteKeeps ==
    ASSUME IInv, NEW s \in Sides, WriteSize(s) \/ WriteBody(s)
    PROVE  \A x \in Sides : Good(x)'
  <1> USE DEF userVars, connVars
  <1> DEFINE o == Other(s)
             u == IF at[s] = "size" THEN Size(wave[s]) ELSE Body(wave[s])
             T == Taken(s)
  <1>0. TypeOK /\ Typed /\ Good(s) /\ Good(o) /\ o \in Sides /\ o # s /\ Other(o) = s
    BY SideIs
  <1>1. /\ \/ at[s] = "size" /\ at'[s] = "body" /\ wave'[s] = wave[s]
           \/ at[s] = "body" /\ at'[s] = "select"
        /\ wire'[s] = Append(wire[s], u) /\ wire'[o] = wire[o] /\ Idle(o)
        /\ reading'[s] = reading[s] /\ lost'[s] = lost[s] /\ ep'[s] = ep[s]
        /\ outbox'[s] = outbox[s] /\ inbox'[s] = inbox[s] /\ sent'[s] = sent[s] /\ heard'[s] = heard[s]
    <2>1. CASE WriteSize(s)
      BY <1>0, <2>1 DEF Typed, WriteSize, Goes, Put, Idle
    <2>2. CASE WriteBody(s)
      BY <1>0, <2>2 DEF Typed, WriteBody, Goes, Put, Idle
    <2> QED
      BY <2>1, <2>2
  <1>2. wave[s] = T /\ T \in Nat /\ T > 0
    BY <1>0, <1>1 DEF Good, Sends
  <1>3. u \in Units /\ u.arg = T /\ u.op = (IF at[s] = "size" THEN "size" ELSE "body")
    BY <1>2, AUnit DEF Size, Body
  <1>4. Place(u) = IF at[s] = "size" THEN 2 * T + 1 ELSE 2 * T + 2
    <2> HIDE DEF u, T
    <2> QED
      BY <1>3, Placed
  <1>5. T \in 1..T
    BY <1>2
  <1> HIDE DEF u
  <1>6. Sends(s)' /\ Taken(s)' = Taken(s)
    BY <1>0, <1>1, <1>3, <1>5, SendsWrite DEF Good
  <1>7. Taken(s) \in Int /\ Taken(o) \in Int /\ Taken(o)' = Taken(o)
    BY <1>0, <1>1, SideTypes, IdlePlaces
  <1>8. Sends(o)' /\ Receives(o)' /\ Starts(o)'
    BY <1>1, <1>6, <1>7, OtherKeeps
  <1>9. Receives(s)'
    BY <1>0, <1>1, <1>7, ReceivesKept DEF Good
  <1>10. Starts(s)'
    BY <1>1 DEF Starts, Handshake
  <1>11. Streams(s)'
    <2>1. Got(s)' = Got(s)
      BY <1>1 DEF Got
    <2>2. ReadPlace(s)' = ReadPlace(s)
      BY <1>1, <2>1 DEF ReadPlace
    <2> QED
      BY <1>0, <1>1, <2>2, IdlePlaces, StreamsKept DEF Good, Idle
  <1>12. Streams(o)'
    <2>1. /\ WritePlace(s) = IF at[s] = "size" THEN 2 * T ELSE 2 * T + 1
          /\ WritePlace(s)' = IF at[s] = "size" THEN 2 * T + 1 ELSE 2 * T + 2
      BY <1>1, <1>6 DEF WritePlace
    <2>2. Place(u) = WritePlace(s) + 1 /\ WritePlace(s)' = WritePlace(s) + 1
      <3> HIDE DEF T
      <3> QED
        BY <1>2, <1>4, <2>1
    <2> QED
      BY <1>0, <1>1, <1>3, <2>2, IdlePlaces, StreamsWrite DEF Good, Idle
  <1>13. Good(s)' /\ Good(o)'
    BY <1>6, <1>8, <1>9, <1>10, <1>11, <1>12 DEF Good
  <1> QED
    BY <1>13, BothGood

LEMMA ReadSizeKeeps ==
    ASSUME IInv, NEW s \in Sides, ReadSize(s)
    PROVE  \A x \in Sides : Good(x)'
  <1> USE DEF userVars
  <1> DEFINE o == Other(s)
             u == wire[o][1]
             G == Got(s)
             T == Taken(o)
  <1>0. TypeOK /\ Typed /\ Good(s) /\ Good(o) /\ o \in Sides /\ o # s /\ Other(o) = s
    BY SideIs
  <1>1. wire[o] \in Seq(Units) /\ wire[o] # <<>>
    BY <1>0 DEF Typed, ReadSize, Arrived
  <1>2. u \in Units /\ u = Head(wire[o]) /\ 1 \in 1..Len(wire[o])
    BY <1>1, Headed
  <1>3. /\ at[s] = "select" /\ at' = at /\ ~lost[s] /\ reading[s] = 0 /\ Idle(o)
        /\ wire'[o] = Tail(wire[o]) /\ wire'[s] = wire[s] /\ reading'[s] = u.arg /\ u.op = "size"
        /\ wave'[s] = wave[s] /\ lost'[s] = lost[s] /\ ep'[s] = ep[s]
        /\ outbox'[s] = outbox[s] /\ inbox'[s] = inbox[s] /\ sent'[s] = sent[s] /\ heard'[s] = heard[s]
    BY <1>0, <1>2 DEF Typed, ReadSize, Get, Next1, Idle
  <1>4. ReadPlace(s) = 2 * G + 2 /\ G \in Nat /\ T \in Int
    BY <1>0, <1>3, SideTypes DEF ReadPlace
  <1>5. Place(u) = ReadPlace(s) + 1
    BY <1>0, <1>2, <1>3 DEF Good, Streams
  <1>6. u.arg = G + 1 /\ u.arg \in Nat
    <2> HIDE DEF u, G
    <2> QED
      BY <1>2, <1>3, <1>4, <1>5, Placed
  <1>7. u.arg \in 1..T
    BY <1>0, <1>2, <1>3 DEF Good, Sends
  <1> HIDE DEF u
  <1>8. Got(s)' = Got(s) /\ Taken(o)' = Taken(o) /\ Taken(s)' = Taken(s) /\ Taken(s) \in Int
    BY <1>0, <1>3, IdlePlaces, SideTypes DEF Got, Taken
  <1>9. Sends(o)' /\ Receives(o)' /\ Starts(o)'
    BY <1>1, <1>3, <1>8, OtherKeeps
  <1>10. Sends(s)'
    BY <1>0, <1>3, SendsKept DEF Good
  <1>11. Receives(s)'
    BY <1>0, <1>3, <1>4, <1>6, <1>7, <1>8 DEF Good, Receives
  <1>12. Starts(s)'
    BY <1>3 DEF Starts, Handshake
  <1>13. Streams(s)'
    <2>1. ReadPlace(s)' = 2 * G + 2 + 1
      BY <1>3, <1>4, <1>6, <1>8 DEF ReadPlace
    <2>2. ReadPlace(s)' = ReadPlace(s) + 1
      BY <1>4, <2>1
    <2> QED
      BY <1>0, <1>1, <1>3, <2>2, IdlePlaces, StreamsRead DEF Good, Idle
  <1>14. Streams(o)'
    <2>1. WritePlace(s)' = WritePlace(s)
      BY <1>3, <1>8 DEF WritePlace
    <2> QED
      BY <1>0, <1>3, <2>1, IdlePlaces, StreamsKept DEF Good, Idle
  <1>15. Good(s)' /\ Good(o)'
    BY <1>9, <1>10, <1>11, <1>12, <1>13, <1>14 DEF Good
  <1> QED
    BY <1>15, BothGood

LEMMA ReadBodyKeeps ==
    ASSUME IInv, NEW s \in Sides, ReadBody(s)
    PROVE  \A x \in Sides : Good(x)'
  <1> USE DEF userVars
  <1> DEFINE o == Other(s)
             G == Got(s)
             T == Taken(o)
  <1>0. TypeOK /\ Typed /\ Good(s) /\ Good(o) /\ o \in Sides /\ o # s /\ Other(o) = s
    BY SideIs
  <1>1. wire[o] \in Seq(Units) /\ wire[o] # <<>>
    BY <1>0 DEF Typed, ReadBody, Arrived
  <1>3. /\ at[s] = "select" /\ at'[s] = "hand" /\ reading[s] # 0 /\ Idle(o)
        /\ wire'[o] = Tail(wire[o]) /\ wire'[s] = wire[s] /\ reading'[s] = 0
        /\ wave'[s] = reading[s] /\ lost'[s] = lost[s] /\ ep'[s] = ep[s]
        /\ outbox'[s] = outbox[s] /\ inbox'[s] = inbox[s] /\ sent'[s] = sent[s] /\ heard'[s] = heard[s]
    BY <1>0 DEF Typed, ReadBody, Get, Goes, Idle
  <1>4. ReadPlace(s) = 2 * G + 2 + 1 /\ G \in Nat /\ T \in Int
    BY <1>0, <1>3, SideTypes DEF ReadPlace
  <1>5. reading[s] = G + 1 /\ reading[s] <= T
    BY <1>0, <1>3 DEF Good, Receives
  <1>8. Got(s)' = G + 1 /\ Taken(o)' = Taken(o) /\ Taken(s)' = Taken(s) /\ Taken(s) \in Int
    <2>1. Taken(o)' = Taken(o) /\ Taken(s)' = Taken(s) /\ Taken(s) \in Int
      BY <1>0, <1>3, IdlePlaces, SideTypes DEF Taken
    <2>2. Got(s)' = Len(heard[s]) + Len(inbox[s]) + 1 /\ G = Len(heard[s]) + Len(inbox[s]) + 0
      BY <1>3 DEF Got
    <2>3. Len(heard[s]) \in Nat /\ Len(inbox[s]) \in Nat
      BY <1>0, SideTypes
    <2> QED
      BY <2>1, <2>2, <2>3
  <1>9. Sends(o)' /\ Receives(o)' /\ Starts(o)'
    BY <1>1, <1>3, <1>8, OtherKeeps
  <1>10. Sends(s)'
    BY <1>0, <1>3, SendsKept DEF Good
  <1>11. Receives(s)'
    <2>1. 0 <= T
      BY <1>0 DEF Good, Sends
    <2>2. Got(s)' <= Taken(o)' /\ reading'[s] <= Taken(o)'
      BY <1>3, <1>4, <1>5, <1>8, <2>1
    <2>3. wave'[s] = Got(s)'
      BY <1>3, <1>5, <1>8
    <2> QED
      BY <1>0, <1>3, <2>2, <2>3 DEF Good, Receives
  <1>12. Starts(s)'
    BY <1>3 DEF Starts, Handshake
  <1>13. Streams(s)'
    <2>1. ReadPlace(s)' = 2 * (G + 1) + 2 + 0
      BY <1>3, <1>8 DEF ReadPlace
    <2>2. ReadPlace(s)' = ReadPlace(s) + 1
      <3> HIDE DEF G
      <3> QED
        BY <1>4, <2>1
    <2> QED
      BY <1>0, <1>1, <1>3, <2>2, IdlePlaces, StreamsRead DEF Good, Idle
  <1>14. Streams(o)'
    <2>1. WritePlace(s)' = WritePlace(s)
      BY <1>3, <1>8 DEF WritePlace
    <2> QED
      BY <1>0, <1>3, <2>1, IdlePlaces, StreamsKept DEF Good, Idle
  <1>15. Good(s)' /\ Good(o)'
    BY <1>9, <1>10, <1>11, <1>12, <1>13, <1>14 DEF Good
  <1> QED
    BY <1>15, BothGood

LEMMA ReadJunkKeeps ==
    ASSUME IInv, NEW s \in Sides, ReadJunk(s)
    PROVE  \A x \in Sides : Good(x)'
  <1> USE DEF userVars
  <1> DEFINE o == Other(s)
  <1>0. TypeOK /\ Typed /\ Good(s) /\ Good(o) /\ o \in Sides /\ o # s /\ Other(o) = s
    BY SideIs
  <1>1. wire[o] \in Seq(Units) /\ wire[o] # <<>>
    BY <1>0 DEF Typed, ReadJunk, Arrived
  <1>3. /\ at[s] = "select" /\ at'[s] \in {"select", "over"} /\ lost[s] /\ Idle(o)
        /\ wire'[o] = Tail(wire[o]) /\ wire'[s] = wire[s] /\ reading'[s] = reading[s]
        /\ wave'[s] = wave[s] /\ lost'[s] = lost[s] /\ ep'[s] = ep[s]
        /\ outbox'[s] = outbox[s] /\ inbox'[s] = inbox[s] /\ sent'[s] = sent[s] /\ heard'[s] = heard[s]
    BY <1>0 DEF Typed, ReadJunk, Get, Goes, Idle
  <1>8. /\ Taken(o)' = Taken(o) /\ Taken(s)' = Taken(s)
        /\ Taken(s) \in Int /\ Taken(o) \in Int
    BY <1>0, <1>3, IdlePlaces, SideTypes DEF Taken
  <1>9. Sends(o)' /\ Receives(o)' /\ Starts(o)'
    BY <1>1, <1>3, <1>8, OtherKeeps
  <1>10. Sends(s)'
    BY <1>0, <1>3, SendsKept DEF Good
  <1>11. Receives(s)'
    <2>1. at[s] \notin {"hand", "size", "body"} /\ at'[s] \notin {"hand", "size", "body"}
      BY <1>3
    <2>2. Taken(o)' \in Int /\ Taken(o) <= Taken(o)'
      BY <1>8
    <2> QED
      BY <1>0, <1>3, <2>1, <2>2, ReceivesKept DEF Good
  <1>12. Starts(s)'
    BY <1>3 DEF Starts, Handshake
  <1>13. Streams(s)'
    BY <1>3 DEF Streams
  <1>14. Streams(o)'
    <2>1. at'[s] # "over" => WritePlace(s)' = WritePlace(s)
      BY <1>3, <1>8 DEF WritePlace
    <2> QED
      BY <1>0, <1>3, <2>1, IdlePlaces, StreamsKept DEF Good, Idle
  <1>15. Good(s)' /\ Good(o)'
    BY <1>9, <1>10, <1>11, <1>12, <1>13, <1>14 DEF Good
  <1> QED
    BY <1>15, BothGood

LEMMA HandKeeps ==
    ASSUME IInv, NEW s \in Sides, Hand(s)
    PROVE  \A x \in Sides : Good(x)'
  <1> USE DEF userVars, connVars
  <1> DEFINE o == Other(s)
             q == inbox[s]
             r == inbox'[s]
             n == Len(q)
             h == Len(heard[s])
  <1>0. TypeOK /\ Typed /\ Good(s) /\ Good(o) /\ o \in Sides /\ o # s /\ Other(o) = s
    BY SideIs
  <1>1. CASE ep[s] = "dropped"
    <2>1. Goes(s, "over") /\ Idle(o)
      BY <1>0, <1>1 DEF Hand, Typed, Goes, Idle
    <2> QED
      BY <1>1, <2>1, OverKeeps DEF Hand
  <1>2. CASE ep[s] # "dropped"
    <2>1. /\ at[s] = "hand" /\ at'[s] = "select" /\ r = Append(q, wave[s]) /\ Idle(o) /\ wire' = wire
          /\ reading'[s] = reading[s] /\ lost'[s] = lost[s] /\ ep'[s] = ep[s]
          /\ outbox'[s] = outbox[s] /\ sent'[s] = sent[s] /\ heard'[s] = heard[s]
      BY <1>0, <1>2 DEF Typed, Hand, Goes, Idle
    <2>2. q \in Seq(Nat) /\ wave[s] \in Nat /\ h \in Nat
      BY <1>0, SideTypes
    <2>3. n \in Nat /\ Len(r) = n + 1 /\ r[n + 1] = wave[s] /\ \A i \in 1..n : r[i] = q[i]
      <3> HIDE DEF q, r
      <3> QED
        BY <2>1, <2>2, Appended
    <2>4. Got(s) = h + n + 1 /\ Got(s)' = h + Len(r) + 0
      BY <2>1 DEF Got
    <2>5. Got(s)' = Got(s) /\ wave[s] = h + n + 1 /\ reading[s] = 0
      <3>1. Got(s)' = h + n + 1
        <4> HIDE DEF q, r, n, h
        <4> QED
          BY <2>2, <2>3, <2>4
      <3> QED
        BY <1>0, <2>1, <2>4, <3>1 DEF Good, Receives
    <2>6. /\ Taken(o)' = Taken(o) /\ Taken(s)' = Taken(s)
          /\ Taken(s) \in Int /\ Taken(o) \in Int
      BY <1>0, <2>1, IdlePlaces, SideTypes DEF Taken
    <2>7. Sends(o)' /\ Receives(o)' /\ Starts(o)'
      BY <2>1, <2>6, OtherKeeps
    <2>8. Sends(s)'
      BY <1>0, <2>1, SendsKept DEF Good
    <2>9. Receives(s)'
      <3>1. \A i \in 1..n : q[i] = h + i
        BY <1>0 DEF Good, Receives
      <3>2. \A i \in 1..Len(r) : r[i] = h + i
        <4> HIDE DEF q, r, n, h
        <4>1. ASSUME NEW i \in 1..Len(r)
              PROVE  r[i] = h + i
          <5>1. CASE i = n + 1
            BY <2>2, <2>3, <2>5, <5>1
          <5>2. CASE i # n + 1
            BY <2>3, <3>1, <5>2
          <5> QED
            BY <5>1, <5>2
        <4> QED
          BY <4>1
      <3> QED
        BY <1>0, <2>1, <2>5, <2>6, <3>2 DEF Good, Receives
    <2>10. Starts(s)'
      BY <2>1 DEF Starts, Handshake
    <2>11. Streams(s)'
      <3>1. ReadPlace(s)' = ReadPlace(s)
        BY <2>1, <2>5 DEF ReadPlace
      <3> QED
        BY <1>0, <2>1, <3>1, IdlePlaces, StreamsKept DEF Good, Idle
    <2>12. Streams(o)'
      <3>1. WritePlace(s)' = WritePlace(s)
        BY <2>1, <2>6 DEF WritePlace
      <3> QED
        BY <1>0, <2>1, <3>1, IdlePlaces, StreamsKept DEF Good, Idle
    <2>13. Good(s)' /\ Good(o)'
      BY <2>7, <2>8, <2>9, <2>10, <2>11, <2>12 DEF Good
    <2> QED
      BY <2>13, BothGood
  <1> QED
    BY <1>1, <1>2

-----------------------------------------------------------------------------
(* The endpoints' users.                                                   *)

\* A user sends, hears, or leaves: what happens at one side.
Sending(s) ==
    /\ outbox' = [outbox EXCEPT ![s] = Append(outbox[s], sent[s] + 1)]
    /\ sent' = [sent EXCEPT ![s] = sent[s] + 1]
    /\ UNCHANGED <<connVars, muxVars, inbox, ep, heard>>
Hearing(s) ==
    /\ Hears(s)
    /\ ep' = ep \/ ep' = [ep EXCEPT ![s] = "dropped"]
    /\ UNCHANGED <<connVars, muxVars, outbox, sent>>
Leaving(s) ==
    /\ ep' = ep \/ ep' = [ep EXCEPT ![s] = "dropped"]
    /\ UNCHANGED <<connVars, muxVars, outbox, inbox, sent, heard>>

LEMMA SendingKeeps ==
    ASSUME IInv, NEW s \in Sides, Sending(s), at[s] \notin Handshake
    PROVE  \A x \in Sides : Good(x)'
  <1> USE DEF connVars, muxVars
  <1> DEFINE o == Other(s)
  <1>0. TypeOK /\ Typed /\ Good(s) /\ Good(o) /\ o \in Sides /\ o # s /\ Other(o) = s
    BY SideIs
  <1>1. /\ at' = at /\ wire' = wire /\ Idle(o) /\ ep' = ep
        /\ outbox'[s] = Append(outbox[s], sent[s] + 1) /\ sent'[s] = sent[s] + 1
        /\ wave'[s] = wave[s] /\ reading'[s] = reading[s] /\ lost'[s] = lost[s]
        /\ inbox'[s] = inbox[s] /\ heard'[s] = heard[s]
    BY <1>0 DEF Typed, Sending, Idle
  <1>2. Sends(s)' /\ Taken(s)' = Taken(s)
    BY <1>0, <1>1, SendsMore DEF Good
  <1>3. Taken(s) \in Int /\ Taken(o) \in Int /\ Taken(o)' = Taken(o)
    BY <1>0, <1>1, SideTypes, IdlePlaces
  <1>4. Sends(o)' /\ Receives(o)' /\ Starts(o)'
    BY <1>1, <1>2, <1>3, OtherKeeps
  <1>5. Receives(s)'
    BY <1>0, <1>1, <1>3, ReceivesKept DEF Good
  <1>6. Starts(s)'
    BY <1>1 DEF Starts
  <1>7. Streams(s)'
    <2>1. Got(s)' = Got(s)
      BY <1>1 DEF Got
    <2>2. ReadPlace(s)' = ReadPlace(s)
      BY <1>1, <2>1 DEF ReadPlace
    <2> QED
      BY <1>0, <1>1, <2>2, IdlePlaces, StreamsKept DEF Good, Idle
  <1>8. Streams(o)'
    <2>1. WritePlace(s)' = WritePlace(s)
      BY <1>1, <1>2 DEF WritePlace
    <2> QED
      BY <1>0, <1>1, <2>1, IdlePlaces, StreamsKept DEF Good, Idle
  <1>9. Good(s)' /\ Good(o)'
    BY <1>2, <1>4, <1>5, <1>6, <1>7, <1>8 DEF Good
  <1> QED
    BY <1>9, BothGood

LEMMA HearingKeeps ==
    ASSUME IInv, NEW s \in Sides, Hearing(s), at[s] \notin Handshake
    PROVE  \A x \in Sides : Good(x)'
  <1> USE DEF connVars, muxVars
  <1> DEFINE o == Other(s)
             q == inbox[s]
             r == inbox'[s]
             n == Len(q)
             l == heard[s]
             k == heard'[s]
             h == Len(l)
             e == Head(q)
  <1>0. TypeOK /\ Typed /\ Good(s) /\ Good(o) /\ o \in Sides /\ o # s /\ Other(o) = s
    BY SideIs
  <1>1. /\ at' = at /\ wire' = wire /\ Idle(o) /\ q # <<>>
        /\ r = Tail(q) /\ k = Append(l, e)
        /\ wave'[s] = wave[s] /\ reading'[s] = reading[s] /\ lost'[s] = lost[s]
        /\ outbox'[s] = outbox[s] /\ sent'[s] = sent[s]
    BY <1>0 DEF Typed, Hearing, Hears, Idle
  <1>2. q \in Seq(Nat) /\ l \in Seq(Nat)
    BY <1>0, SideTypes
  <1>3. /\ n \in Nat \ {0} /\ Len(r) = n - 1 /\ (\A i \in 1..n - 1 : r[i] = q[i + 1])
        /\ e = q[1] /\ e \in Nat
    <2> HIDE DEF q, r, l, k
    <2> QED
      BY <1>1, <1>2, Headed
  <1>4. h \in Nat /\ Len(k) = h + 1 /\ k[h + 1] = e /\ \A i \in 1..h : k[i] = l[i]
    <2> HIDE DEF q, l, k, e
    <2> QED
      BY <1>1, <1>2, <1>3, Appended
  <1>5. Got(s)' = Got(s)
    <2>1. /\ Got(s) = h + n + IF at[s] = "hand" THEN 1 ELSE 0
          /\ Got(s)' = Len(k) + Len(r) + IF at[s] = "hand" THEN 1 ELSE 0
      BY <1>1 DEF Got
    <2>2. Len(k) + Len(r) = h + n
      <3> HIDE DEF q, r, l, k, e, n, h
      <3> QED
        BY <1>3, <1>4
    <2> HIDE DEF q, r, l, k, e, n, h
    <2>3. CASE at[s] = "hand"
      BY <1>3, <1>4, <2>1, <2>2, <2>3
    <2>4. CASE at[s] # "hand"
      BY <1>3, <1>4, <2>1, <2>2, <2>4
    <2> QED
      BY <2>3, <2>4
  <1>6. /\ Taken(s) \in Int /\ Taken(o) \in Int /\ Taken(o)' = Taken(o) /\ Taken(s)' = Taken(s)
    BY <1>0, <1>1, SideTypes, IdlePlaces DEF Taken
  <1>7. Sends(o)' /\ Receives(o)' /\ Starts(o)'
    BY <1>1, <1>6, OtherKeeps
  <1>8. Sends(s)'
    BY <1>0, <1>1, SendsKept DEF Good
  <1>9. Receives(s)'
    <2>1. (\A i \in 1..n : q[i] = h + i) /\ (\A i \in 1..h : l[i] = i)
      BY <1>0 DEF Good, Receives
    <2>2. (\A i \in 1..Len(k) : k[i] = i) /\ (\A i \in 1..Len(r) : r[i] = Len(k) + i)
      <3> HIDE DEF q, r, l, k, e, n, h
      <3>1. ASSUME NEW i \in 1..Len(k)
            PROVE  k[i] = i
        <4>1. CASE i = h + 1
          <5>1. 1 \in 1..n
            BY <1>3
          <5> QED
            BY <1>3, <1>4, <2>1, <4>1, <5>1
        <4>2. CASE i # h + 1
          BY <1>4, <2>1, <4>2
        <4> QED
          BY <4>1, <4>2
      <3>2. ASSUME NEW i \in 1..Len(r)
            PROVE  r[i] = Len(k) + i
        <4>1. i \in 1..n - 1 /\ i + 1 \in 1..n
          BY <1>3
        <4>2. r[i] = h + (i + 1)
          BY <1>3, <2>1, <4>1
        <4> QED
          BY <1>4, <4>2
      <3> QED
        BY <3>1, <3>2
    <2> QED
      BY <1>0, <1>1, <1>5, <1>6, <2>2 DEF Good, Receives
  <1>10. Starts(s)'
    BY <1>1 DEF Starts
  <1>11. Streams(s)'
    <2>1. ReadPlace(s)' = ReadPlace(s)
      BY <1>1, <1>5 DEF ReadPlace
    <2> QED
      BY <1>0, <1>1, <2>1, IdlePlaces, StreamsKept DEF Good, Idle
  <1>12. Streams(o)'
    <2>1. WritePlace(s)' = WritePlace(s)
      BY <1>1, <1>6 DEF WritePlace
    <2> QED
      BY <1>0, <1>1, <2>1, IdlePlaces, StreamsKept DEF Good, Idle
  <1>13. Good(s)' /\ Good(o)'
    BY <1>7, <1>8, <1>9, <1>10, <1>11, <1>12 DEF Good
  <1> QED
    BY <1>13, BothGood

LEMMA LeavingKeeps ==
    ASSUME IInv, NEW s \in Sides, Leaving(s), at[s] \notin Handshake \/ ep' = ep
    PROVE  \A x \in Sides : Good(x)'
  <1> USE DEF connVars, muxVars
  <1>1. /\ at' = at /\ wire' = wire /\ wave' = wave /\ reading' = reading /\ lost' = lost
        /\ outbox' = outbox /\ inbox' = inbox /\ sent' = sent /\ heard' = heard
    BY DEF Leaving
  <1> SUFFICES ASSUME NEW x \in Sides
               PROVE  Good(x)'
    OBVIOUS
  <1>2. Typed /\ Good(x)
    BY SideIs
  <1>3. at[x] \in Handshake => ep'[x] = ep[x]
    BY <1>2 DEF Typed, Leaving
  <1>4. Sends(x)' /\ Receives(x)'
    BY <1>1, <1>2 DEF Good, Sends, Receives, Taken, Got
  <1>5. Streams(x)'
    BY <1>1, <1>2 DEF Good, Streams, ReadPlace, WritePlace, Taken, Got
  <1>6. Starts(x)'
    BY <1>1, <1>2, <1>3 DEF Good, Starts
  <1> QED
    BY <1>4, <1>5, <1>6 DEF Good

-----------------------------------------------------------------------------
(* Every step.                                                             *)

MuxStep(s) ==
    \/ Hello(s) \/ Compare(s) \/ Agree(s) \/ HandshakeFails(s) \/ Mux(s) \/ Break(s)
UserStep ==
    \/ ClientSends \/ ClientHears \/ ClientLeaves
    \/ ServerReceives \/ NoKnock \/ GateAnswers \/ PumpIn \/ PumpOut \/ Replaced

LEMMA GoodMux ==
    ASSUME IInv, NEW s \in Sides, MuxStep(s)
    PROVE  \A x \in Sides : Good(x)'
  <1> USE DEF userVars, connVars
  <1>1. CASE HandshakeFails(s) \/ WriteFails(s) \/ ReadFails(s) \/ Break(s) \/ Terminated(s)
    <2>1. /\ Goes(s, "over") /\ wire' = wire /\ wave' = wave /\ reading' = reading /\ lost' = lost
          /\ ep' = ep /\ outbox' = outbox /\ inbox' = inbox /\ sent' = sent /\ heard' = heard
      BY <1>1 DEF HandshakeFails, WriteFails, ReadFails, Break, Terminated
    <2>2. Idle(Other(s))
      BY <2>1, SideIs DEF Typed, Goes, Idle
    <2> QED
      BY <2>1, <2>2, OverKeeps
  <1>2. CASE Hello(s)
    BY <1>2, HelloKeeps
  <1>3. CASE Compare(s)
    BY <1>3, CompareKeeps
  <1>4. CASE Agree(s)
    BY <1>4, AgreeKeeps
  <1>5. CASE TakeOut(s)
    BY <1>5, TakeOutKeeps
  <1>6. CASE WriteSize(s) \/ WriteBody(s)
    BY <1>6, WriteKeeps
  <1>7. CASE ReadSize(s)
    BY <1>7, ReadSizeKeeps
  <1>8. CASE ReadBody(s)
    BY <1>8, ReadBodyKeeps
  <1>9. CASE ReadJunk(s)
    BY <1>9, ReadJunkKeeps
  <1>10. CASE Hand(s)
    BY <1>10, HandKeeps
  <1> QED
    BY <1>1, <1>2, <1>3, <1>4, <1>5, <1>6, <1>7, <1>8, <1>9, <1>10 DEF MuxStep, Mux, Read, Write

LEMMA GoodUser ==
    ASSUME IInv, UserStep
    PROVE  \A x \in Sides : Good(x)'
  <1> USE DEF userVars, connVars, muxVars
  <1>0. "client" \in Sides /\ "server" \in Sides
    BY DEF Sides
  <1>1. \A x \in Sides : ep[x] # "none" => at[x] \notin Handshake
    BY SideIs DEF Good, Starts
  <1>2. session # "none" => ep["server"] # "none"
    BY DEF IInv
  <1>3. CASE ClientSends
    <2>1. Sending("client") /\ at["client"] \notin Handshake
      BY <1>0, <1>1, <1>3 DEF ClientSends, Sending
    <2> QED
      BY <1>0, <2>1, SendingKeeps
  <1>4. CASE ClientHears
    <2>1. Hearing("client") /\ at["client"] \notin Handshake
      BY <1>0, <1>1, <1>4 DEF ClientHears, Hearing
    <2> QED
      BY <1>0, <2>1, HearingKeeps
  <1>5. CASE ClientLeaves
    <2>1. Leaving("client") /\ at["client"] \notin Handshake
      BY <1>0, <1>1, <1>5 DEF ClientLeaves, Leaves, Leaving
    <2> QED
      BY <1>0, <2>1, LeavingKeeps
  <1>6. CASE ServerReceives
    <2>1. Hearing("server") /\ at["server"] \notin Handshake
      BY <1>0, <1>1, <1>6 DEF ServerReceives, Hearing, Leaves
    <2> QED
      BY <1>0, <2>1, HearingKeeps
  <1>7. CASE NoKnock \/ GateAnswers \/ Replaced
    <2>1. Leaving("server") /\ at["server"] \notin Handshake
      BY <1>0, <1>1, <1>2, <1>7 DEF NoKnock, GateAnswers, Replaced, Leaves, Leaving
    <2> QED
      BY <1>0, <2>1, LeavingKeeps
  <1>8. CASE PumpIn
    <2>1. at["server"] \notin Handshake
      BY <1>0, <1>1, <1>8 DEF PumpIn
    <2>2. Hearing("server") \/ Leaving("server")
      BY <1>8 DEF PumpIn, Hearing, Leaves, Leaving
    <2> QED
      BY <1>0, <2>1, <2>2, HearingKeeps, LeavingKeeps
  <1>9. CASE PumpOut
    <2>1. at["server"] \notin Handshake
      BY <1>0, <1>1, <1>2, <1>9 DEF PumpOut
    <2>2. Sending("server") \/ Leaving("server")
      BY <1>9 DEF PumpOut, Sending, Leaving
    <2> QED
      BY <1>0, <2>1, <2>2, SendingKeeps, LeavingKeeps
  <1> QED
    BY <1>3, <1>4, <1>5, <1>6, <1>7, <1>8, <1>9 DEF UserStep

LEMMA TypeMux ==
    ASSUME IInv, NEW s \in Sides, MuxStep(s)
    PROVE  TypeOK'
  <1> USE DEF userVars, connVars
  <1> DEFINE o == Other(s)
  <1>0. /\ Typed /\ o \in Sides /\ o # s /\ version[s] \in Versions /\ wave[s] \in Nat
        /\ wire[s] \in Seq(Units) /\ wire[o] \in Seq(Units) /\ outbox[s] \in Seq(Nat)
        /\ inbox[s] \in Seq(Nat)
    BY SideIs, SideTypes
  <1> SUFFICES Typed'
    BY TypedIs
  <1>1. CASE HandshakeFails(s) \/ WriteFails(s) \/ ReadFails(s) \/ Break(s) \/ Terminated(s)
    BY <1>0, <1>1 DEF Typed, HandshakeFails, WriteFails, ReadFails, Break, Terminated, Goes, Ats
  <1>2. CASE Hello(s)
    <2>1. Append(wire[s], Version(version[s])) \in Seq(Units)
      BY <1>0, AUnit, Appended
    <2> QED
      BY <1>0, <1>2, <2>1 DEF Typed, Hello, Goes, Put, Ats
  <1>3. CASE Compare(s)
    <2> DEFINE u == Verdict(Next1(s).arg = version[s])
    <2>1. Append(wire[s], u) \in Seq(Units) /\ Tail(wire[o]) \in Seq(Units)
      BY <1>0, <1>3, AUnit, Appended, Headed DEF Compare, Arrived
    <2>2. wire' = [wire EXCEPT ![o] = Tail(wire[o]), ![s] = Append(wire[s], u)]
      BY <1>0, <1>3 DEF Compare
    <2> HIDE DEF u
    <2>3. wire' \in [Sides -> Seq(Units)]
      BY <1>0, <2>1, <2>2 DEF Typed
    <2> QED
      BY <1>0, <1>3, <2>3 DEF Typed, Compare, Goes, Ats
  <1>4. CASE Agree(s)
    <2>1. Tail(wire[o]) \in Seq(Units) /\ <<1>> \in Seq(Nat)
      BY <1>0, <1>4, Headed DEF Agree, Arrived
    <2>2. wire' \in [Sides -> Seq(Units)]
      BY <1>0, <1>4, <2>1 DEF Typed, Agree, Get
    <2>3. outbox' \in [Sides -> Seq(Nat)] /\ sent' \in [Sides -> Nat]
      <3>1. \/ outbox' = outbox /\ sent' = sent
            \/ outbox' = [outbox EXCEPT ![s] = <<1>>] /\ sent' = [sent EXCEPT ![s] = 1]
        BY <1>4 DEF Agree, Knock
      <3>2. outbox \in [Sides -> Seq(Nat)] /\ sent \in [Sides -> Nat] /\ <<1>> \in Seq(Nat)
        BY <1>0, <2>1 DEF Typed
      <3>3. outbox' \in [Sides -> Seq(Nat)]
        BY <3>1, <3>2
      <3>4. sent' \in [Sides -> Nat]
        BY <3>1, <3>2
      <3> QED
        BY <3>3, <3>4
    <2> QED
      BY <1>0, <1>4, <2>2, <2>3 DEF Typed, Agree, Goes, Ats
  <1>5. CASE TakeOut(s)
    <2>1. Head(outbox[s]) \in Nat /\ Tail(outbox[s]) \in Seq(Nat)
      BY <1>0, <1>5, Headed DEF TakeOut
    <2> QED
      BY <1>0, <1>5, <2>1 DEF Typed, TakeOut, Goes, Ats
  <1>6. CASE WriteSize(s)
    <2>1. Append(wire[s], Size(wave[s])) \in Seq(Units)
      BY <1>0, AUnit, Appended
    <2> QED
      BY <1>0, <1>6, <2>1 DEF Typed, WriteSize, Goes, Put, Ats
  <1>7. CASE WriteBody(s)
    <2>1. Append(wire[s], Body(wave[s])) \in Seq(Units)
      BY <1>0, AUnit, Appended
    <2> QED
      BY <1>0, <1>7, <2>1 DEF Typed, WriteBody, Goes, Put, Ats
  <1>8. CASE ReadSize(s)
    <2>1. Head(wire[o]) \in Units /\ Tail(wire[o]) \in Seq(Units)
      BY <1>0, <1>8, Headed DEF ReadSize, Arrived
    <2>2. Next1(s).arg \in Nat
      BY <1>8, <2>1, Placed DEF ReadSize, Next1
    <2> QED
      BY <1>0, <1>8, <2>1, <2>2 DEF Typed, ReadSize, Get
  <1>9. CASE ReadBody(s) \/ ReadJunk(s)
    <2>1. Tail(wire[o]) \in Seq(Units)
      BY <1>0, <1>9, Headed DEF ReadBody, ReadJunk, Arrived
    <2>2. wire' \in [Sides -> Seq(Units)]
      BY <1>0, <1>9, <2>1 DEF Typed, ReadBody, ReadJunk, Get
    <2>3. CASE ReadBody(s)
      BY <1>0, <2>2, <2>3 DEF Typed, ReadBody, Goes, Ats
    <2>4. CASE ReadJunk(s)
      BY <1>0, <2>2, <2>4 DEF Typed, ReadJunk, Goes, Ats
    <2> QED
      BY <1>9, <2>3, <2>4
  <1>10. CASE Hand(s)
    <2>1. Append(inbox[s], wave[s]) \in Seq(Nat)
      BY <1>0, Appended
    <2> QED
      <3>1. CASE ep[s] = "dropped"
        BY <1>0, <1>10, <3>1 DEF Typed, Hand, Goes, Ats
      <3>2. CASE ep[s] # "dropped"
        <4>1. inbox' \in [Sides -> Seq(Nat)]
          BY <1>0, <1>10, <2>1, <3>2 DEF Typed, Hand
        <4> QED
          <5>1. /\ at' = [at EXCEPT ![s] = "select"] /\ wave' = [wave EXCEPT ![s] = 0]
                /\ UNCHANGED <<version, wire, reading, lost, ep, sent, heard, session, outbox>>
            BY <1>10, <3>2 DEF Hand, Goes
          <5>2. at' \in [Sides -> Ats] /\ wave' \in [Sides -> Nat]
            BY <1>0, <5>1 DEF Typed, Ats
          <5> QED
            BY <1>0, <4>1, <5>1, <5>2 DEF Typed
      <3> QED
        BY <3>1, <3>2
  <1> QED
    BY <1>1, <1>2, <1>3, <1>4, <1>5, <1>6, <1>7, <1>8, <1>9, <1>10 DEF MuxStep, Mux, Read, Write

LEMMA TypeUser ==
    ASSUME IInv, UserStep
    PROVE  TypeOK'
  <1> USE DEF userVars, connVars, muxVars
  <1>0. /\ Typed /\ "client" \in Sides /\ "server" \in Sides
        /\ \A s \in Sides : /\ outbox[s] \in Seq(Nat) /\ inbox[s] \in Seq(Nat)
                            /\ sent[s] \in Nat /\ heard[s] \in Seq(Nat)
    BY SideIs, SideTypes DEF Sides
  <1>1. \A s \in Sides : Append(outbox[s], sent[s] + 1) \in Seq(Nat) /\ sent[s] + 1 \in Nat
    BY <1>0
  <1>2. ASSUME NEW s \in Sides, Hears(s)
        PROVE  inbox' \in [Sides -> Seq(Nat)] /\ heard' \in [Sides -> Seq(Nat)]
    <2>1. Head(inbox[s]) \in Nat /\ Tail(inbox[s]) \in Seq(Nat)
      BY <1>0, <1>2, Headed DEF Hears
    <2>2. Append(heard[s], Head(inbox[s])) \in Seq(Nat)
      BY <1>0, <2>1, Appended
    <2> QED
      BY <1>0, <1>2, <2>1, <2>2 DEF Typed, Hears
  <1> SUFFICES Typed'
    BY TypedIs
  <1>3. CASE ClientSends
    BY <1>0, <1>1, <1>3 DEF Typed, ClientSends
  <1>4. CASE ClientHears
    BY <1>0, <1>2, <1>4 DEF Typed, ClientHears
  <1>5. CASE ClientLeaves \/ NoKnock \/ GateAnswers \/ Replaced
    BY <1>0, <1>5 DEF Typed, ClientLeaves, NoKnock, GateAnswers, Replaced, Leaves
  <1>6. CASE ServerReceives
    BY <1>0, <1>2, <1>6 DEF Typed, ServerReceives, Leaves
  <1>7. CASE PumpIn
    BY <1>0, <1>2, <1>7 DEF Typed, PumpIn, Leaves
  <1>8. CASE PumpOut
    <2>1. /\ outbox' \in [Sides -> Seq(Nat)] /\ sent' \in [Sides -> Nat]
          /\ session' \in {"none", "knocking", "on", "refused", "released"}
      <3>1. CASE session' = "released" /\ UNCHANGED <<outbox, sent>>
        BY <1>0, <3>1 DEF Typed
      <3>2. CASE /\ outbox' = [outbox EXCEPT !["server"] = Append(@, sent["server"] + 1)]
                 /\ sent' = [sent EXCEPT !["server"] = @ + 1]
                 /\ UNCHANGED session
        BY <1>0, <1>1, <3>2 DEF Typed
      <3> QED
        BY <1>8, <3>1, <3>2 DEF PumpOut
    <2> QED
      BY <1>0, <1>8, <2>1 DEF Typed, PumpOut
  <1> QED
    BY <1>3, <1>4, <1>5, <1>6, <1>7, <1>8 DEF UserStep

\* Nobody has a session of an endpoint that there is not.
LEMMA SessionEndpoint ==
    ASSUME IInv, Next
    PROVE  session' # "none" => ep'["server"] # "none"
  <1> USE DEF userVars, connVars, muxVars
  <1>0. Typed /\ "server" \in Sides /\ (session # "none" => ep["server"] # "none")
    BY SideIs DEF IInv, Sides
  <1>1. CASE \E s \in Sides : MuxStep(s)
    <2>1. session' = session /\ (ep' = ep \/ \E s \in Sides : ep' = [ep EXCEPT ![s] = "held"])
      BY <1>1 DEF MuxStep, Mux, Read, Write, Hello, Compare, Agree, HandshakeFails, TakeOut,
                  WriteSize, WriteBody, WriteFails, ReadSize, ReadBody, ReadJunk, ReadFails,
                  Hand, Terminated, Break
    <2> QED
      BY <1>0, <2>1 DEF Typed
  <1>2. CASE UserStep
    <2>1. ep' = ep \/ \E s \in Sides : ep' = [ep EXCEPT ![s] = "dropped"]
      BY <1>2 DEF UserStep, ClientSends, ClientHears, ClientLeaves, ServerReceives, NoKnock,
                  GateAnswers, PumpIn, PumpOut, Replaced, Leaves, Sides
    <2>2. session' = session \/ session # "none" \/ ep["server"] = "held"
      BY <1>2 DEF UserStep, ClientSends, ClientHears, ClientLeaves, ServerReceives, NoKnock,
                  GateAnswers, PumpIn, PumpOut, Replaced
    <2> QED
      BY <1>0, <2>1, <2>2 DEF Typed
  <1> QED
    BY <1>1, <1>2 DEF Next, MuxStep, UserStep

LEMMA InvInit == Init => IInv
  <1> SUFFICES ASSUME Init
               PROVE  IInv
    OBVIOUS
  <1>1. <<>> \in Seq(Nat) /\ <<>> \in Seq(Units) /\ Len(<<>>) = 0
    OBVIOUS
  <1>2. Typed
    BY <1>1 DEF Init, Typed, Ats
  <1>3. ASSUME NEW s \in Sides
        PROVE  Sends(s) /\ Receives(s) /\ Streams(s) /\ Starts(s)
    <2> DEFINE o == Other(s)
    <2>1. /\ o \in Sides
          /\ \A x \in Sides : /\ at[x] = "hello" /\ wire[x] = <<>> /\ outbox[x] = <<>> /\ inbox[x] = <<>>
                              /\ heard[x] = <<>> /\ sent[x] = 0 /\ reading[x] = 0 /\ ep[x] = "none"
      BY Others DEF Init
    <2>2. \A x \in Sides : Len(outbox[x]) = 0 /\ Len(inbox[x]) = 0 /\ Len(heard[x]) = 0 /\ Len(wire[x]) = 0
      BY <1>1, <2>1
    <2>3. \A x \in Sides : sent[x] = 0 /\ at[x] # "hand"
      BY <2>1
    <2>4. ASSUME NEW x \in Sides
          PROVE  Taken(x) = 0 /\ Got(x) = 0
      <3>1. sent[x] = 0 /\ Len(outbox[x]) = 0 /\ Len(inbox[x]) = 0 /\ Len(heard[x]) = 0
            /\ at[x] # "hand"
        BY <2>2, <2>3
      <3>2. Taken(x) = 0
        BY <3>1 DEF Taken
      <3>3. Got(x) = 0
        BY <3>1 DEF Got
      <3> QED
        BY <3>2, <3>3
    <2>5. Sends(s)
      BY <2>1, <2>2, <2>4 DEF Sends
    <2>6. Receives(s)
      BY <2>1, <2>2, <2>4 DEF Receives
    <2>7. Streams(s)
      BY <2>1, <2>2 DEF Streams, ReadPlace, WritePlace
    <2>8. Starts(s)
      BY <2>1 DEF Starts
    <2> QED
      BY <2>5, <2>6, <2>7, <2>8
  <1>4. session = "none"
    BY DEF Init
  <1> QED
    BY <1>2, <1>3, <1>4, TypedIs DEF IInv

LEMMA InvNext == IInv /\ [Next]_vars => IInv'
  <1> SUFFICES ASSUME IInv, [Next]_vars
               PROVE  IInv'
    OBVIOUS
  <1>1. CASE Next
    <2>1. TypeOK' /\ \A x \in Sides : Good(x)'
      BY <1>1, GoodMux, GoodUser, TypeMux, TypeUser DEF Next, MuxStep, UserStep
    <2> QED
      BY <1>1, <2>1, SessionEndpoint DEF IInv, Good
  <1>2. CASE UNCHANGED vars
    <2>1. Leaving("client") /\ ep' = ep /\ session' = session /\ "client" \in Sides
      BY <1>2 DEF vars, connVars, muxVars, userVars, Leaving, Sides
    <2>2. \A x \in Sides : Good(x)'
      BY <2>1, LeavingKeeps
    <2>3. TypeOK'
      BY <1>2, TypedIs DEF IInv, Typed, vars, connVars, muxVars, userVars
    <2> QED
      BY <2>1, <2>2, <2>3 DEF IInv, Good
  <1> QED
    BY <1>1, <1>2

THEOREM Invariant == Spec => []IInv
  BY InvInit, InvNext, PTL DEF Spec

-----------------------------------------------------------------------------
\* Every variable keeps its type, for any versions, numbers of waves and capacities.
THEOREM TypeCorrect == Spec => []TypeOK
  <1>1. IInv => TypeOK
    BY DEF IInv
  <1> QED
    BY <1>1, Invariant, PTL

\* What a side hears is what the other sent, from the first wave on and without a gap, though
\* its muxer drops reads and goes on reading: it has then lost its place for good.
THEOREM HeardInOrder == Spec => []HeardFromTheFirst
  <1>1. IInv => HeardFromTheFirst
    <2> SUFFICES ASSUME IInv, NEW s \in Sides
                 PROVE  /\ Len(heard[s]) <= sent[Other(s)]
                        /\ \A i \in 1..Len(heard[s]) : heard[s][i] = i
      BY DEF HeardFromTheFirst
    <2> DEFINE o == Other(s)
               h == Len(heard[s])
               n == Len(inbox[s])
               k == sent[o]
               j == Len(outbox[o])
               one == IF at[s] = "hand" THEN 1 ELSE 0
    <2>1. TypeOK /\ Receives(s) /\ o \in Sides
      BY Others DEF IInv
    <2>2. h \in Nat /\ n \in Nat /\ k \in Nat /\ j \in Nat /\ one \in {0, 1}
      BY <2>1, SideTypes
    <2>3. h + n + one <= k - j
      BY <2>1 DEF Receives, Got, Taken
    <2>4. h <= k
      <3> HIDE DEF h, n, k, j, one
      <3> QED
        BY <2>2, <2>3
    <2> QED
      BY <2>1, <2>4 DEF Receives
  <1> QED
    BY <1>1, Invariant, PTL
=============================================================================
