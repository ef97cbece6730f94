-------------------------- MODULE SimpleSockProofs --------------------------
(****************************************************************************)
(* Proofs about SimpleSock, for every set of connections, every set of      *)
(* lengths and every capacity of the streams: one thread per connection,    *)
(* and messages that come out as they went in.                              *)
(****************************************************************************)
EXTENDS SimpleSock, TLAPS

-----------------------------------------------------------------------------
(* The inductive invariant.                                                 *)

Units == {"magic", "length", "byte"} \X Nat

Kinds ==
    /\ accepting \in {"wait", "start", "ended"} /\ newSock \in Conns \cup {NoConn}
    /\ backlog \subseteq Conns
    /\ thread \in [Conns -> {"none", "made", "run", "done"}]
    /\ copied \in [Conns -> Conns \cup {NoConn}] /\ sockOf \in [Conns -> Conns \cup {NoConn}]
    /\ net \in [Conns -> {"new", "up", "shut", "broken", "refused", "closed"}]
    /\ recvPart \in [Conns -> {"head", "body", "tail"}]
    /\ sendPart \in [Conns -> {"idle", "head", "body", "tail"}]

Sequences ==
    /\ wire \in [Conns -> Seq(Units)]
    /\ left \in [Conns -> Seq(Units)]
    /\ got \in [Conns -> Seq(Units)]
    /\ length \in [Conns -> Nat]
    /\ sent \in [Conns -> Seq(Nat)]
    /\ received \in [Conns -> Seq([body : Seq(Units), whole : BOOLEAN])]

Typed == Kinds /\ Sequences

\* Whoever has started, or is about to, is on the connection it was made for.
Threads ==
    /\ accepting = "start" => newSock \in Conns
    /\ \A t \in Conns :
         /\ thread[t] = "made" => copied[t] = t
         /\ thread[t] \in {"run", "done"} => sockOf[t] = t

\* The m-th unit of the i-th message, whose length is n.
Unit(i, n, m) ==
    IF m \in {1, n + 4} THEN Magic
    ELSE IF m \in {2, n + 3} THEN Len2(n)
    ELSE <<"byte", i>>

\* How much of a message of length n is before a part of it, and in the part.
Before(part, n) == IF part = "head" THEN 0 ELSE IF part = "body" THEN 2 ELSE n + 2
Size(part, n) == IF part = "body" THEN n ELSE 2

\* The message that is being received.
Current(c) == IF recvPart[c] = "tail" THEN Len(received[c]) ELSE Len(received[c]) + 1

\* For the lengths s of the messages on a connection, off says of each, and of
\* the one after the last, how much is before it in the stream.
Offsets(s, off) ==
    /\ off \in [1..(Len(s) + 1) -> Nat]
    /\ \A i \in 1..Len(s) :
         /\ off[i + 1] = off[i] + s[i] + 4
         /\ \A j \in 1..(Len(s) + 1) : i < j => off[i] + s[i] + 4 <= off[j]

\* The units of u are those that follow the first p of the stream.
Segment(s, off, u, p) ==
    \A i \in 1..Len(s) : \A m \in 1..(s[i] + 4) : \A k \in 1..Len(u) :
        off[i] + m = p + k => u[k] = Unit(i, s[i], m)

\* What is before the buffer being read, and how far the client has come.
ReadTo(c, off) == off[Current(c)] + Before(recvPart[c], length[c])

WrittenTo(c, off) ==
    LET n == Len(sent[c]) IN
    IF sendPart[c] = "idle" THEN off[n + 1]
    ELSE off[n] + Before(sendPart[c], sent[c][n]) + Size(sendPart[c], sent[c][n]) - Len(left[c])

Open == {"new", "up", "shut"}

\* The receiver: it is in a message that was sent, has read of it what it
\* thinks, and what it has read and will read is the stream.
Receiving(c, off) ==
    /\ Current(c) \in 1..(Len(sent[c]) + 1)
    /\ recvPart[c] # "head" => Current(c) <= Len(sent[c]) /\ length[c] = sent[c][Current(c)]
    /\ Len(got[c]) <= Wanted(c) /\ Len(wire[c]) <= Room
    /\ Segment(sent[c], off, got[c], ReadTo(c, off))
    /\ Segment(sent[c], off, wire[c], ReadTo(c, off) + Len(got[c]))

\* The sender: what is left to write is the end of a part of the last message.
Sending(c, off) ==
    LET n == Len(sent[c]) IN
    /\ sendPart[c] = "idle" => left[c] = <<>>
    /\ sendPart[c] # "idle" =>
         /\ n > 0
         /\ Len(left[c]) <= Size(sendPart[c], sent[c][n])
         /\ Segment(sent[c], off, left[c], WrittenTo(c, off))

\* Nothing is on the way that was not written, and nothing is missing while the
\* connection lasts.
Between(c, off) ==
    /\ ReadTo(c, off) + Len(got[c]) + Len(wire[c]) <= WrittenTo(c, off)
    /\ net[c] \in Open => ReadTo(c, off) + Len(got[c]) + Len(wire[c]) = WrittenTo(c, off)

Stream(c, off) == Offsets(sent[c], off) /\ Receiving(c, off) /\ Sending(c, off) /\ Between(c, off)

Bodies(c) ==
    \A i \in 1..Len(received[c]) :
        i <= Len(sent[c]) => received[c][i].body = Body(i, sent[c][i])

IInv ==
    /\ Typed /\ Threads
    /\ \A c \in Conns : Bodies(c) /\ \E off : Stream(c, off)

-----------------------------------------------------------------------------
(* The invariant holds at first.                                            *)

\* Before anything is sent the stream is empty.
LEMMA InitInv == Init => IInv
<1> SUFFICES ASSUME Init PROVE IInv
  OBVIOUS
<1>1. Typed
  BY DEF Init, Typed, Kinds, Sequences
<1>2. Threads
  BY DEF Init, Threads
<1>3. ASSUME NEW c \in Conns
      PROVE  Bodies(c) /\ \E off : Stream(c, off)
  <2> DEFINE off == [i \in 1..1 |-> 0]
  <2>1. /\ net[c] = "new" /\ sendPart[c] = "idle" /\ recvPart[c] = "head" /\ length[c] = 0
        /\ wire[c] = <<>> /\ left[c] = <<>> /\ sent[c] = <<>> /\ got[c] = <<>> /\ received[c] = <<>>
    BY DEF Init
  <2>2. Bodies(c)
    BY <2>1 DEF Bodies
  <2>3. ReadTo(c, off) = 0 /\ WrittenTo(c, off) = 0 /\ Current(c) = 1
    BY <2>1 DEF ReadTo, WrittenTo, Current, Before
  <2>4. Offsets(sent[c], off) /\ Sending(c, off)
    BY <2>1 DEF Offsets, Sending
  <2>5. Receiving(c, off)
    BY <2>1, <2>3, BoundsAssumption DEF Receiving, Segment, Wanted
  <2>6. Between(c, off)
    BY <2>1, <2>3 DEF Between
  <2> QED BY <2>2, <2>4, <2>5, <2>6 DEF Stream
<1> QED BY <1>1, <1>2, <1>3 DEF IInv

\* The facts about offsets, one by one.
LEMMA OffsetFacts ==
    ASSUME NEW s \in Seq(Nat), NEW off, Offsets(s, off)
    PROVE  /\ Len(s) \in Nat
           /\ \A i \in 1..(Len(s) + 1) : off[i] \in Nat
           /\ \A i \in 1..Len(s) : s[i] \in Nat /\ off[i] \in Nat /\ off[i + 1] \in Nat
           /\ \A i \in 1..Len(s) : off[i + 1] = off[i] + s[i] + 4
           /\ \A i \in 1..Len(s) : \A j \in 1..(Len(s) + 1) : i < j => off[i] + s[i] + 4 <= off[j]
<1> DEFINE N == Len(s)
<1>1. N \in Nat /\ \A i \in 1..N : s[i] \in Nat
  OBVIOUS
<1>2. off \in [1..(N + 1) -> Nat]
  BY DEF Offsets
<1>3. \A i \in 1..N : off[i + 1] = off[i] + s[i] + 4
  BY DEF Offsets
<1>4. \A i \in 1..N : \A j \in 1..(N + 1) : i < j => off[i] + s[i] + 4 <= off[j]
  BY DEF Offsets
<1> HIDE DEF N
<1>5. \A i \in 1..(N + 1) : off[i] \in Nat
  BY <1>2
<1>6. \A i \in 1..N : off[i] \in Nat /\ off[i + 1] \in Nat
  BY <1>1, <1>5
<1> QED BY <1>1, <1>3, <1>4, <1>5, <1>6 DEF N

-----------------------------------------------------------------------------
(* What the parts of a message are, and that positions are numbers.         *)

\* The buffers that sock_send writes one after the other.
LEMMA PartsOfMessage ==
    ASSUME NEW i, NEW n
    PROVE  /\ Parts(i, n, "head") = <<Magic, Len2(n)>>
           /\ Parts(i, n, "body") = Body(i, n)
           /\ Parts(i, n, "tail") = <<Len2(n), Magic>>
BY DEF Parts

\* Their order.
LEMMA AfterParts == After("head") = "body" /\ After("body") = "tail" /\ After("tail") = "idle"
BY DEF After

\* The client is not ahead of what it was given, and nothing here is negative.
LEMMA Positions ==
    ASSUME NEW c \in Conns, Typed, NEW off, Stream(c, off)
    PROVE  /\ ReadTo(c, off) \in Nat /\ WrittenTo(c, off) \in Nat
           /\ Len(got[c]) \in Nat /\ Len(wire[c]) \in Nat /\ Len(left[c]) \in Nat
           /\ Len(sent[c]) \in Nat /\ Len(received[c]) \in Nat
           /\ \A i \in 1..Len(sent[c]) : sent[c][i] \in Nat
           /\ \A i \in 1..(Len(sent[c]) + 1) : off[i] \in Nat
           /\ WrittenTo(c, off) <= off[Len(sent[c]) + 1]
<1>1. /\ Len(got[c]) \in Nat /\ Len(wire[c]) \in Nat /\ Len(left[c]) \in Nat
      /\ Len(sent[c]) \in Nat /\ Len(received[c]) \in Nat
      /\ \A i \in 1..Len(sent[c]) : sent[c][i] \in Nat
      /\ length[c] \in Nat
  <2>1. /\ got[c] \in Seq(Units) /\ wire[c] \in Seq(Units) /\ left[c] \in Seq(Units)
        /\ sent[c] \in Seq(Nat) /\ received[c] \in Seq([body : Seq(Units), whole : BOOLEAN])
        /\ length[c] \in Nat
    BY DEF Typed, Kinds, Sequences
  <2>2. \A S : \A x \in Seq(S) : Len(x) \in Nat
    OBVIOUS
  <2>3. \A i \in 1..Len(sent[c]) : sent[c][i] \in Nat
    BY <2>1
  <2> QED BY <2>1, <2>2, <2>3, Zenon
<1>2. \A i \in 1..(Len(sent[c]) + 1) : off[i] \in Nat
  BY OffsetFacts DEF Stream, Typed, Sequences
<1>3. ReadTo(c, off) \in Nat
  <2>1. Current(c) \in 1..(Len(sent[c]) + 1)
    BY DEF Stream, Receiving
  <2>2. Before(recvPart[c], length[c]) \in Nat
    BY <1>1 DEF Before
  <2> QED BY <1>2, <2>1, <2>2 DEF ReadTo
<1>4. WrittenTo(c, off) \in Nat /\ WrittenTo(c, off) <= off[Len(sent[c]) + 1]
  <2>1. CASE sendPart[c] = "idle"
    BY <2>1, <1>1, <1>2 DEF WrittenTo
  <2>2. CASE sendPart[c] # "idle"
    <3> DEFINE n == Len(sent[c])
               l == Len(left[c])
    <3>0. n \in Nat \ {0} /\ n \in 1..Len(sent[c])
      BY <2>2, <1>1 DEF Stream, Sending
    <3>1. n \in Nat \ {0} /\ sent[c][n] \in Nat /\ off[n + 1] = off[n] + sent[c][n] + 4 /\ off[n] \in Nat
      BY <3>0, <1>1, OffsetFacts DEF Stream, Typed, Sequences
    <3>2. sendPart[c] \in {"head", "body", "tail"}
      BY <2>2 DEF Typed, Kinds, Sequences
    <3>3. l \in Nat /\ l <= Size(sendPart[c], sent[c][n])
      BY <2>2, <1>1 DEF Stream, Sending
    <3>4. WrittenTo(c, off) = off[n] + Before(sendPart[c], sent[c][n]) + Size(sendPart[c], sent[c][n]) - l
      BY <2>2 DEF WrittenTo
    <3> HIDE DEF n, l
    <3>5. /\ Before(sendPart[c], sent[c][n]) \in Nat /\ Size(sendPart[c], sent[c][n]) \in Nat
          /\ Before(sendPart[c], sent[c][n]) + Size(sendPart[c], sent[c][n]) <= sent[c][n] + 4
      BY <3>1, <3>2 DEF Before, Size
    <3>6. WrittenTo(c, off) \in Nat /\ WrittenTo(c, off) <= off[n + 1]
      BY <3>1, <3>3, <3>4, <3>5
    <3> QED BY <3>6 DEF n
  <2> QED BY <2>1, <2>2
<1> QED BY <1>1, <1>2, <1>3, <1>4

-----------------------------------------------------------------------------
(* Steps that leave a connection's messages alone.                          *)

\* Nothing happens on the stream of c, but that it may be lost.
Quiet(c) ==
    /\ UNCHANGED <<sent[c], sendPart[c], left[c], recvPart[c], got[c], length[c], received[c]>>
    /\ \/ wire'[c] = wire[c] /\ (net'[c] \in Open => net[c] \in Open)
       \/ wire'[c] = <<>> /\ net'[c] \notin Open

\* The stream survives them.
LEMMA QuietKeeps ==
    ASSUME NEW c \in Conns, Typed, Quiet(c), Bodies(c), NEW off, Stream(c, off)
    PROVE  Bodies(c)' /\ Stream(c, off)'
<1> USE DEF Quiet
<1>1. ReadTo(c, off)' = ReadTo(c, off) /\ WrittenTo(c, off)' = WrittenTo(c, off)
  BY DEF ReadTo, WrittenTo, Current
<1>2. Bodies(c)' /\ Offsets(sent[c], off)' /\ Sending(c, off)'
  <2>1. Bodies(c)'
    BY DEF Bodies
  <2>2. Offsets(sent[c], off)'
    BY DEF Stream, Offsets
  <2>3. sent'[c] = sent[c] /\ sendPart'[c] = sendPart[c] /\ left'[c] = left[c]
    OBVIOUS
  <2>4. Segment(sent[c], off, left[c], WrittenTo(c, off))' <=> Segment(sent[c], off, left[c], WrittenTo(c, off))
    BY <1>1, <2>3 DEF Segment
  <2>5. Sending(c, off)
    BY DEF Stream
  <2>6. Sending(c, off)'
    BY <2>3, <2>4, <2>5 DEF Sending
  <2> QED BY <2>1, <2>2, <2>6
<1>3. Len(wire'[c]) \in Nat /\ Len(wire'[c]) <= Len(wire[c]) /\ wire'[c] \in {wire[c], <<>>}
  BY DEF Typed, Kinds, Sequences
<1>4. Receiving(c, off)'
  <2>1. Segment(sent[c], off, wire[c], ReadTo(c, off) + Len(got[c]))'
    <3>1. CASE wire'[c] = wire[c]
      BY <3>1, <1>1 DEF Stream, Receiving
    <3>2. CASE wire'[c] = <<>>
      BY <3>2 DEF Segment
    <3> QED BY <3>1, <3>2, <1>3
  <2>2. Segment(sent[c], off, got[c], ReadTo(c, off))'
    BY <1>1 DEF Stream, Receiving
  <2>3. Len(wire'[c]) <= Room
    BY <1>3, Positions, BoundsAssumption DEF Stream, Receiving
  <2>4. Receiving(c, off)
    BY DEF Stream
  <2>5. /\ Current(c)' = Current(c) /\ Wanted(c)' = Wanted(c)
        /\ sent'[c] = sent[c] /\ recvPart'[c] = recvPart[c] /\ length'[c] = length[c] /\ got'[c] = got[c]
    BY DEF Current, Wanted
  <2> HIDE DEF Quiet
  <2> QED BY <2>1, <2>2, <2>3, <2>4, <2>5 DEF Receiving
<1>5. Between(c, off)'
  <2> DEFINE r == ReadTo(c, off) + Len(got[c])
             p == WrittenTo(c, off)
             l == Len(wire[c])
             k == Len(wire'[c])
  <2>1. r \in Nat /\ l \in Nat /\ k \in Nat /\ k <= l
    BY <1>3, Positions
  <2>2. r + l <= p /\ (net[c] \in Open => r + l = p) /\ p \in Nat
    BY Positions DEF Stream, Between
  <2>3. net'[c] \in Open => net[c] \in Open /\ k = l
    OBVIOUS
  <2>4. Between(c, off)' <=> r + k <= p /\ (net'[c] \in Open => r + k = p)
    BY <1>1 DEF Between
  <2> HIDE DEF r, p, l, k, Quiet
  <2>5. r + k <= p /\ (net'[c] \in Open => r + k = p)
    BY <2>1, <2>2, <2>3
  <2> QED BY <2>4, <2>5
<1> QED BY <1>2, <1>4, <1>5 DEF Stream

-----------------------------------------------------------------------------
(* Types and threads.                                                       *)

\* The units of a message.
LEMMA UnitsOfMessage ==
    /\ Magic \in Units /\ <<>> \in Seq(Units)
    /\ \A n \in Nat : Len2(n) \in Units
    /\ \A n, i \in Nat : Body(i, n) \in Seq(Units)
<1>1. Magic \in Units
  BY DEF Magic, Units
<1>2. <<>> \in Seq(Units)
  OBVIOUS
<1>3. \A n \in Nat : Len2(n) \in Units
  BY DEF Len2, Units
<1>4. ASSUME NEW n \in Nat, NEW i \in Nat
      PROVE  Body(i, n) \in Seq(Units)
  <2>1. <<"byte", i>> \in Units
    BY DEF Units
  <2> QED BY <2>1 DEF Body
<1> QED BY <1>1, <1>2, <1>3, <1>4

\* What is split off a buffer, and what is put behind it.
LEMMA Splitting ==
    ASSUME NEW S, NEW s \in Seq(S), NEW k \in 0..Len(s)
    PROVE  /\ SubSeq(s, 1, k) \in Seq(S) /\ Len(SubSeq(s, 1, k)) = k
           /\ SubSeq(s, k + 1, Len(s)) \in Seq(S) /\ Len(SubSeq(s, k + 1, Len(s))) = Len(s) - k
           /\ \A i \in 1..k : SubSeq(s, 1, k)[i] = s[i]
           /\ \A i \in 1..(Len(s) - k) : SubSeq(s, k + 1, Len(s))[i] = s[k + i]
OBVIOUS

\* What is appended keeps what was there.
LEMMA Joining ==
    ASSUME NEW S, NEW s \in Seq(S), NEW u \in Seq(S)
    PROVE  /\ s \o u \in Seq(S) /\ Len(s \o u) = Len(s) + Len(u)
           /\ \A i \in 1..Len(s) : (s \o u)[i] = s[i]
           /\ \A i \in 1..Len(u) : (s \o u)[Len(s) + i] = u[i]
OBVIOUS

\* Every action keeps the types, whatever the stream holds.
LEMMA TypedStep ==
    ASSUME IInv, Next
    PROVE  Typed'
<1> USE DEF server, sender, receiver, Typed, IInv
<1>1. ASSUME HandleConn PROVE Typed'
  BY <1>1 DEF HandleConn, Threads, Kinds, Sequences
<1>2. ASSUME HandleConnSync PROVE Typed'
  <2>1. Kinds'
    BY <1>2 DEF HandleConnSync, Threads, Kinds
  <2>2. Sequences'
    BY <1>2, UnitsOfMessage DEF HandleConnSync, Threads, Sequences
  <2> QED BY <2>1, <2>2
<1>3. ASSUME AcceptFails PROVE Typed'
  BY <1>3 DEF AcceptFails, Kinds, Sequences
<1>4. ASSUME NEW c \in Conns, Accept(c) PROVE Typed'
  BY <1>4 DEF Accept, Kinds, Sequences
<1>5. ASSUME NEW c \in Conns, Connect(c) PROVE Typed'
  BY <1>5 DEF Connect, Kinds, Sequences
<1>6. ASSUME NEW c \in Conns, Shut(c) PROVE Typed'
  BY <1>6 DEF Shut, Kinds, Sequences
<1>7. ASSUME NEW c \in Conns, Break(c) PROVE Typed'
  <2>1. Kinds'
    BY <1>7 DEF Break, Kinds
  <2>2. Sequences'
    BY <1>7, UnitsOfMessage DEF Break, Sequences
  <2> QED BY <2>1, <2>2
<1>8. ASSUME NEW c \in Conns, NEW n \in Lengths, Send(c, n) PROVE Typed'
  <2>1. Kinds'
    BY <1>8 DEF Send, Kinds
  <2>2. n \in Nat /\ Len2(n) \in Units /\ Magic \in Units
    BY UnitsOfMessage, LengthsAssumption
  <2>3. <<Magic, Len2(n)>> \in Seq(Units)
    BY <2>2
  <2>4. Parts(Len(sent[c]) + 1, n, "head") \in Seq(Units)
    BY <2>3, PartsOfMessage
  <2>5. sent[c] \in Seq(Nat) /\ Append(sent[c], n) \in Seq(Nat)
    BY <2>2 DEF Sequences
  <2>6. Sequences'
    BY <1>8, <2>4, <2>5 DEF Send, Sequences
  <2> QED BY <2>1, <2>6
<1>9. ASSUME NEW c \in Conns, NEW k \in 1..Room, Write(c, k) PROVE Typed'
  <2>1. Kinds'
    BY <1>9 DEF Write, Kinds
  <2>2. left[c] \in Seq(Units) /\ wire[c] \in Seq(Units) /\ k \in 0..Len(left[c])
    BY <1>9 DEF Write, Sequences
  <2>3. Remaining(c, k) \in Seq(Units) /\ wire[c] \o SubSeq(left[c], 1, k) \in Seq(Units)
    BY <2>2, Splitting, Joining DEF Remaining
  <2>4. Sequences'
    BY <1>9, <2>3 DEF Write, Sequences
  <2> QED BY <2>1, <2>4
<1>10. ASSUME NEW c \in Conns, NextPart(c) PROVE Typed'
  <2> DEFINE i == Len(sent[c])
             to == After(sendPart[c])
  <2>1. to \in {"idle", "body", "tail"}
    BY <1>10, AfterParts DEF NextPart, Kinds
  <2>2. Kinds'
    BY <1>10, <2>1 DEF NextPart, Kinds
  <2>3. sent[c] \in Seq(Nat) /\ i \in Nat
    BY DEF Sequences
  <2>4. i > 0
    BY <1>10 DEF NextPart, Stream, Sending
  <2>5. sent[c][i] \in Nat
    BY <2>3, <2>4
  <2>6. (IF to = "idle" THEN <<>> ELSE Parts(i, sent[c][i], to)) \in Seq(Units)
    <3>1. Magic \in Units /\ Len2(sent[c][i]) \in Units /\ Body(i, sent[c][i]) \in Seq(Units) /\ <<>> \in Seq(Units)
      BY <2>3, <2>5, UnitsOfMessage
    <3>2. <<Len2(sent[c][i]), Magic>> \in Seq(Units)
      BY <3>1
    <3> QED BY <2>1, <3>1, <3>2, PartsOfMessage
  <2> HIDE DEF i, to
  <2>7. Sequences'
    BY <1>10, <2>6 DEF NextPart, Sequences, i, to
  <2> QED BY <2>2, <2>7
<1>11. ASSUME NEW c \in Conns, SendFails(c) PROVE Typed'
  <2>1. Kinds'
    BY <1>11 DEF SendFails, Kinds
  <2>2. Sequences'
    BY <1>11, UnitsOfMessage DEF SendFails, Sequences
  <2> QED BY <2>1, <2>2
<1>12. ASSUME NEW t \in Conns, Begin(t) PROVE Typed'
  BY <1>12 DEF Begin, ArgOf, Kinds, Sequences
<1>13. ASSUME NEW t \in Conns, NEW k \in 1..Room, Read(t, k) PROVE Typed'
  <2>1. Kinds'
    BY <1>13 DEF Read, Threads, Kinds
  <2>2. /\ sockOf[t] = t /\ got[t] \in Seq(Units) /\ wire[t] \in Seq(Units)
        /\ k \in 0..Len(wire[t])
    BY <1>13 DEF Read, Threads, Sequences
  <2>3. /\ got[t] \o SubSeq(wire[t], 1, k) \in Seq(Units)
        /\ SubSeq(wire[t], k + 1, Len(wire[t])) \in Seq(Units)
    BY <2>2, Splitting, Joining
  <2>4. Sequences'
    BY <1>13, <2>2, <2>3 DEF Read, Sequences
  <2> QED BY <2>1, <2>4
<1>14. ASSUME NEW t \in Conns, HeadRead(t) PROVE Typed'
  <2>1. Kinds'
    BY <1>14 DEF HeadRead, Threads, Kinds
  <2>2. got[t] \in Seq(Units) /\ Len(got[t]) = 2 /\ sockOf[t] = t
    BY <1>14 DEF HeadRead, Threads, Sequences
  <2>3. got[t][2] \in Units
    BY <2>2
  <2>4. got[t][2][2] \in Nat
    BY <2>3 DEF Units
  <2>5. Sequences'
    BY <1>14, <2>2, <2>4, UnitsOfMessage DEF HeadRead, Sequences
  <2> QED BY <2>1, <2>5
<1>15. ASSUME NEW t \in Conns, BodyRead(t) PROVE Typed'
  <2>1. Kinds'
    BY <1>15 DEF BodyRead, Threads, Kinds
  <2>2. /\ sockOf[t] = t /\ got[t] \in Seq(Units)
        /\ received[t] \in Seq([body : Seq(Units), whole : BOOLEAN])
    BY <1>15 DEF BodyRead, Threads, Sequences
  <2>3. Append(received[t], [body |-> got[t], whole |-> FALSE]) \in Seq([body : Seq(Units), whole : BOOLEAN])
    BY <2>2
  <2>4. Sequences'
    BY <1>15, <2>2, <2>3, UnitsOfMessage DEF BodyRead, Sequences
  <2> QED BY <2>1, <2>4
<1>16. ASSUME NEW t \in Conns, TailRead(t) PROVE Typed'
  <2>1. Kinds'
    BY <1>16 DEF TailRead, Threads, Kinds
  <2> DEFINE r == received[t]
  <2>2. sockOf[t] = t /\ r \in Seq([body : Seq(Units), whole : BOOLEAN])
    BY <1>16 DEF TailRead, Threads, Sequences
  <2>3. [r EXCEPT ![Len(r)].whole = TRUE] \in Seq([body : Seq(Units), whole : BOOLEAN])
    <3>1. Len(r) \in Nat /\ Len(r) > 0
      BY <1>16, <2>2 DEF TailRead, Stream, Receiving, Current
    <3>2. \A S : \A s \in Seq(S) : Len(s) > 0 => s[Len(s)] \in S
      OBVIOUS
    <3> HIDE DEF r
    <3>3. r[Len(r)] \in [body : Seq(Units), whole : BOOLEAN]
      BY <2>2, <3>1, <3>2, Zenon
    <3>4. [r[Len(r)] EXCEPT !.whole = TRUE] \in [body : Seq(Units), whole : BOOLEAN]
      BY <3>3
    <3> QED BY <2>2, <3>1, <3>4
  <2>4. received' = [received EXCEPT ![t] = [r EXCEPT ![Len(r)].whole = TRUE]]
    BY <1>16, <2>2 DEF TailRead
  <2> HIDE DEF r
  <2>5. received' \in [Conns -> Seq([body : Seq(Units), whole : BOOLEAN])]
    BY <1>16, <2>3, <2>4 DEF Sequences
  <2>6. Sequences'
    BY <1>16, <2>2, <2>5, UnitsOfMessage DEF TailRead, Sequences
  <2> QED BY <2>1, <2>6
<1>17. ASSUME NEW t \in Conns, RecvFails(t) PROVE Typed'
  <2>1. Kinds'
    BY <1>17 DEF RecvFails, Threads, Kinds
  <2>2. Sequences'
    BY <1>17, UnitsOfMessage DEF RecvFails, Threads, Sequences
  <2> QED BY <2>1, <2>2
<1> QED
  BY <1>1, <1>2, <1>3, <1>4, <1>5, <1>6, <1>7, <1>8, <1>9, <1>10, <1>11, <1>12, <1>13, <1>14, <1>15, <1>16, <1>17
     DEF Next, StartThread, SenderStep, HandlerStep

\* A thread starts with the copy that was made for it.
LEMMA ThreadsStep ==
    ASSUME Typed, Threads, Next
    PROVE  Threads'
<1> USE DEF server, sender, receiver, Typed, Kinds, Threads
<1>1. CASE HandleConn \/ HandleConnSync \/ AcceptFails
  BY <1>1 DEF HandleConn, HandleConnSync, AcceptFails
<1>2. ASSUME NEW c \in Conns, Accept(c) \/ Connect(c) \/ Shut(c) \/ Break(c)
      PROVE  Threads'
  BY <1>2 DEF Accept, Connect, Shut, Break
<1>3. ASSUME NEW c \in Conns, (\E n \in Lengths : Send(c, n)) \/ SenderStep(c)
      PROVE  Threads'
  BY <1>3 DEF Send, SenderStep, Write, NextPart, SendFails
<1>4. ASSUME NEW t \in Conns, Begin(t) \/ RecvFails(t)
      PROVE  Threads'
  BY <1>4 DEF Begin, ArgOf, RecvFails
<1>5. ASSUME NEW t \in Conns, (\E k \in 1..Room : Read(t, k)) \/ HeadRead(t) \/ BodyRead(t) \/ TailRead(t)
      PROVE  Threads'
  BY <1>5 DEF Read, HeadRead, BodyRead, TailRead
<1> QED
  BY <1>1, <1>2, <1>3, <1>4, <1>5 DEF Next, StartThread, HandlerStep

-----------------------------------------------------------------------------
(* Streams.                                                                 *)

\* One more message: the offsets go on, and what is of the stream remains so.
LEMMA LongerStream ==
    ASSUME NEW s \in Seq(Nat), NEW n \in Nat, NEW off, Offsets(s, off)
    PROVE  \E o :
             /\ Offsets(Append(s, n), o)
             /\ \A i \in 1..(Len(s) + 1) : o[i] = off[i]
             /\ \A u, p : p \in Nat /\ Len(u) \in Nat /\ Segment(s, off, u, p) /\ p + Len(u) <= off[Len(s) + 1]
                          => Segment(Append(s, n), o, u, p)
<1> DEFINE N == Len(s)
           m == Append(s, n)
           o == [i \in 1..(N + 2) |-> IF i <= N + 1 THEN off[i] ELSE off[N + 1] + n + 4]
<1>1. N \in Nat /\ Len(m) = N + 1 /\ m[N + 1] = n /\ \A i \in 1..N : m[i] = s[i] /\ s[i] \in Nat
  OBVIOUS
<1>2. /\ \A i \in 1..(N + 1) : off[i] \in Nat
      /\ \A i \in 1..N : off[i + 1] = off[i] + s[i] + 4
      /\ \A i \in 1..N : \A j \in 1..(N + 1) : i < j => off[i] + s[i] + 4 <= off[j]
  BY OffsetFacts
<1> HIDE DEF N, m
<1>3. /\ \A i \in 1..(N + 1) : o[i] = off[i]
      /\ o[N + 2] = off[N + 1] + n + 4
      /\ o \in [1..(N + 2) -> Nat]
  BY <1>1, <1>2
<1> HIDE DEF o
<1>4. ASSUME NEW i \in 1..(N + 1)
      PROVE  o[i + 1] = o[i] + m[i] + 4
  <2>1. CASE i \in 1..N
    BY <2>1, <1>1, <1>2, <1>3
  <2>2. CASE i = N + 1
    BY <2>2, <1>1, <1>3
  <2> QED BY <2>1, <2>2, <1>1
<1>5. ASSUME NEW i \in 1..(N + 1), NEW j \in 1..(N + 2), i < j
      PROVE  o[i] + m[i] + 4 <= o[j]
  <2>1. CASE j <= N + 1
    BY <2>1, <1>1, <1>2, <1>3, <1>5
  <2>2. CASE j = N + 2 /\ i <= N
    <3>1. i \in 1..N /\ N + 1 \in 1..(N + 1) /\ i < N + 1
      BY <2>2, <1>1
    <3>2. off[i] + s[i] + 4 <= off[N + 1] /\ off[i] \in Nat /\ off[N + 1] \in Nat
      BY <3>1, <1>2
    <3>3. o[i] = off[i] /\ m[i] = s[i] /\ s[i] \in Nat /\ o[j] = off[N + 1] + n + 4
      BY <2>2, <3>1, <1>1, <1>3
    <3>4. \A a, b, e, d \in Nat : a + b + 4 <= e => a + b + 4 <= e + d + 4
      OBVIOUS
    <3> QED BY <3>2, <3>3, <3>4
  <2>3. CASE j = N + 2 /\ i = N + 1
    <3>1. o[i] = off[N + 1] /\ m[i] = n /\ o[j] = off[N + 1] + n + 4 /\ off[N + 1] \in Nat
      BY <2>3, <1>1, <1>2, <1>3
    <3>2. \A a, d \in Nat : a + d + 4 <= a + d + 4
      OBVIOUS
    <3> QED BY <3>1, <3>2
  <2> QED BY <2>1, <2>2, <2>3, <1>1
<1>6. Offsets(m, o)
  <2>1. Len(m) = N + 1 /\ (N + 1) + 1 = N + 2
    BY <1>1
  <2>2. o \in [1..(Len(m) + 1) -> Nat]
    BY <1>3, <2>1
  <2>3. \A i \in 1..(N + 1) : /\ o[i + 1] = o[i] + m[i] + 4
                              /\ \A j \in 1..(N + 2) : i < j => o[i] + m[i] + 4 <= o[j]
    BY <1>4, <1>5
  <2> QED BY <2>1, <2>2, <2>3, Zenon DEF Offsets
<1>7. ASSUME NEW u, NEW p \in Nat, Len(u) \in Nat, Segment(s, off, u, p), p + Len(u) <= off[N + 1]
      PROVE  Segment(m, o, u, p)
  <2> DEFINE l == Len(u)
  <2>1. l \in Nat /\ p + l <= off[N + 1]
    BY <1>7
  <2>2. ASSUME NEW i \in 1..(N + 1), NEW h \in 1..(m[i] + 4), NEW k \in 1..l, o[i] + h = p + k
        PROVE  u[k] = Unit(i, m[i], h)
    <3> HIDE DEF l
    <3>1. p + k <= o[N + 1] /\ p + k \in Nat /\ o[N + 1] \in Nat
      BY <2>1, <1>1, <1>2, <1>3
    <3>2. i # N + 1
      BY <2>2, <3>1, <1>1
    <3>3. i \in 1..N
      BY <3>2, <1>1
    <3>4. off[i] + h = p + k /\ h \in 1..(s[i] + 4) /\ m[i] = s[i]
      BY <2>2, <3>3, <1>1, <1>3
    <3> QED BY <3>3, <3>4, <1>7 DEF Segment, N, l
  <2> QED BY <2>2, <1>1 DEF Segment
<1> QED BY <1>3, <1>6, <1>7 DEF N, m

\* A piece of the stream may be cut in two.
LEMMA SegmentSplits ==
    ASSUME NEW s \in Seq(Nat), NEW off, Offsets(s, off), NEW u \in Seq(Units), NEW p \in Nat,
           NEW k \in 0..Len(u), Segment(s, off, u, p)
    PROVE  /\ Segment(s, off, SubSeq(u, 1, k), p)
           /\ Segment(s, off, SubSeq(u, k + 1, Len(u)), p + k)
<1> DEFINE a == SubSeq(u, 1, k)
           b == SubSeq(u, k + 1, Len(u))
           l == Len(u)
<1>1. /\ l \in Nat /\ Len(a) = k /\ Len(b) = l - k
      /\ \A i \in 1..k : a[i] = u[i]
      /\ \A i \in 1..(l - k) : b[i] = u[k + i]
  BY Splitting
<1>2. Len(s) \in Nat /\ \A i \in 1..Len(s) : s[i] \in Nat
  OBVIOUS
<1>3. \A i \in 1..Len(s) : off[i] \in Nat
  BY OffsetFacts
<1>4. \A i \in 1..Len(s) : \A m \in 1..(s[i] + 4) : \A h \in 1..l :
        off[i] + m = p + h => u[h] = Unit(i, s[i], m)
  BY DEF Segment
<1> HIDE DEF a, b, l
<1>5. Segment(s, off, a, p)
  <2> SUFFICES ASSUME NEW i \in 1..Len(s), NEW m \in 1..(s[i] + 4), NEW h \in 1..k, off[i] + m = p + h
               PROVE  a[h] = Unit(i, s[i], m)
    BY <1>1 DEF Segment
  <2>1. h \in 1..l
    BY <1>1 DEF l
  <2> QED BY <1>1, <1>4, <2>1
<1>6. Segment(s, off, b, p + k)
  <2> SUFFICES ASSUME NEW i \in 1..Len(s), NEW m \in 1..(s[i] + 4), NEW h \in 1..(l - k),
                      off[i] + m = p + k + h
               PROVE  b[h] = Unit(i, s[i], m)
    BY <1>1 DEF Segment
  <2>1. k + h \in 1..l /\ p + k + h = p + (k + h)
    <3>1. l \in Nat /\ k \in 0..l /\ h \in 1..(l - k)
      BY <1>1 DEF l
    <3> QED BY <3>1
  <2>2. off[i] + m = p + (k + h)
    <3>1. off[i] + m = p + k + h
      OBVIOUS
    <3> QED BY <2>1, <3>1, Zenon
  <2>3. b[h] = u[k + h]
    BY <1>1
  <2>4. u[k + h] = Unit(i, s[i], m)
    BY <1>4, <2>1, <2>2, Zenon
  <2> QED BY <2>3, <2>4
<1> QED BY <1>5, <1>6 DEF a, b

\* Pieces that follow each other are one.
LEMMA SegmentsJoin ==
    ASSUME NEW s \in Seq(Nat), NEW off, Offsets(s, off), NEW u \in Seq(Units), NEW v \in Seq(Units),
           NEW p \in Nat, Segment(s, off, u, p), Segment(s, off, v, p + Len(u))
    PROVE  Segment(s, off, u \o v, p)
<1> DEFINE w == u \o v
           l == Len(u)
           n == Len(v)
<1>1. /\ l \in Nat /\ n \in Nat /\ Len(w) = l + n
      /\ \A i \in 1..l : w[i] = u[i]
      /\ \A i \in 1..n : w[l + i] = v[i]
  BY Joining
<1>2. \A i \in 1..Len(s) : off[i] \in Nat /\ s[i] \in Nat
  BY OffsetFacts
<1>3. \A i \in 1..Len(s) : \A m \in 1..(s[i] + 4) :
         /\ \A h \in 1..l : off[i] + m = p + h => u[h] = Unit(i, s[i], m)
         /\ \A h \in 1..n : off[i] + m = p + l + h => v[h] = Unit(i, s[i], m)
  BY DEF Segment
<1> HIDE DEF w, l, n
<1>4. ASSUME NEW i \in 1..Len(s), NEW m \in 1..(s[i] + 4), NEW h \in 1..(l + n), off[i] + m = p + h
      PROVE  w[h] = Unit(i, s[i], m)
  <2>1. CASE h <= l
    BY <2>1, <1>1, <1>3, <1>4
  <2>2. CASE h > l
    <3>1. PICK q \in 1..n : h = l + q
      <4>1. l \in Nat /\ n \in Nat
        BY <1>1
      <4>2. h - l \in 1..n /\ h = l + (h - l)
        BY <2>2, <4>1
      <4> QED BY <4>2
    <3>2. w[h] = v[q]
      BY <3>1, <1>1
    <3>3. off[i] + m = p + l + q
      BY <3>1, <1>1, <1>4
    <3> QED BY <3>2, <3>3, <1>3
  <2> QED BY <2>1, <2>2, <1>1
<1>5. Segment(s, off, w, p)
  BY <1>1, <1>4 DEF Segment
<1> QED BY <1>5 DEF w

\* A part of the last message is the stream from where it begins.
LEMMA PartIsSegment ==
    ASSUME NEW s \in Seq(Nat), NEW off, Offsets(s, off), Len(s) > 0, NEW part \in {"head", "body", "tail"}
    PROVE  /\ Len(Parts(Len(s), s[Len(s)], part)) = Size(part, s[Len(s)])
           /\ Segment(s, off, Parts(Len(s), s[Len(s)], part), off[Len(s)] + Before(part, s[Len(s)]))
<1> DEFINE n == Len(s)
           l == s[n]
           u == Parts(n, l, part)
           b == Before(part, l)
<1>1. /\ n \in 1..Len(s) /\ n \in Nat /\ l \in Nat
      /\ \A i \in 1..Len(s) : off[i] \in Nat /\ s[i] \in Nat
      /\ \A i \in 1..Len(s) : i # n => off[i] + s[i] + 4 <= off[n]
  BY OffsetFacts
<1> HIDE DEF l
<1>2. Len(u) = Size(part, l) /\ \A k \in 1..Len(u) : u[k] = Unit(n, l, b + k)
  <2>1. CASE part = "head"
    <3>1. u = <<Magic, Len2(l)>> /\ b = 0 /\ Size(part, l) = 2
      BY <2>1, PartsOfMessage DEF Size, Before
    <3>2. Unit(n, l, 1) = Magic /\ Unit(n, l, 2) = Len2(l)
      BY <1>1 DEF Unit
    <3> HIDE DEF u, b
    <3> QED BY <3>1, <3>2
  <2>2. CASE part = "body"
    <3>1. u = Body(n, l) /\ b = 2 /\ Size(part, l) = l
      BY <2>2, PartsOfMessage DEF Size, Before
    <3>2. \A k \in 1..l : Unit(n, l, 2 + k) = <<"byte", n>>
      BY <1>1 DEF Unit
    <3> HIDE DEF u, b
    <3>3. Len(u) = l /\ \A k \in 1..l : u[k] = <<"byte", n>>
      BY <3>1, <1>1 DEF Body
    <3> QED BY <3>1, <3>2, <3>3
  <2>3. CASE part = "tail"
    <3>1. u = <<Len2(l), Magic>> /\ b = l + 2 /\ Size(part, l) = 2
      BY <2>3, PartsOfMessage DEF Size, Before
    <3>2. Unit(n, l, l + 3) = Len2(l) /\ Unit(n, l, l + 4) = Magic
      BY <1>1 DEF Unit
    <3> HIDE DEF u, b
    <3>3. l + 2 + 1 = l + 3 /\ l + 2 + 2 = l + 4
      BY <1>1
    <3> QED BY <3>1, <3>2, <3>3
  <2> QED BY <2>1, <2>2, <2>3
<1>3. b \in Nat /\ Size(part, l) \in Nat
  BY <1>1 DEF Before, Size
<1> HIDE DEF n, u, b
<1>4. ASSUME NEW i \in 1..Len(s), NEW m \in 1..(s[i] + 4), NEW k \in 1..Len(u), off[i] + m = off[n] + b + k
      PROVE  u[k] = Unit(i, s[i], m)
  <2>1. i = n
    <3> SUFFICES ASSUME i # n PROVE FALSE
      OBVIOUS
    <3>1. off[i] + s[i] + 4 <= off[n]
      BY <1>1
    <3>2. k \in Nat /\ k > 0
      BY <1>2, <1>3
    <3>3. off[i] \in Nat /\ s[i] \in Nat /\ off[n] \in Nat /\ m \in Nat /\ m <= s[i] + 4
      BY <1>1
    <3>4. off[i] + m = off[n] + b + k /\ b \in Nat
      BY <1>3, <1>4
    <3>5. \A x, y, z, t, d, e \in Nat : x + z + 4 <= y /\ t <= z + 4 /\ e > 0 => x + t # y + d + e
      OBVIOUS
    <3> QED BY <3>1, <3>2, <3>3, <3>4, <3>5
  <2>2. m = b + k
    <3>1. off[n] + m = off[n] + b + k /\ off[n] \in Nat /\ b \in Nat /\ k \in Nat /\ m \in Nat
      BY <2>1, <1>1, <1>3, <1>4
    <3>2. \A x, y, z, t \in Nat : x + t = x + y + z => t = y + z
      OBVIOUS
    <3> QED BY <3>1, <3>2
  <2> QED BY <2>1, <2>2, <1>2 DEF l
<1>5. Segment(s, off, u, off[n] + b)
  BY <1>4 DEF Segment
<1> QED BY <1>2, <1>5 DEF n, l, u, b

\* What is read of a message is that of it.
LEMMA SegmentOfMessage ==
    ASSUME NEW s \in Seq(Nat), NEW off, Offsets(s, off), NEW u \in Seq(Units), NEW j \in 1..Len(s), NEW b \in Nat,
           b + Len(u) <= s[j] + 4, Segment(s, off, u, off[j] + b)
    PROVE  \A k \in 1..Len(u) : u[k] = Unit(j, s[j], b + k)
<1> SUFFICES ASSUME NEW k \in 1..Len(u)
             PROVE  u[k] = Unit(j, s[j], b + k)
  OBVIOUS
<1>1. Len(u) \in Nat /\ s[j] \in Nat /\ off[j] \in Nat
  BY OffsetFacts
<1>2. k \in 1..Len(u) /\ b + k \in 1..(s[j] + 4) /\ off[j] + (b + k) = off[j] + b + k
  <2>1. PICK x \in Nat, y \in Nat, l \in Nat : x = off[j] /\ y = s[j] /\ l = Len(u)
    BY <1>1
  <2>2. k \in 1..l /\ b + l <= y + 4
    BY <2>1
  <2>3. b + k \in 1..(y + 4) /\ x + (b + k) = x + b + k
    BY <2>2
  <2> QED BY <2>1, <2>2, <2>3
<1>3. \A i \in 1..Len(s) : \A m \in 1..(s[i] + 4) : \A h \in 1..Len(u) :
        off[i] + m = off[j] + b + h => u[h] = Unit(i, s[i], m)
  BY DEF Segment
<1> QED BY <1>2, <1>3, Zenon

-----------------------------------------------------------------------------
(* The steps of sock_send.                                                  *)

\* A call of sock_send makes the stream longer, and writes nothing yet.
LEMMA SendKeeps ==
    ASSUME NEW c \in Conns, NEW n \in Lengths, Typed, Send(c, n),
           NEW off, Stream(c, off), Bodies(c)
    PROVE  Bodies(c)' /\ \E o : Stream(c, o)'
<1> DEFINE s == sent[c]
           N == Len(s)
           r == ReadTo(c, off) + Len(got[c])
<1>1. /\ sent'[c] = Append(s, n) /\ sendPart'[c] = "head" /\ left'[c] = Parts(N + 1, n, "head")
      /\ sendPart[c] = "idle" /\ net[c] = "up"
      /\ UNCHANGED <<net[c], wire[c], recvPart[c], got[c], length[c], received[c]>>
  BY DEF Send, Typed, Kinds, Sequences, server, receiver
<1>2. s \in Seq(Nat) /\ n \in Nat /\ Offsets(s, off)
  BY LengthsAssumption DEF Typed, Sequences, Stream
<1>3. /\ N \in Nat /\ Len(sent'[c]) = N + 1 /\ sent'[c][N + 1] = n
      /\ \A i \in 1..N : sent'[c][i] = s[i]
  BY <1>1, <1>2
<1>4. PICK o : /\ Offsets(Append(s, n), o)
               /\ \A i \in 1..(N + 1) : o[i] = off[i]
               /\ \A u, p : p \in Nat /\ Len(u) \in Nat /\ Segment(s, off, u, p) /\ p + Len(u) <= off[N + 1]
                             => Segment(Append(s, n), o, u, p)
  BY <1>2, LongerStream
<1>5. /\ ReadTo(c, off) \in Nat /\ Len(got[c]) \in Nat /\ Len(wire[c]) \in Nat
      /\ off[N + 1] \in Nat
  BY <1>3, Positions
<1>6. Current(c)' = Current(c) /\ Current(c) \in 1..(N + 1)
  BY <1>1 DEF Current, Stream, Receiving
<1>7. ReadTo(c, o)' = ReadTo(c, off)
  BY <1>1, <1>4, <1>6 DEF ReadTo
<1>8. r + Len(wire[c]) = off[N + 1]
  BY <1>1 DEF Stream, Between, Open, WrittenTo
<1>9. Len(left'[c]) = 2 /\ Segment(Append(s, n), o, left'[c], off[N + 1])
  <2>1. Append(s, n) \in Seq(Nat) /\ Len(Append(s, n)) = N + 1 /\ Append(s, n)[N + 1] = n
    BY <1>2
  <2>2. o[N + 1] + Before("head", n) = off[N + 1] /\ Size("head", n) = 2
    BY <1>3, <1>4, <1>5 DEF Before, Size
  <2> DEFINE m == Append(s, n)
  <2>3. m \in Seq(Nat) /\ Offsets(m, o) /\ Len(m) = N + 1 /\ Len(m) > 0 /\ m[Len(m)] = n
    BY <1>3, <1>4, <2>1
  <2> HIDE DEF m
  <2>4. /\ Len(Parts(Len(m), m[Len(m)], "head")) = Size("head", m[Len(m)])
        /\ Segment(m, o, Parts(Len(m), m[Len(m)], "head"), o[Len(m)] + Before("head", m[Len(m)]))
    BY <2>3, PartIsSegment
  <2>5. Parts(Len(m), m[Len(m)], "head") = left'[c]
    BY <1>1, <2>3
  <2> QED BY <2>2, <2>3, <2>4, <2>5 DEF m
<1>10. WrittenTo(c, o)' = off[N + 1]
  <2>1. o[N + 1] = off[N + 1] /\ Before("head", n) = 0 /\ Size("head", n) = 2
    BY <1>3, <1>4 DEF Before, Size
  <2>2. WrittenTo(c, o)' = o[N + 1] + Before("head", n) + Size("head", n) - Len(left'[c])
    BY <1>1, <1>3 DEF WrittenTo
  <2> QED BY <2>1, <2>2, <1>5, <1>9
<1>11. /\ Segment(Append(s, n), o, got[c], ReadTo(c, off))
       /\ Segment(Append(s, n), o, wire[c], r)
  <2>1. r \in Nat /\ ReadTo(c, off) + Len(got[c]) <= off[N + 1] /\ r + Len(wire[c]) <= off[N + 1]
    BY <1>5, <1>8
  <2>2. Segment(s, off, got[c], ReadTo(c, off)) /\ Segment(s, off, wire[c], r)
    BY DEF Stream, Receiving
  <2> QED BY <1>4, <1>5, <2>1, <2>2
<1>12. Receiving(c, o)'
  <2>1. recvPart[c] # "head" => Current(c) <= N /\ length[c] = s[Current(c)]
    BY DEF Stream, Receiving
  <2>2. Len(got[c]) <= Wanted(c) /\ Len(wire[c]) <= Room /\ Wanted(c)' = Wanted(c)
    BY <1>1 DEF Stream, Receiving, Wanted
  <2>3. recvPart'[c] # "head" => Current(c)' <= N + 1 /\ length'[c] = sent'[c][Current(c)']
    BY <1>1, <1>3, <1>6, <2>1
  <2>4. Current(c)' \in 1..(N + 2)
    BY <1>3, <1>6
  <2> QED BY <1>1, <1>3, <1>7, <1>11, <2>2, <2>3, <2>4 DEF Receiving
<1>13. Sending(c, o)'
  <2>1. Len(left'[c]) <= Size("head", n)
    BY <1>9 DEF Size
  <2>2. Segment(sent'[c], o, left'[c], WrittenTo(c, o)')
    BY <1>1, <1>9, <1>10
  <2>3. Len(sent'[c]) > 0 /\ sent'[c][Len(sent'[c])] = n
    BY <1>3
  <2> QED BY <1>1, <2>1, <2>2, <2>3 DEF Sending
<1>14. Between(c, o)'
  <2>1. ReadTo(c, o)' + Len(got'[c]) + Len(wire'[c]) = WrittenTo(c, o)'
    BY <1>1, <1>7, <1>8, <1>10
  <2>2. WrittenTo(c, o)' \in Nat
    BY <1>5, <1>10
  <2> QED BY <2>1, <2>2 DEF Between
<1>15. Bodies(c)'
  <2>1. Len(received[c]) <= N /\ Len(received[c]) \in Nat
    BY <1>3, <1>6, Positions DEF Stream, Receiving, Current
  <2> QED BY <1>1, <1>3, <2>1 DEF Bodies
<1> QED BY <1>1, <1>4, <1>12, <1>13, <1>14, <1>15 DEF Stream

\* What is written moves from the buffer of the client to the stream.
LEMMA WriteKeeps ==
    ASSUME NEW c \in Conns, NEW k \in 1..Room, Typed, Write(c, k),
           NEW off, Stream(c, off), Bodies(c)
    PROVE  Bodies(c)' /\ Stream(c, off)'
<1> DEFINE s == sent[c]
           l == left[c]
           w == wire[c]
           p == WrittenTo(c, off)
           r == ReadTo(c, off) + Len(got[c])
<1>1. /\ left'[c] = SubSeq(l, k + 1, Len(l)) /\ wire'[c] = w \o SubSeq(l, 1, k)
      /\ k \in 0..Len(l) /\ Len(w) + k <= Room /\ net[c] = "up"
      /\ UNCHANGED <<sent[c], sendPart[c], net[c], recvPart[c], got[c], length[c], received[c]>>
  <2>1. k \in 1..Len(l) /\ k \in 0..Len(l)
    BY DEF Write
  <2> QED BY <2>1 DEF Write, Remaining, Typed, Kinds, Sequences, server, receiver
<1>2. sendPart[c] # "idle"
  <2>1. l # <<>>
    BY DEF Write
  <2> QED BY <2>1 DEF Stream, Sending
<1>3. s \in Seq(Nat) /\ l \in Seq(Units) /\ w \in Seq(Units) /\ Offsets(s, off)
  BY DEF Typed, Sequences, Stream
<1>4. /\ ReadTo(c, off) \in Nat /\ p \in Nat
      /\ Len(l) \in Nat /\ Len(w) \in Nat /\ Len(got[c]) \in Nat
  BY Positions
<1>5. r + Len(w) = p
  BY <1>1 DEF Stream, Between, Open
<1>6. Segment(s, off, l, p) /\ Segment(s, off, w, r)
  BY <1>2 DEF Stream, Sending, Receiving
<1>7. /\ Len(left'[c]) = Len(l) - k /\ Len(wire'[c]) = Len(w) + k
      /\ SubSeq(l, 1, k) \in Seq(Units)
  BY <1>1, <1>3, Splitting, Joining
<1>8. /\ Segment(s, off, SubSeq(l, 1, k), p)
      /\ Segment(s, off, left'[c], p + k)
  BY <1>1, <1>3, <1>4, <1>6, SegmentSplits
<1>9. Segment(s, off, wire'[c], r)
  <2>1. r \in Nat /\ Segment(s, off, SubSeq(l, 1, k), r + Len(w))
    BY <1>4, <1>5, <1>8
  <2> HIDE DEF r
  <2>2. Segment(s, off, w \o SubSeq(l, 1, k), r)
    BY <1>3, <1>6, <1>7, <2>1, SegmentsJoin
  <2> QED BY <1>1, <2>2
<1>10. ReadTo(c, off)' = ReadTo(c, off) /\ Current(c)' = Current(c) /\ Wanted(c)' = Wanted(c)
  BY <1>1 DEF ReadTo, Current, Wanted
<1>11. WrittenTo(c, off)' = p + k
  <2> DEFINE n == Len(s)
             a == off[n]
             b == Before(sendPart[c], s[n])
             z == Size(sendPart[c], s[n])
             h == Len(l)
  <2>1. n \in 1..n /\ n \in Nat
    BY <1>2, <1>3 DEF Stream, Sending
  <2>2. a \in Nat /\ s[n] \in Nat
    BY <1>3, <2>1, OffsetFacts
  <2>3. b \in Nat /\ z \in Nat
    BY <2>2 DEF Before, Size
  <2>4. p = a + b + z - h
    BY <1>2 DEF WrittenTo
  <2>5. WrittenTo(c, off)' = a + b + z - Len(left'[c])
    BY <1>1, <1>2 DEF WrittenTo
  <2>6. h \in Nat /\ k \in Nat /\ Len(left'[c]) = h - k
    BY <1>4, <1>7
  <2> HIDE DEF a, b, z, h, p
  <2> QED BY <2>2, <2>3, <2>4, <2>5, <2>6
<1>12. Sending(c, off)'
  <2>1. Len(s) > 0 /\ Len(l) <= Size(sendPart[c], s[Len(s)])
    BY <1>2 DEF Stream, Sending
  <2>2. Size(sendPart[c], s[Len(s)]) \in Nat
    BY <1>3, <2>1, OffsetFacts DEF Size
  <2>3. Len(left'[c]) <= Size(sendPart[c], s[Len(s)])
    BY <1>4, <1>7, <2>1, <2>2
  <2> QED BY <1>1, <1>2, <1>8, <1>11, <2>1, <2>3 DEF Sending
<1>13. Receiving(c, off)'
  BY <1>1, <1>7, <1>9, <1>10 DEF Stream, Receiving
<1>14. Between(c, off)'
  <2>1. r + (Len(w) + k) = p + k
    BY <1>4, <1>5
  <2> QED BY <1>1, <1>4, <1>7, <1>10, <1>11, <2>1 DEF Between
<1> QED BY <1>1, <1>3, <1>12, <1>13, <1>14 DEF Bodies, Stream

\* The next buffer begins where the last one ended.
LEMMA NextPartKeeps ==
    ASSUME NEW c \in Conns, Typed, NextPart(c), NEW off, Stream(c, off), Bodies(c)
    PROVE  Bodies(c)' /\ Stream(c, off)'
<1> DEFINE s == sent[c]
           n == Len(s)
           part == sendPart[c]
           to == After(part)
           p == WrittenTo(c, off)
<1>1. /\ sendPart'[c] = to /\ left[c] = <<>> /\ part # "idle"
      /\ left'[c] = IF to = "idle" THEN <<>> ELSE Parts(n, s[n], to)
      /\ UNCHANGED <<sent[c], net[c], wire[c], recvPart[c], got[c], length[c], received[c]>>
  BY DEF NextPart, Typed, Kinds, Sequences, server, receiver
<1>2. s \in Seq(Nat) /\ Offsets(s, off) /\ n > 0 /\ n \in 1..n
  BY <1>1 DEF Typed, Sequences, Stream, Sending
<1>3. off[n] \in Nat /\ s[n] \in Nat /\ off[n + 1] = off[n] + s[n] + 4
  BY <1>2, OffsetFacts
<1>4. \/ part = "head" /\ to = "body"
      \/ part = "body" /\ to = "tail"
      \/ part = "tail" /\ to = "idle"
  BY <1>1, AfterParts DEF Typed, Kinds
<1>5. p = off[n] + Before(part, s[n]) + Size(part, s[n])
  <2> DEFINE b == Before(part, s[n])
             z == Size(part, s[n])
  <2>1. p = off[n] + b + z - Len(left[c])
    BY <1>1 DEF WrittenTo
  <2>2. Len(left[c]) = 0 /\ b \in Nat /\ z \in Nat
    BY <1>1, <1>3 DEF Before, Size
  <2> HIDE DEF b, z, p
  <2>3. p = off[n] + b + z
    BY <2>1, <2>2, <1>3
  <2> QED BY <2>3 DEF b, z
<1>6. to = "idle" => p = off[n + 1] /\ WrittenTo(c, off)' = off[n + 1]
  <2> SUFFICES ASSUME to = "idle" PROVE p = off[n + 1] /\ WrittenTo(c, off)' = off[n + 1]
    OBVIOUS
  <2>1. Before(part, s[n]) = s[n] + 2 /\ Size(part, s[n]) = 2
    BY <1>4 DEF Before, Size
  <2>2. WrittenTo(c, off)' = off[n + 1]
    BY <1>1 DEF WrittenTo
  <2> HIDE DEF p
  <2>3. p = off[n + 1]
    BY <2>1, <1>3, <1>5
  <2> QED BY <2>2, <2>3
<1>7. to # "idle" => p = off[n] + Before(to, s[n])
  BY <1>3, <1>4, <1>5 DEF Before, Size
<1>8. to # "idle" => /\ Len(left'[c]) = Size(to, s[n]) /\ Segment(s, off, left'[c], p)
                     /\ WrittenTo(c, off)' = p
  <2> SUFFICES ASSUME to # "idle"
               PROVE  /\ Len(left'[c]) = Size(to, s[n]) /\ Segment(s, off, left'[c], p)
                      /\ WrittenTo(c, off)' = p
    OBVIOUS
  <2>1. to \in {"head", "body", "tail"}
    BY <1>4
  <2>2. Len(left'[c]) = Size(to, s[n]) /\ Segment(s, off, left'[c], p)
    BY <2>1, <1>1, <1>2, <1>7, PartIsSegment
  <2> DEFINE b == Before(to, s[n])
             z == Size(to, s[n])
  <2>3. WrittenTo(c, off)' = off[n] + b + z - Len(left'[c])
    BY <2>1, <1>1 DEF WrittenTo
  <2>4. b \in Nat /\ z \in Nat /\ p = off[n] + b /\ Len(left'[c]) = z
    BY <2>2, <1>3, <1>7 DEF Before, Size
  <2> HIDE DEF b, z, p
  <2>5. WrittenTo(c, off)' = p
    BY <2>3, <2>4, <1>3
  <2> QED BY <2>2, <2>5 DEF p
<1>9. WrittenTo(c, off)' = p
  BY <1>6, <1>8
<1>10. ReadTo(c, off)' = ReadTo(c, off) /\ Current(c)' = Current(c) /\ Wanted(c)' = Wanted(c)
  BY <1>1 DEF ReadTo, Current, Wanted
<1>11. Sending(c, off)'
  <2>1. to = "idle" => left'[c] = <<>>
    BY <1>1
  <2>2. to # "idle" => /\ Len(left'[c]) <= Size(to, s[n]) /\ Segment(s, off, left'[c], WrittenTo(c, off)')
    BY <1>3, <1>8 DEF Size
  <2> HIDE DEF to
  <2> QED BY <2>1, <2>2, <1>1, <1>2 DEF Sending
<1>12. Receiving(c, off)'
  BY <1>1, <1>10 DEF Stream, Receiving
<1>13. Between(c, off)'
  BY <1>1, <1>9, <1>10 DEF Stream, Between
<1> QED BY <1>1, <1>2, <1>11, <1>12, <1>13 DEF Bodies, Stream

\* What a client no longer writes is missing from a stream that is lost anyway.
LEMMA SendFailsKeeps ==
    ASSUME NEW c \in Conns, Typed, SendFails(c), NEW off, Stream(c, off), Bodies(c)
    PROVE  Bodies(c)' /\ Stream(c, off)'
<1>1. /\ sendPart'[c] = "idle" /\ left'[c] = <<>> /\ net[c] \notin Open
      /\ UNCHANGED <<sent[c], net[c], wire[c], recvPart[c], got[c], length[c], received[c]>>
  BY DEF SendFails, Typed, Kinds, Sequences, server, receiver, Open
<1>2. ReadTo(c, off)' = ReadTo(c, off) /\ Current(c)' = Current(c) /\ Wanted(c)' = Wanted(c)
  BY <1>1 DEF ReadTo, Current, Wanted
<1>3. WrittenTo(c, off)' = off[Len(sent[c]) + 1]
  BY <1>1 DEF WrittenTo
<1>4. Between(c, off)'
  <2> DEFINE r == ReadTo(c, off) + Len(got[c]) + Len(wire[c])
             p == WrittenTo(c, off)
             e == off[Len(sent[c]) + 1]
  <2>1. r <= p /\ p <= e /\ r \in Nat /\ p \in Nat /\ e \in Nat
    <3>1. ReadTo(c, off) \in Nat /\ Len(got[c]) \in Nat /\ Len(wire[c]) \in Nat /\ p \in Nat /\ p <= e /\ e \in Nat
      BY Positions
    <3>2. r <= p
      BY DEF Stream, Between
    <3> QED BY <3>1, <3>2
  <2> HIDE DEF p
  <2>2. r <= e
    BY <2>1
  <2> QED BY <2>2, <1>1, <1>2, <1>3 DEF Between
<1>5. Receiving(c, off)'
  BY <1>1, <1>2 DEF Stream, Receiving
<1>6. Sending(c, off)'
  BY <1>1 DEF Sending
<1> QED BY <1>1, <1>4, <1>5, <1>6 DEF Bodies, Stream

-----------------------------------------------------------------------------
(* The steps of sock_recv.                                                  *)

\* What is read moves from the stream to the buffer of the receiver.
LEMMA ReadKeeps ==
    ASSUME NEW c \in Conns, NEW k \in 1..Room, Typed, sockOf[c] = c, Read(c, k),
           NEW off, Stream(c, off), Bodies(c)
    PROVE  Bodies(c)' /\ Stream(c, off)'
<1> DEFINE s == sent[c]
           g == got[c]
           w == wire[c]
           r == ReadTo(c, off)
<1>1. /\ wire'[c] = SubSeq(w, k + 1, Len(w)) /\ got'[c] = g \o SubSeq(w, 1, k)
      /\ k \in 0..Len(w) /\ Len(g) + k <= Wanted(c)
      /\ UNCHANGED <<sent[c], sendPart[c], net[c], recvPart[c], left[c], length[c], received[c]>>
  <2>1. k \in 1..Len(w) /\ k \in 0..Len(w)
    BY DEF Read
  <2> QED BY <2>1 DEF Read, Fits, Typed, Kinds, Sequences, server, sender
<1>2. s \in Seq(Nat) /\ g \in Seq(Units) /\ w \in Seq(Units) /\ Offsets(s, off)
  BY DEF Typed, Sequences, Stream
<1>3. r \in Nat /\ Len(g) \in Nat /\ Len(w) \in Nat /\ WrittenTo(c, off) \in Nat
  BY Positions
<1>4. /\ Len(wire'[c]) = Len(w) - k /\ Len(got'[c]) = Len(g) + k /\ Len(SubSeq(w, 1, k)) = k
      /\ SubSeq(w, 1, k) \in Seq(Units)
  BY <1>1, <1>2, Splitting, Joining
<1>5. Segment(s, off, g, r) /\ Segment(s, off, w, r + Len(g))
  BY DEF Stream, Receiving
<1>6. /\ Segment(s, off, SubSeq(w, 1, k), r + Len(g))
      /\ Segment(s, off, wire'[c], r + Len(g) + k)
  <2>1. r + Len(g) \in Nat
    BY <1>3
  <2> QED BY <1>1, <1>2, <1>5, <2>1, SegmentSplits
<1>7. Segment(s, off, got'[c], r)
  BY <1>1, <1>2, <1>3, <1>4, <1>5, <1>6, SegmentsJoin
<1>8. /\ ReadTo(c, off)' = r /\ Current(c)' = Current(c) /\ Wanted(c)' = Wanted(c)
      /\ WrittenTo(c, off)' = WrittenTo(c, off)
  BY <1>1 DEF ReadTo, WrittenTo, Current, Wanted
<1>9. r + Len(got'[c]) = r + Len(g) + k /\ Len(wire'[c]) <= Len(w) /\ Len(wire'[c]) \in Nat
  BY <1>1, <1>3, <1>4
<1>10. Receiving(c, off)'
  <2>1. Segment(s, off, wire'[c], r + Len(got'[c]))
    BY <1>6, <1>9
  <2>2. Len(wire'[c]) <= Room
    BY <1>3, <1>9, BoundsAssumption DEF Stream, Receiving
  <2>3. Len(got'[c]) <= Wanted(c)
    BY <1>1, <1>4
  <2> QED BY <1>1, <1>7, <1>8, <2>1, <2>2, <2>3 DEF Stream, Receiving
<1>11. Sending(c, off)'
  BY <1>1, <1>8 DEF Stream, Sending
<1>12. Between(c, off)'
  <2> DEFINE a == Len(g)
             b == Len(w)
  <2>1. a \in Nat /\ b \in Nat /\ k \in Nat /\ Len(got'[c]) = a + k /\ Len(wire'[c]) = b - k
    BY <1>3, <1>4
  <2> HIDE DEF a, b, r
  <2>2. r + Len(got'[c]) + Len(wire'[c]) = r + a + b
    BY <2>1, <1>3
  <2> QED BY <1>1, <1>8, <2>2 DEF Stream, Between, a, b, r
<1> QED BY <1>1, <1>2, <1>10, <1>11, <1>12 DEF Bodies, Stream

\* What has been read of the message in progress.
LEMMA WhatIsRead ==
    ASSUME NEW c \in Conns, Typed, NEW off, Stream(c, off), Len(got[c]) = Wanted(c), recvPart[c] = "head" => Len(got[c]) > 0
    PROVE  LET j == Current(c)
               s == sent[c]
           IN  /\ j \in 1..Len(s) /\ s[j] \in Nat /\ off[j] \in Nat
               /\ off[j + 1] = off[j] + s[j] + 4
               /\ recvPart[c] # "head" => length[c] = s[j]
               /\ Len(got[c]) = Size(recvPart[c], s[j])
               /\ \A k \in 1..Len(got[c]) : got[c][k] = Unit(j, s[j], Before(recvPart[c], s[j]) + k)
<1> DEFINE j == Current(c)
           s == sent[c]
           g == got[c]
           part == recvPart[c]
<1>1. /\ j \in 1..(Len(s) + 1) /\ (part # "head" => j <= Len(s) /\ length[c] = s[j])
      /\ Segment(s, off, g, ReadTo(c, off))
  BY DEF Stream, Receiving
<1>2. s \in Seq(Nat) /\ g \in Seq(Units) /\ Offsets(s, off) /\ part \in {"head", "body", "tail"}
  BY DEF Typed, Kinds, Sequences, Stream
<1>3. Len(s) \in Nat /\ Len(g) \in Nat /\ Len(wire[c]) \in Nat /\ ReadTo(c, off) \in Nat
  BY Positions
<1>4. j \in 1..Len(s)
  <2> SUFFICES ASSUME part = "head", j = Len(s) + 1 PROVE FALSE
    BY <1>1, <1>3
  <2>1. ReadTo(c, off) = off[Len(s) + 1] /\ off[Len(s) + 1] \in Nat
    <3>1. off[Len(s) + 1] \in Nat
      BY <1>2, <1>3, OffsetFacts
    <3>2. ReadTo(c, off) = off[j] + 0
      BY DEF ReadTo, Before
    <3> QED BY <3>1, <3>2
  <2> DEFINE p == WrittenTo(c, off)
             r == ReadTo(c, off)
             e == off[Len(s) + 1]
             h == Len(g)
             v == Len(wire[c])
  <2>2. r + h + v <= p /\ p <= e /\ p \in Nat
    BY Positions DEF Stream, Between
  <2>3. h > 0 /\ r = e /\ e \in Nat /\ h \in Nat /\ v \in Nat
    BY <1>3, <2>1
  <2> HIDE DEF p, r, e, h, v
  <2> QED BY <2>2, <2>3
<1>5. s[j] \in Nat /\ off[j] \in Nat /\ off[j + 1] = off[j] + s[j] + 4
  BY <1>2, <1>4, OffsetFacts
<1>6. Len(g) = Size(part, s[j])
  BY <1>1, <1>2 DEF Wanted, Size
<1>7. /\ ReadTo(c, off) = off[j] + Before(part, s[j]) /\ Before(part, s[j]) \in Nat
      /\ Before(part, s[j]) + Len(g) <= s[j] + 4
  <2>1. Before(part, length[c]) = Before(part, s[j])
    BY <1>1 DEF Before
  <2>2. ReadTo(c, off) = off[j] + Before(part, s[j])
    BY <2>1 DEF ReadTo
  <2>3. Before(part, s[j]) \in Nat /\ Before(part, s[j]) + Size(part, s[j]) <= s[j] + 4
    <3> DEFINE n == s[j]
    <3>1. n \in Nat /\ part \in {"head", "body", "tail"}
      BY <1>2, <1>5
    <3> HIDE DEF n, part
    <3>2. Before(part, n) \in Nat /\ Before(part, n) + Size(part, n) <= n + 4
      BY <3>1 DEF Before, Size
    <3> QED BY <3>2 DEF n
  <2> QED BY <2>2, <2>3, <1>6
<1> HIDE DEF j, s, g, part
<1>8. \A k \in 1..Len(g) : g[k] = Unit(j, s[j], Before(part, s[j]) + k)
  BY <1>1, <1>2, <1>4, <1>7, SegmentOfMessage
<1> QED BY <1>1, <1>4, <1>5, <1>6, <1>8 DEF j, s, g, part

\* A whole head says how long the body is.
LEMMA HeadReadKeeps ==
    ASSUME NEW c \in Conns, Typed, sockOf[c] = c, HeadRead(c), NEW off, Stream(c, off), Bodies(c)
    PROVE  Bodies(c)' /\ Stream(c, off)'
<1> DEFINE s == sent[c]
           j == Current(c)
           w == wire[c]
<1>1. /\ recvPart[c] = "head" /\ Len(got[c]) = 2 /\ Len(got[c]) = Wanted(c)
      /\ length'[c] = got[c][2][2] /\ recvPart'[c] = "body" /\ got'[c] = <<>>
      /\ UNCHANGED <<sent[c], sendPart[c], net[c], wire[c], left[c], received[c]>>
  BY DEF HeadRead, Wanted, Typed, Kinds, Sequences, server, sender
<1>2. /\ j \in 1..Len(s) /\ s[j] \in Nat /\ off[j] \in Nat
      /\ got[c][2] = Unit(j, s[j], Before("head", s[j]) + 2)
  BY <1>1, WhatIsRead
<1>3. length'[c] = s[j]
  <2>1. Unit(j, s[j], Before("head", s[j]) + 2) = Len2(s[j])
    BY <1>2 DEF Unit, Before
  <2> QED BY <1>1, <1>2, <2>1 DEF Len2
<1>4. Current(c)' = j
  BY <1>1 DEF Current
<1>5. ReadTo(c, off) = off[j] /\ ReadTo(c, off)' = off[j] + 2 /\ WrittenTo(c, off)' = WrittenTo(c, off)
  <2>1. ReadTo(c, off) = off[j] + 0
    BY <1>1 DEF ReadTo, Before
  <2>2. ReadTo(c, off)' = off[j] + 2 /\ WrittenTo(c, off)' = WrittenTo(c, off)
    BY <1>1, <1>4 DEF ReadTo, Before, WrittenTo
  <2> QED BY <2>1, <2>2, <1>2
<1>6. ReadTo(c, off)' + Len(got'[c]) = ReadTo(c, off) + Len(got[c])
  BY <1>1, <1>2, <1>5
<1>7. Receiving(c, off)'
  <2>1. Segment(s, off, w, ReadTo(c, off)' + Len(got'[c])) /\ Len(w) <= Room
    BY <1>6 DEF Stream, Receiving
  <2>2. Segment(s, off, got'[c], ReadTo(c, off)')
    BY <1>1 DEF Segment
  <2>3. Len(got'[c]) <= Wanted(c)' /\ j \in 1..(Len(s) + 1) /\ j <= Len(s)
    <3>1. Len(s) \in Nat
      BY Positions
    <3> QED BY <1>1, <1>2, <1>3, <3>1 DEF Wanted
  <2> QED BY <1>1, <1>3, <1>4, <2>1, <2>2, <2>3 DEF Receiving
<1>8. Sending(c, off)'
  BY <1>1, <1>5 DEF Stream, Sending
<1>9. Between(c, off)'
  BY <1>1, <1>5, <1>6 DEF Stream, Between
<1> QED BY <1>1, <1>7, <1>8, <1>9 DEF Bodies, Stream

\* A whole body is the message it was sent as.
LEMMA BodyReadKeeps ==
    ASSUME NEW c \in Conns, Typed, sockOf[c] = c, BodyRead(c), NEW off, Stream(c, off), Bodies(c)
    PROVE  Bodies(c)' /\ Stream(c, off)'
<1> DEFINE s == sent[c]
           j == Current(c)
           w == wire[c]
           x == [body |-> got[c], whole |-> FALSE]
<1>1. /\ recvPart[c] = "body" /\ Len(got[c]) = length[c] /\ Len(got[c]) = Wanted(c)
      /\ received'[c] = Append(received[c], x)
      /\ recvPart'[c] = "tail" /\ got'[c] = <<>>
      /\ UNCHANGED <<sent[c], sendPart[c], net[c], wire[c], left[c], length[c]>>
  BY DEF BodyRead, Wanted, Typed, Kinds, Sequences, server, sender
<1>2. /\ j \in 1..Len(s) /\ s[j] \in Nat /\ off[j] \in Nat /\ length[c] = s[j]
      /\ \A k \in 1..Len(got[c]) : got[c][k] = Unit(j, s[j], Before("body", s[j]) + k)
  BY <1>1, WhatIsRead
<1>3. /\ Len(received[c]) \in Nat /\ Len(received'[c]) = Len(received[c]) + 1
      /\ received'[c][Len(received[c]) + 1] = x
      /\ \A i \in 1..Len(received[c]) : received'[c][i] = received[c][i]
  BY <1>1 DEF Typed, Sequences
<1>4. Current(c)' = j /\ j = Len(received[c]) + 1
  BY <1>1, <1>3 DEF Current
<1>5. got[c] = Body(j, s[j])
  <2>1. got[c] \in Seq(Units) /\ Len(got[c]) = s[j]
    BY <1>1, <1>2 DEF Typed, Sequences
  <2>2. ASSUME NEW k \in 1..Len(got[c]) PROVE got[c][k] = <<"byte", j>>
    <3>1. Before("body", s[j]) = 2 /\ k \in 1..s[j]
      BY <2>1 DEF Before
    <3>2. \A n \in Nat : \A h \in 1..n : 2 + h \notin {1, n + 4} /\ 2 + h \notin {2, n + 3}
      OBVIOUS
    <3>3. Unit(j, s[j], 2 + k) = <<"byte", j>>
      BY <3>1, <3>2, <1>2, Zenon DEF Unit
    <3>4. Unit(j, s[j], Before("body", s[j]) + k) = <<"byte", j>>
      BY <3>1, <3>3, Zenon
    <3> QED BY <3>4, <1>2
  <2> DEFINE u == got[c]
             n == s[j]
             i == j
  <2> HIDE DEF u, n, i
  <2>3. u \in Seq(Units) /\ Len(u) = n /\ \A k \in 1..Len(u) : u[k] = <<"byte", i>>
    BY <2>1, <2>2 DEF u, n, i
  <2>4. u \in [1..n -> Units]
    BY <2>3
  <2>5. \A k \in 1..n : u[k] = <<"byte", i>>
    BY <2>3
  <2>6. u = [k \in 1..n |-> <<"byte", i>>]
    BY <2>4, <2>5
  <2> QED BY <2>6 DEF u, n, i, Body
<1>6. Bodies(c)'
  <2> SUFFICES ASSUME NEW i \in 1..(Len(received[c]) + 1), i <= Len(s)
               PROVE  received'[c][i].body = Body(i, s[i])
    BY <1>1, <1>3 DEF Bodies
  <2>1. CASE i = j
    BY <2>1, <1>3, <1>4, <1>5
  <2>2. CASE i # j
    <3>1. i \in 1..Len(received[c])
      BY <2>2, <1>3, <1>4
    <3> QED BY <3>1, <1>3 DEF Bodies
  <2> QED BY <2>1, <2>2
<1>7. ReadTo(c, off) = off[j] + 2 /\ ReadTo(c, off)' = off[j] + (s[j] + 2) /\ WrittenTo(c, off)' = WrittenTo(c, off)
  BY <1>1, <1>2, <1>4 DEF ReadTo, Before, WrittenTo
<1>8. ReadTo(c, off)' + Len(got'[c]) = ReadTo(c, off) + Len(got[c])
  <2> DEFINE a == off[j]
             n == s[j]
  <2>1. a \in Nat /\ n \in Nat /\ Len(got[c]) = n /\ Len(got'[c]) = 0
    BY <1>1, <1>2
  <2>2. ReadTo(c, off) = a + 2 /\ ReadTo(c, off)' = a + (n + 2)
    BY <1>7
  <2> HIDE DEF a, n
  <2> QED BY <2>1, <2>2
<1>9. Receiving(c, off)'
  <2>1. Segment(s, off, w, ReadTo(c, off)' + Len(got'[c])) /\ Len(w) <= Room
    BY <1>8 DEF Stream, Receiving
  <2>2. Segment(s, off, got'[c], ReadTo(c, off)')
    BY <1>1 DEF Segment
  <2>3. Len(got'[c]) <= Wanted(c)' /\ j \in 1..(Len(s) + 1) /\ j <= Len(s)
    <3>1. Len(s) \in Nat
      BY Positions
    <3> QED BY <1>1, <1>2, <3>1 DEF Wanted
  <2> QED BY <1>1, <1>2, <1>4, <2>1, <2>2, <2>3 DEF Receiving
<1>10. Sending(c, off)'
  BY <1>1, <1>7 DEF Stream, Sending
<1>11. Between(c, off)'
  BY <1>1, <1>7, <1>8 DEF Stream, Between
<1> QED BY <1>1, <1>6, <1>9, <1>10, <1>11 DEF Stream

\* After a tail comes the head of the next message, or the end of the stream.
LEMMA TailReadKeeps ==
    ASSUME NEW c \in Conns, Typed, sockOf[c] = c, TailRead(c), NEW off, Stream(c, off), Bodies(c)
    PROVE  Bodies(c)' /\ Stream(c, off)'
<1> DEFINE s == sent[c]
           j == Current(c)
           w == wire[c]
           x == received[c]
<1>1. /\ recvPart[c] = "tail" /\ Len(got[c]) = 2 /\ Len(got[c]) = Wanted(c)
      /\ received'[c] = [x EXCEPT ![Len(x)].whole = TRUE]
      /\ recvPart'[c] = "head" /\ got'[c] = <<>>
      /\ UNCHANGED <<sent[c], sendPart[c], net[c], wire[c], left[c], length[c]>>
  BY DEF TailRead, Wanted, Typed, Kinds, Sequences, server, sender
<1>2. /\ j \in 1..Len(s) /\ s[j] \in Nat /\ off[j] \in Nat /\ length[c] = s[j]
      /\ off[j + 1] = off[j] + s[j] + 4
  BY <1>1, WhatIsRead
<1>3. x \in Seq([body : Seq(Units), whole : BOOLEAN]) /\ Len(x) = j
  BY <1>1 DEF Typed, Sequences, Current
<1>4. Len(received'[c]) = Len(x) /\ \A i \in 1..Len(x) : received'[c][i].body = x[i].body
  BY <1>1, <1>3
<1>5. Current(c)' = j + 1
  BY <1>1, <1>3, <1>4 DEF Current
<1>6. Bodies(c)'
  <2>1. \A i \in 1..Len(x) : i <= Len(s) => x[i].body = Body(i, s[i])
    BY DEF Bodies
  <2>2. \A i \in 1..Len(received'[c]) : i <= Len(s) => received'[c][i].body = Body(i, s[i])
    BY <1>4, <2>1
  <2> QED BY <1>1, <2>2 DEF Bodies
<1>7. ReadTo(c, off) = off[j] + (s[j] + 2) /\ ReadTo(c, off)' = off[j + 1] + 0 /\ WrittenTo(c, off)' = WrittenTo(c, off)
  BY <1>1, <1>2, <1>5 DEF ReadTo, Before, WrittenTo
<1>8. ReadTo(c, off)' + Len(got'[c]) = ReadTo(c, off) + Len(got[c])
  <2>1. Len(got[c]) = 2 /\ Len(got'[c]) = 0
    BY <1>1
  <2>2. PICK a \in Nat, b \in Nat : a = off[j] /\ b = s[j]
    BY <1>2
  <2>3. ReadTo(c, off)' = a + b + 4 /\ ReadTo(c, off) = a + (b + 2)
    BY <1>2, <1>7, <2>2
  <2> HIDE DEF s, j
  <2>4. a + b + 4 + 0 = a + (b + 2) + 2
    OBVIOUS
  <2> QED BY <2>1, <2>3, <2>4
<1>9. Receiving(c, off)'
  <2>1. Segment(s, off, w, ReadTo(c, off)' + Len(got'[c])) /\ Len(w) <= Room
    BY <1>8 DEF Stream, Receiving
  <2>2. Segment(s, off, got'[c], ReadTo(c, off)')
    BY <1>1 DEF Segment
  <2>3. Len(got'[c]) <= Wanted(c)' /\ j + 1 \in 1..(Len(s) + 1)
    <3>1. Len(s) \in Nat
      BY Positions
    <3> QED BY <1>1, <1>2, <3>1 DEF Wanted
  <2> QED BY <1>1, <1>5, <2>1, <2>2, <2>3 DEF Receiving
<1>10. Sending(c, off)'
  BY <1>1, <1>7 DEF Stream, Sending
<1>11. Between(c, off)'
  BY <1>1, <1>7, <1>8 DEF Stream, Between
<1> QED BY <1>1, <1>6, <1>9, <1>10, <1>11 DEF Stream

-----------------------------------------------------------------------------
(* The whole.                                                               *)

\* What a step does to one connection.
LEMMA StreamStep ==
    ASSUME IInv, [Next]_vars, NEW c \in Conns
    PROVE  Bodies(c)' /\ \E o : Stream(c, o)'
<1>1. PICK off : Stream(c, off)
  BY DEF IInv
<1>2. Typed /\ Threads /\ Bodies(c)
  BY DEF IInv
<1>3. CASE Quiet(c)
  BY <1>1, <1>2, <1>3, QuietKeeps
<1> USE DEF Quiet, Open, server, sender, receiver
<1>4. CASE HandleConn \/ HandleConnSync \/ AcceptFails
  BY <1>2, <1>3, <1>4 DEF HandleConn, HandleConnSync, AcceptFails, Typed, Kinds, Sequences
<1>5. ASSUME NEW d \in Conns, Accept(d) \/ Connect(d) \/ Shut(d) \/ Break(d)
      PROVE  Quiet(c)
  <2>1. CASE Accept(d)
    BY <1>2, <2>1 DEF Accept
  <2>2. CASE Connect(d)
    BY <1>2, <2>2 DEF Connect, Typed, Kinds
  <2>3. CASE Shut(d)
    BY <1>2, <2>3 DEF Shut, Typed, Kinds
  <2>4. CASE Break(d)
    BY <1>2, <2>4 DEF Break, Typed, Kinds, Sequences
  <2> QED BY <1>5, <2>1, <2>2, <2>3, <2>4
<1>6. ASSUME NEW d \in Conns, Begin(d) \/ RecvFails(d)
      PROVE  Quiet(c)
  <2>1. CASE Begin(d)
    BY <2>1 DEF Begin
  <2>2. CASE RecvFails(d)
    BY <1>2, <2>2 DEF RecvFails, Typed, Kinds, Sequences, Threads
  <2> QED BY <1>6, <2>1, <2>2
<1>7. ASSUME NEW d \in Conns, d # c, (\E n \in Lengths : Send(d, n)) \/ SenderStep(d)
      PROVE  Quiet(c)
  <2>1. ASSUME NEW n \in Lengths, Send(d, n) PROVE Quiet(c)
    BY <1>2, <1>7, <2>1 DEF Send, Typed, Kinds, Sequences
  <2>2. ASSUME NEW k \in 1..Room, Write(d, k) PROVE Quiet(c)
    BY <1>2, <1>7, <2>2 DEF Write, Typed, Kinds, Sequences
  <2>3. CASE NextPart(d)
    BY <1>2, <1>7, <2>3 DEF NextPart, Typed, Kinds, Sequences
  <2>4. CASE SendFails(d)
    BY <1>2, <1>7, <2>4 DEF SendFails, Typed, Kinds, Sequences
  <2> QED BY <1>7, <2>1, <2>2, <2>3, <2>4 DEF SenderStep
<1>8. ASSUME NEW d \in Conns, d # c,
             (\E k \in 1..Room : Read(d, k)) \/ HeadRead(d) \/ BodyRead(d) \/ TailRead(d)
      PROVE  Quiet(c)
  <2>1. ASSUME NEW k \in 1..Room, Read(d, k) PROVE Quiet(c)
    BY <1>2, <1>8, <2>1 DEF Read, Typed, Kinds, Sequences, Threads
  <2>2. CASE HeadRead(d)
    BY <1>2, <1>8, <2>2 DEF HeadRead, Typed, Kinds, Sequences, Threads
  <2>3. CASE BodyRead(d)
    BY <1>2, <1>8, <2>3 DEF BodyRead, Typed, Kinds, Sequences, Threads
  <2>4. CASE TailRead(d)
    BY <1>2, <1>8, <2>4 DEF TailRead, Typed, Kinds, Sequences, Threads
  <2> QED BY <1>8, <2>1, <2>2, <2>3, <2>4
<1>9. CASE (\E n \in Lengths : Send(c, n)) \/ SenderStep(c)
  BY <1>1, <1>2, <1>9, SendKeeps, WriteKeeps, NextPartKeeps, SendFailsKeeps DEF SenderStep
<1>10. CASE (\E k \in 1..Room : Read(c, k)) \/ HeadRead(c) \/ BodyRead(c) \/ TailRead(c)
  <2>1. sockOf[c] = c
    BY <1>2, <1>10 DEF Threads, Read, HeadRead, BodyRead, TailRead
  <2> QED BY <1>1, <1>2, <1>10, <2>1, ReadKeeps, HeadReadKeeps, BodyReadKeeps, TailReadKeeps
<1>11. CASE UNCHANGED vars
  BY <1>3, <1>11 DEF vars
<1> QED
  BY <1>3, <1>4, <1>5, <1>6, <1>7, <1>8, <1>9, <1>10, <1>11 DEF Next, StartThread, HandlerStep

\* In every state of every run each connection has its own thread, and what was
\* received, is being read, is on the way and is still to be written is, one
\* after the other, what was given to sock_send.
THEOREM Invariance == Spec => []IInv
<1>1. ASSUME IInv, [Next]_vars PROVE IInv'
  <2>1. Typed' /\ Threads'
    <3>1. CASE Next
      BY <1>1, <3>1, TypedStep, ThreadsStep DEF IInv
    <3>2. CASE UNCHANGED vars
      BY <1>1, <3>2 DEF IInv, Typed, Kinds, Sequences, Threads, vars, server, sender, receiver
    <3> QED BY <1>1, <3>1, <3>2
  <2>2. \A c \in Conns : Bodies(c)' /\ \E o : Stream(c, o)'
    BY <1>1, StreamStep
  <2> QED BY <2>1, <2>2 DEF IInv
<1> QED BY InitInv, <1>1, PTL DEF Spec

\* No read runs over the end of a buffer, and no stream over its capacity.
THEOREM TypeCorrect == Spec => []TypeOK
<1>1. IInv => TypeOK
  BY DEF IInv, Typed, Kinds, Stream, Receiving, TypeOK
<1> QED BY Invariance, <1>1, PTL

\* No two threads run on one connection, whatever becomes of ctx->new_sock
\* before they start.
THEOREM HandlersApart == Spec => []OneHandler
<1>1. IInv => OneHandler
  BY DEF IInv, Threads, OneHandler
<1> QED BY Invariance, <1>1, PTL

\* What sock_recv returns is what sock_send was given, in order and without a
\* gap, however reads and writes are split and wherever the connection is lost.
THEOREM DeliveredInOrder == Spec => []InOrder
<1>1. ASSUME IInv, NEW c \in Conns
      PROVE  /\ Len(received[c]) <= Len(sent[c])
             /\ \A i \in 1..Len(received[c]) : received[c][i].body = Body(i, sent[c][i])
             /\ ~BadMagic(c)
  <2>1. PICK off : Stream(c, off)
    BY <1>1 DEF IInv
  <2>2. Typed /\ Bodies(c)
    BY <1>1 DEF IInv
  <2>3. Len(received[c]) \in Nat /\ Len(sent[c]) \in Nat /\ Len(received[c]) <= Len(sent[c])
    BY <2>1, <2>2, Positions DEF Stream, Receiving, Current
  <2>4. ~BadMagic(c)
    <3> SUFFICES ASSUME BadMagic(c) PROVE FALSE
      OBVIOUS
    <3> DEFINE j == Current(c)
               n == sent[c][j]
    <3>1. Len(got[c]) = 2 /\ recvPart[c] \in {"head", "tail"} /\ Len(got[c]) = Wanted(c)
      BY DEF BadMagic, Wanted
    <3>2. /\ n \in Nat
          /\ got[c][1] = Unit(j, n, Before(recvPart[c], n) + 1)
          /\ got[c][2] = Unit(j, n, Before(recvPart[c], n) + 2)
      BY <2>1, <2>2, <3>1, WhatIsRead
    <3> HIDE DEF j, n
    <3>3. CASE recvPart[c] = "head"
      BY <3>2, <3>3 DEF BadMagic, Unit, Before
    <3>4. CASE recvPart[c] = "tail"
      BY <3>2, <3>4 DEF BadMagic, Unit, Before
    <3> QED BY <3>1, <3>3, <3>4
  <2> QED BY <2>2, <2>3, <2>4 DEF Bodies
<1>2. IInv => InOrder
  BY <1>1 DEF InOrder
<1> QED BY Invariance, <1>2, PTL
=============================================================================
