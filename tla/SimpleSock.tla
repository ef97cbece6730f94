----------------------------- MODULE SimpleSock -----------------------------
(****************************************************************************)
(* simple_sock.c: the accept loop that gives every connection a thread, and *)
(* the framing of messages over a stream whose reads and writes are         *)
(* partial and which may break at any time.                                 *)
(*                                                                          *)
(* One client per connection sends messages by sock_send; the handler of    *)
(* the server, which the program supplies, is taken to call sock_recv until *)
(* it fails and then to return.  A message is its length; its bytes and the *)
(* two words of its head and of its tail are the units of the stream.  The  *)
(* bytes carry the number of their message, so that a mix-up shows.         *)
(****************************************************************************)
EXTENDS Integers, Sequences, FiniteSets

CONSTANTS
    Conns,       \* connections, one for each client
    Lengths,     \* lengths of messages
    MAX_CONNS,   \* the backlog of listen
    MaxMsgs,     \* bound: messages each client sends
    Room,        \* what the stream holds that is written and not read
    NoConn

ASSUME ConnsAssumption == IsFiniteSet(Conns) /\ NoConn \notin Conns
ASSUME LengthsAssumption == Lengths \subseteq Nat
ASSUME BoundsAssumption == {MAX_CONNS, Room} \subseteq Nat \ {0} /\ MaxMsgs \in [Conns -> Nat]

VARIABLES
    accepting,   \* the server thread: "wait" in accept, "start" before
                 \* pthread_create, or "ended"
    newSock,     \* ctx->new_sock, which the next accept overwrites
    backlog,     \* connections that wait to be accepted
    thread,      \* by connection accepted, the thread made for it: "none",
                 \* "made", "run" or "done"
    copied,      \* new_sock in the copy of ctx that this thread was given
    sockOf,      \* the connection on which it runs its handler
    net,         \* a connection: "new", "up", "shut" by its client, "broken"
                 \* (which it stays), "refused" for want of a thread, or "closed"
                 \* by its handler
    wire,        \* what was written and not yet read
    sendPart, left,  \* sock_send: the buffer being written, what is left of it
    recvPart, got,   \* sock_recv: the buffer being read, what was read of it
    length,          \* its head.length
    sent, ok,        \* history: messages begun, and how many returned 0
    received         \* history: messages that sock_recv returned

server   == <<accepting, newSock, backlog, thread, copied, sockOf>>
sender   == <<sendPart, left, sent, ok>>
receiver == <<recvPart, got, length, received>>
vars == <<server, net, wire, sender, receiver>>

Magic  == <<"magic", 0>>
Len2(n) == <<"length", n>>
Body(i, n) == [k \in 1..n |-> <<"byte", i>>]

Init ==
    /\ accepting = "wait" /\ newSock = NoConn /\ backlog = {}
    /\ thread = [c \in Conns |-> "none"]
    /\ copied = [c \in Conns |-> NoConn]
    /\ sockOf = [c \in Conns |-> NoConn]
    /\ net = [c \in Conns |-> "new"]
    /\ wire = [c \in Conns |-> <<>>]
    /\ sendPart = [c \in Conns |-> "idle"] /\ left = [c \in Conns |-> <<>>]
    /\ sent = [c \in Conns |-> <<>>] /\ ok = [c \in Conns |-> 0]
    /\ recvPart = [c \in Conns |-> "head"] /\ got = [c \in Conns |-> <<>>]
    /\ length = [c \in Conns |-> 0]
    /\ received = [c \in Conns |-> <<>>]

-----------------------------------------------------------------------------
(* The server.                                                              *)

\* sock_connect_server: the kernel completes it, and queues the connection.
Connect(c) ==
    /\ net[c] = "new"
    /\ Cardinality(backlog) < MAX_CONNS
    /\ net' = [net EXCEPT ![c] = "up"]
    /\ backlog' = backlog \cup {c}
    /\ UNCHANGED <<accepting, newSock, thread, copied, sockOf, wire, sender, receiver>>

\* get_conn.
Accept(c) ==
    /\ accepting = "wait"
    /\ c \in backlog
    /\ backlog' = backlog \ {c}
    /\ newSock' = c
    /\ accepting' = "start"
    /\ UNCHANGED <<thread, copied, sockOf, net, wire, sender, receiver>>

\* accept fails: the loop ends, and nobody closes listen_sock.
AcceptFails ==
    /\ accepting = "wait"
    /\ accepting' = "ended"
    /\ UNCHANGED <<newSock, backlog, thread, copied, sockOf, net, wire, sender, receiver>>

\* handle_conn: the thread gets a copy of ctx.
HandleConn ==
    /\ accepting = "start"
    /\ thread' = [thread EXCEPT ![newSock] = "made"]
    /\ copied' = [copied EXCEPT ![newSock] = newSock]
    /\ accepting' = "wait"
    /\ UNCHANGED <<newSock, backlog, sockOf, net, wire, sender, receiver>>

\* pthread_create fails: the connection is closed without a handler.
HandleConnSync ==
    /\ accepting = "start"
    /\ net' = [net EXCEPT ![newSock] = "refused"]
    /\ wire' = [wire EXCEPT ![newSock] = <<>>]
    /\ accepting' = "wait"
    /\ UNCHANGED <<newSock, backlog, thread, copied, sockOf, sender, receiver>>

\* Each operator named ...Bug is the definition below it with a plausible
\* mistake.  No specification uses it: it shows that a property can fail.

\* The thread is given ctx itself.
ArgOfBug(t) == newSock

ArgOf(t) == copied[t]

\* handle_conn_routine starts.
Begin(t) ==
    /\ thread[t] = "made"
    /\ thread' = [thread EXCEPT ![t] = "run"]
    /\ sockOf' = [sockOf EXCEPT ![t] = ArgOf(t)]
    /\ UNCHANGED <<accepting, newSock, backlog, copied, net, wire, sender, receiver>>

-----------------------------------------------------------------------------
(* sock_send.                                                               *)

Parts(i, n, part) ==
    CASE part = "head" -> <<Magic, Len2(n)>>
      [] part = "body" -> Body(i, n)
      [] part = "tail" -> <<Len2(n), Magic>>

After(part) == CASE part = "head" -> "body" [] part = "body" -> "tail" [] part = "tail" -> "idle"

Send(c, n) ==
    /\ net[c] = "up"
    /\ sendPart[c] = "idle"
    /\ Len(sent[c]) < MaxMsgs[c]
    /\ sent' = [sent EXCEPT ![c] = Append(@, n)]
    /\ sendPart' = [sendPart EXCEPT ![c] = "head"]
    /\ left' = [left EXCEPT ![c] = Parts(Len(sent[c]) + 1, n, "head")]
    /\ UNCHANGED <<server, net, wire, ok, receiver>>

\* One write is taken for all of the buffer.
RemainingBug(c, k) == <<>>

Remaining(c, k) == SubSeq(left[c], k + 1, Len(left[c]))

\* A write in wr_buf takes part of what is left.
Write(c, k) ==
    /\ net[c] = "up"
    /\ k \in 1..Len(left[c]) /\ Len(wire[c]) + k <= Room
    /\ wire' = [wire EXCEPT ![c] = @ \o SubSeq(left[c], 1, k)]
    /\ left' = [left EXCEPT ![c] = Remaining(c, k)]
    /\ UNCHANGED <<server, net, sendPart, sent, ok, receiver>>

\* wr_buf returns 0 and sock_send goes on to the next buffer, or returns.
NextPart(c) ==
    LET to == After(sendPart[c])
        i  == Len(sent[c])
    IN  /\ sendPart[c] # "idle"
        /\ left[c] = <<>>
        /\ sendPart' = [sendPart EXCEPT ![c] = to]
        /\ left' = [left EXCEPT ![c] = IF to = "idle" THEN <<>> ELSE Parts(i, sent[c][i], to)]
        /\ ok' = IF to = "idle" THEN [ok EXCEPT ![c] = i] ELSE ok
        /\ UNCHANGED <<server, net, wire, sent, receiver>>

\* A write fails: sock_send returns -1 and the client gives up, or SIGPIPE ends
\* it.
SendFails(c) ==
    /\ net[c] \in {"broken", "refused", "closed"}
    /\ sendPart[c] # "idle" /\ left[c] # <<>>
    /\ sendPart' = [sendPart EXCEPT ![c] = "idle"]
    /\ left' = [left EXCEPT ![c] = <<>>]
    /\ UNCHANGED <<server, net, wire, sent, ok, receiver>>

\* The client closes the connection after its last message.
Shut(c) ==
    /\ net[c] = "up" /\ sendPart[c] = "idle"
    /\ net' = [net EXCEPT ![c] = "shut"]
    /\ UNCHANGED <<server, wire, sender, receiver>>

-----------------------------------------------------------------------------
(* sock_recv, called by the handler of thread t on its connection.          *)

\* Body and tail are read for what the head says, whatever it was.
Wanted(c) == IF recvPart[c] = "body" THEN length[c] ELSE 2

FitsBug(c, k) == k <= Wanted(c)

Fits(c, k) == Len(got[c]) + k <= Wanted(c)

Read(t, k) ==
    LET c == sockOf[t] IN
    /\ thread[t] = "run"
    /\ k \in 1..Len(wire[c]) /\ Fits(c, k)
    /\ got' = [got EXCEPT ![c] = @ \o SubSeq(wire[c], 1, k)]
    /\ wire' = [wire EXCEPT ![c] = SubSeq(@, k + 1, Len(@))]
    /\ UNCHANGED <<server, net, sender, recvPart, length, received>>

HeadRead(t) ==
    LET c == sockOf[t] IN
    /\ thread[t] = "run"
    /\ recvPart[c] = "head" /\ Len(got[c]) = 2
    /\ got[c][1] = Magic
    /\ length' = [length EXCEPT ![c] = got[c][2][2]]
    /\ recvPart' = [recvPart EXCEPT ![c] = "body"]
    /\ got' = [got EXCEPT ![c] = <<>>]
    /\ UNCHANGED <<server, net, wire, sender, received>>

\* The message is complete; nothing looks at tail.length.  (The history gets
\* the body when it is read, and keeps it when the tail is right.)
BodyRead(t) ==
    LET c == sockOf[t] IN
    /\ thread[t] = "run"
    /\ recvPart[c] = "body" /\ Len(got[c]) = length[c]
    /\ received' = [received EXCEPT ![c] = Append(@, [body |-> got[c], whole |-> FALSE])]
    /\ recvPart' = [recvPart EXCEPT ![c] = "tail"]
    /\ got' = [got EXCEPT ![c] = <<>>]
    /\ UNCHANGED <<server, net, wire, sender, length>>

TailRead(t) ==
    LET c == sockOf[t] IN
    /\ thread[t] = "run"
    /\ recvPart[c] = "tail" /\ Len(got[c]) = 2
    /\ got[c][2] = Magic
    /\ received' = [received EXCEPT ![c][Len(received[c])].whole = TRUE]
    /\ recvPart' = [recvPart EXCEPT ![c] = "head"]
    /\ got' = [got EXCEPT ![c] = <<>>]
    /\ UNCHANGED <<server, net, wire, sender, length>>

\* sock_recv returns -1: the stream has ended or broken, or a magic number is
\* wrong.  The handler returns, handle_conn_impl closes the connection.  (In the
\* body the buffer that was allocated for it stays with the caller.)
BadMagicBug(c) == recvPart[c] \in {"head", "tail"} /\ Len(got[c]) = 2 /\ got[c][1] # Magic

BadMagic(c) ==
    /\ Len(got[c]) = 2
    /\ \/ recvPart[c] = "head" /\ got[c][1] # Magic
       \/ recvPart[c] = "tail" /\ got[c][2] # Magic

Ended(c) == wire[c] = <<>> /\ net[c] # "up" /\ Len(got[c]) < Wanted(c)

RecvFails(t) ==
    LET c == sockOf[t] IN
    /\ thread[t] = "run"
    /\ BadMagic(c) \/ Ended(c)
    /\ thread' = [thread EXCEPT ![t] = "done"]
    /\ net' = [net EXCEPT ![c] = IF @ = "broken" THEN @ ELSE "closed"]
    /\ wire' = [wire EXCEPT ![c] = <<>>]
    /\ UNCHANGED <<accepting, newSock, backlog, copied, sockOf, sender, receiver>>

-----------------------------------------------------------------------------
\* The network loses the connection, with what is on the way.
Break(c) ==
    /\ net[c] \in {"up", "shut"}
    /\ net' = [net EXCEPT ![c] = "broken"]
    /\ wire' = [wire EXCEPT ![c] = <<>>]
    /\ UNCHANGED <<server, sender, receiver>>

StartThread == HandleConn \/ HandleConnSync

SenderStep(c) == (\E k \in 1..Room : Write(c, k)) \/ NextPart(c) \/ SendFails(c)

HandlerStep(t) ==
    \/ Begin(t)
    \/ \E k \in 1..Room : Read(t, k)
    \/ HeadRead(t) \/ BodyRead(t) \/ TailRead(t) \/ RecvFails(t)

Next ==
    \/ StartThread \/ AcceptFails
    \/ \E c \in Conns :
         \/ Accept(c) \/ Connect(c) \/ Shut(c) \/ Break(c)
         \/ \E n \in Lengths : Send(c, n)
         \/ SenderStep(c) \/ HandlerStep(c)

\* A thread that can go on does.  Whether an accept fails, and whether a thread
\* can be made, is not up to the program: neither need ever happen.
Fairness ==
    /\ WF_vars(\E c \in Conns : Accept(c)) /\ WF_vars(StartThread)
    /\ \A c \in Conns : WF_vars(SenderStep(c)) /\ WF_vars(HandlerStep(c))

Spec == Init /\ [][Next]_vars /\ Fairness

-----------------------------------------------------------------------------
(* Properties.                                                              *)

\* Every variable has its type; reading never runs over the end of a buffer.
TypeOK ==
    /\ accepting \in {"wait", "start", "ended"} /\ newSock \in Conns \cup {NoConn}
    /\ backlog \subseteq Conns
    /\ sockOf \in [Conns -> Conns \cup {NoConn}]
    /\ net \in [Conns -> {"new", "up", "shut", "broken", "refused", "closed"}]
    /\ \A c \in Conns : Len(wire[c]) <= Room /\ Len(got[c]) <= Wanted(c)
    /\ recvPart \in [Conns -> {"head", "body", "tail"}]
    /\ sendPart \in [Conns -> {"idle", "head", "body", "tail"}]

\* No two threads run on one connection, and none on one that another closed,
\* although one ctx->new_sock serves for all: each has the copy made for it.
OneHandler ==
    \A s, t \in Conns :
        /\ thread[s] \in {"run", "done"} /\ thread[t] \in {"run", "done"}
        /\ sockOf[s] = sockOf[t]
        => s = t

\* What sock_recv returns on a connection are the messages given to sock_send
\* there, whole, unmixed, in order and without a gap, however reads and writes
\* are split; it never meets a wrong magic number.
InOrder ==
    \A c \in Conns :
        /\ Len(received[c]) <= Len(sent[c])
        /\ \A i \in 1..Len(received[c]) : received[c][i].body = Body(i, sent[c][i])
        /\ ~BadMagic(c)

Whole(c) == {i \in 1..Len(received[c]) : received[c][i].whole}

\* The accept loop has ended before it came to the connection.
Forsaken(c) == accepting = "ended" /\ thread[c] = "none"

\* A message whose sock_send returned 0 is received, unless the connection was
\* lost, refused for want of a thread, or not accepted before the accept loop
\* ended.
SentArrives ==
    \A c \in Conns : \A i \in 1..MaxMsgs[c] :
        ok[c] = i ~> (i \in Whole(c) \/ net[c] \in {"broken", "refused"} \/ Forsaken(c))
=============================================================================
