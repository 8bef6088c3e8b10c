------------------------------ MODULE Sessions ------------------------------
(***************************************************************************)
(* The sessions of gatesrv: websocket connections come, shake hands, send  *)
(* frames and go (gatesrv/websocket/websocket.cc), over the event loop of  *)
(* module Ae; their frames go to gamesrv and its answers come back over    *)
(* one link that breaks and is connected again                             *)
(* (gatesrv/gameclient/gameclient.cc, the Lua of gatesrv); gamesrv knows a *)
(* connection only by its session id.  gatesrv may end and start again.    *)
(*                                                                         *)
(* What is abstracted: what is put into a send buffer is on the wire, and  *)
(* the writable event has only its own effects left (module Link); a       *)
(* client sends its next frame when gatesrv has taken the one before       *)
(* (module Frames shows what becomes of frames that come together or in    *)
(* pieces); when the link breaks, what is on the way is lost.  Of          *)
(* gamesrv's handlers there is whose actor a session id has (module        *)
(* Login).                                                                 *)
(***************************************************************************)
EXTENDS Ae, Sequences, Integers

CONSTANTS
  Conns,        \* the websocket connections
  Link,         \* the owner of the socket to gamesrv
  MaxSessions,  \* bound: the connections one run of gatesrv accepts
  MaxPackets,   \* bound: the packets on the link, each way
  MaxFailures   \* bound: how often the link breaks or gatesrv is started again

ASSUME SessionsAssumption ==
  /\ Link \notin Conns /\ Listener \notin Conns \cup {Link}
  /\ Nil \notin Conns \cup {Link, Listener} \cup Nat
  /\ Nil \notin Nat \X Nat /\ Nil \notin [sid : Nat \X Nat, run : Nat]
  /\ MaxSessions \in Nat \ {0} /\ MaxSessions <= 65536  \* sessionid_counter has sixteen bits
  /\ {MaxPackets, MaxFailures} \subseteq Nat

Sids == Fds \X (0..(MaxSessions - 1))  \* sockfd << 16 | sessionid_counter

VARIABLES
  client,       \* where each client is
  inbox,        \* its frame in the kernel of gatesrv
  backlog,      \* the connections that are not accepted yet
  session,      \* session_array
  counter,      \* sessionid_counter
  sockfd_,      \* Gameclient.sockfd_
  is_connect_,  \* Gameclient.is_connect_
  alive,        \* does the link hold
  toGame,       \* the packets from gatesrv to gamesrv
  toGate,       \* the packets from gamesrv to gatesrv
  actor,        \* gamesrv's actor_session: whose the actor of each sid is
  failures,     \* how often the link has broken or gatesrv has ended
  run,          \* how often gatesrv has ended
  given,        \* ghost: the sid each connection was given, and in which run
  left,         \* descriptors whose send buffer was freed with blocks in it
  stray         \* ghost: a frame was put on the link, or into a freed block

loop    == <<owner, mask, polled, fired>>
clients == <<client, inbox, backlog>>
table   == <<session, counter, given>>
gate    == <<sockfd_, is_connect_>>
link    == <<alive, toGame, toGate>>
bounds  == <<failures, run>>
buffers == <<left, stray>>
vars    == <<loop, clients, table, gate, link, actor, bounds, buffers>>

NoSession == [sid |-> Nil, had_shake |-> FALSE]

Init ==
  /\ owner = [fd \in Fds |-> IF fd = listenfd THEN Listener ELSE Nil]
  /\ mask = [fd \in Fds |-> IF fd = listenfd THEN {R} ELSE {}]
  /\ polled = [fd \in Fds |-> IF fd = listenfd THEN {R} ELSE {}]
  /\ fired = {}
  /\ client = [c \in Conns |-> "new"]
  /\ inbox = [c \in Conns |-> Nil]
  /\ backlog = {}
  /\ session = [fd \in Fds |-> NoSession]
  /\ counter = 0
  /\ sockfd_ = Nil
  /\ is_connect_ = FALSE
  /\ alive = FALSE
  /\ toGame = <<>>
  /\ toGate = <<>>
  /\ actor = [sid \in Sids |-> Nil]
  /\ failures = 0
  /\ run = 0
  /\ given = [c \in Conns |-> Nil]
  /\ left = {}
  /\ stray = FALSE

-----------------------------------------------------------------------------
(* Clients *)

\* A browser connects and asks for the handshake.
ClientConnect(c) ==
  /\ client[c] = "new"
  /\ client' = [client EXCEPT ![c] = "asked"]
  /\ inbox' = [inbox EXCEPT ![c] = "shake"]
  /\ backlog' = backlog \cup {c}
  /\ UNCHANGED <<loop, table, gate, link, actor, bounds, buffers>>

\* Once it has the answer it sends data, and at the end a close frame.
ClientSend(c, frame) ==
  /\ client[c] = "open"
  /\ inbox[c] = Nil
  /\ inbox' = [inbox EXCEPT ![c] = frame]
  /\ client' = [client EXCEPT ![c] = IF frame = "bye" THEN "bye" ELSE @]
  /\ UNCHANGED <<loop, backlog, table, gate, link, actor, bounds, buffers>>

\* It closes its end, with or without a close frame, or its connection fails; or
\* it sends what the receive buffer can not hold, and is as good as gone: once it
\* is full, recv is called with length zero (module Frames).
ClientLeave(c) ==
  /\ client[c] \in {"asked", "open", "bye"}
  /\ client' = [client EXCEPT ![c] = "gone"]
  /\ UNCHANGED <<loop, inbox, backlog, table, gate, link, actor, bounds, buffers>>

-----------------------------------------------------------------------------
(* Send buffers *)

\* Mutant: the buffer is not made anew.
CreatedNever(fd) == UNCHANGED buffers

\* Sendbuf::create
Created(fd) == left' = left \ {fd} /\ UNCHANGED stray

\* Sendbuf::free: the blocks go back to the pool and the tail stays.  There are
\* some as long as the writable event is asked for.
Freed(fd) ==
  /\ left' = IF W \in mask[fd] THEN left \cup {fd} ELSE left
  /\ UNCHANGED stray

-----------------------------------------------------------------------------
(* Packets and frames *)

\* The descriptor of the session with this id.  A session stays in the table
\* when its socket is closed: session_close does nothing.
session_find(sid) == IF session[sid[1]].sid = sid THEN sid[1] ELSE Nil

\* send_frame to every sid of S, whatever their descriptors are now: _real_send
\* copies into the block that block_tail names before it asks for the event.
\* The buffer of a closed descriptor has a block of its own then, which the next
\* create forgets; or it has none, and the tail names one that was freed: it may
\* be in the pool or in the buffer of another descriptor.
Found(S) == {session_find(sid) : sid \in S} \ {Nil}
PutFrames(S) ==
  /\ Create(Found(S), W)
  /\ stray' = (stray \/ \E fd \in Found(S) : owner[fd] = Link \/ fd \in left)
  /\ UNCHANGED left

\* Mutant: its fields are written in the wrong order.
PacketSwapped(cmd, sid, from) == [cmd |-> sid, sid |-> cmd, from |-> from]

\* send_session_open, send_session_close, send_data
Packet(cmd, sid, from) == [cmd |-> cmd, sid |-> sid, from |-> from]

\* Websocket.dispatch, on_session_open and on_session_close (Lua): a packet to
\* gamesrv, or a frame that says there is none.  S: who else is sent to.
Forward(cmd, fd, S) ==
  /\ IF is_connect_
     THEN /\ toGame' = IF alive
                       THEN Append(toGame, Packet(cmd, session[fd].sid, owner[fd]))
                       ELSE toGame
          /\ Create({sockfd_} \cup S, W)
     ELSE /\ Create(Found({session[fd].sid}) \cup S, W)
          /\ UNCHANGED toGame
  /\ UNCHANGED <<owner, alive, toGate, buffers>>

-----------------------------------------------------------------------------
(* Events of the websocket *)

\* What the kernel has for each descriptor.
Ready ==
  [fd \in Fds |->
     IF owner[fd] = Listener THEN IF backlog # {} THEN {R} ELSE {}
     ELSE IF owner[fd] = Link THEN IF alive /\ toGate = <<>> THEN {W} ELSE {R, W}
     ELSE IF owner[fd] = Nil THEN {}
     ELSE IF inbox[owner[fd]] = Nil /\ client[owner[fd]] # "gone" THEN {W}
     ELSE {R, W}]

\* Mutant: the counter stands still.
SessionInitSame(fd, c) ==
  /\ session' = [session EXCEPT ![fd] = [sid |-> <<fd, counter>>, had_shake |-> FALSE]]
  /\ given' = [given EXCEPT ![c] = [sid |-> <<fd, counter>>, run |-> run]]
  /\ UNCHANGED counter

\* session_init
SessionInit(fd, c) ==
  /\ session' = [session EXCEPT ![fd] = [sid |-> <<fd, counter>>, had_shake |-> FALSE]]
  /\ counter' = counter + 1
  /\ given' = [given EXCEPT ![c] = [sid |-> <<fd, counter>>, run |-> run]]

\* _ev_accept: one connection an event, or none when all descriptors are in use.
Accept(e) ==
  /\ e.who = Listener
  /\ ReadTurn(e)
  /\ \/ /\ counter < MaxSessions
        /\ \E c \in backlog, fd \in Fds :
             /\ Lowest(fd)
             /\ backlog' = backlog \ {c}
             /\ SessionInit(fd, c)
             /\ Opened(fd, c)
             /\ Created(fd)
     \/ /\ Free = {}
        /\ UNCHANGED <<owner, mask, polled, backlog, table, buffers>>
  /\ UNCHANGED <<client, inbox, gate, link, actor, bounds>>

\* recv fails, or has no room: real_close.  on_session_close is not called.
WsClose(fd) ==
  /\ Close(fd)
  /\ Freed(fd)
  /\ UNCHANGED <<clients, table, gate, link, actor, bounds>>

WsEnd(e) ==
  /\ e.who \in Conns
  /\ ReadTurn(e)
  /\ inbox[e.who] = Nil
  /\ client[e.who] = "gone"
  /\ WsClose(e.fd)

\* _ev_readable: the handshake, or a frame.  A close frame is passed on; the
\* socket stays open.
WsReadable(e) ==
  /\ e.who \in Conns
  /\ ReadTurn(e)
  /\ inbox[e.who] # Nil
  /\ Len(toGame) < MaxPackets
  /\ inbox' = [inbox EXCEPT ![e.who] = Nil]
  /\ \/ /\ ~session[e.fd].had_shake
        /\ session' = [session EXCEPT ![e.fd].had_shake = TRUE]
        /\ client' = [client EXCEPT ![e.who] = IF @ = "asked" THEN "open" ELSE @]
        /\ Forward("open", e.fd, {e.fd})
     \/ /\ session[e.fd].had_shake
        /\ Forward(IF inbox[e.who] = "bye" THEN "close" ELSE "data", e.fd, {})
        /\ UNCHANGED <<session, client>>
  /\ UNCHANGED <<backlog, counter, given, gate, actor, bounds>>

\* _ev_writable: all is sent, or what the kernel has room for, or the client is
\* gone and send fails.
WsWritable(e) ==
  /\ e.who \in Conns
  /\ WriteTurn(e)
  /\ \/ /\ Delete(e.fd, W) \/ UNCHANGED <<mask, polled>>
        /\ UNCHANGED <<owner, clients, table, gate, link, actor, bounds, buffers>>
     \/ /\ client[e.who] = "gone"
        /\ WsClose(e.fd)

-----------------------------------------------------------------------------
(* The link, at gatesrv *)

\* Mutant: the descriptor is not forgotten.
LinkCloseKept(fd) ==
  /\ Close(fd)
  /\ Freed(fd)
  /\ is_connect_' = FALSE
  /\ UNCHANGED <<clients, table, sockfd_, link, actor, bounds>>

\* real_close
LinkClose(fd) ==
  /\ Close(fd)
  /\ Freed(fd)
  /\ sockfd_' = Nil
  /\ is_connect_' = FALSE
  /\ UNCHANGED <<clients, table, link, actor, bounds>>

\* _ev_readable of a link that is broken.
LinkEnd(e) ==
  /\ e.who = Link
  /\ ReadTurn(e)
  /\ ~alive
  /\ LinkClose(e.fd)

\* _ev_readable: the packets that have come are decoded, and Gameclient.dispatch
\* (Lua) sends each to its session.
LinkReadable(e) ==
  /\ e.who = Link
  /\ ReadTurn(e)
  /\ alive
  /\ \E n \in 1..Len(toGate) :
       /\ PutFrames({toGate[i].sid : i \in 1..n})
       /\ toGate' = SubSeq(toGate, n + 1, Len(toGate))
  /\ UNCHANGED <<owner, clients, table, gate, alive, toGame, actor, bounds>>

\* _ev_writable.  A send to a peer that is gone may also end gatesrv, as SIGPIPE
\* is not ignored: GateRestart, which needs no reason.
LinkWritable(e) ==
  /\ e.who = Link
  /\ WriteTurn(e)
  /\ \/ /\ Delete(e.fd, W) \/ UNCHANGED <<mask, polled>>
        /\ UNCHANGED <<owner, clients, table, gate, link, actor, bounds, buffers>>
     \/ /\ ~alive
        /\ LinkClose(e.fd)

\* _real_connect, once a second: the socket is made at the first try and kept
\* until one succeeds.
Socket(fd) ==
  IF sockfd_ = Nil THEN Lowest(fd) ELSE fd = sockfd_ /\ owner[fd] = Link

ConnectFails ==
  /\ TimerTurn
  /\ ~is_connect_
  /\ \E fd \in Fds :
       /\ Socket(fd)
       /\ owner' = [owner EXCEPT ![fd] = Link]
       /\ sockfd_' = fd
  /\ UNCHANGED <<mask, polled, clients, table, is_connect_, link, actor, bounds, buffers>>

Connect ==
  /\ TimerTurn
  /\ ~is_connect_
  /\ \E fd \in Fds :
       /\ Socket(fd)
       /\ Opened(fd, Link)
       /\ Created(fd)
       /\ sockfd_' = fd
  /\ is_connect_' = TRUE
  /\ alive' = TRUE
  /\ UNCHANGED <<clients, table, toGame, toGate, actor, bounds>>

-----------------------------------------------------------------------------
(* gamesrv *)

\* send and send_proto: what is sent over a link that is broken is lost.
Send(sid, to) ==
  toGate' = IF alive /\ Len(toGate) < MaxPackets
            THEN Append(toGate, [sid |-> sid, for |-> to]) ELSE toGate

\* dispatch_frame: a session without an actor gets one if its login succeeds;
\* one that closes loses its actor when it is saved, if ever.  Data is answered.
GameReceive ==
  /\ toGame # <<>>
  /\ LET p == Head(toGame)
     IN  /\ toGame' = Tail(toGame)
         /\ \/ p.cmd = "open" /\ UNCHANGED <<actor, toGate>>
            \/ /\ p.cmd = "data"
               /\ Send(p.sid, p.from)
               /\ \E login \in {Nil, p.from} :
                    actor' = [actor EXCEPT ![p.sid] = IF @ = Nil THEN login ELSE @]
            \/ /\ p.cmd = "close"
               /\ \E saved \in {Nil, actor[p.sid]} :
                    actor' = [actor EXCEPT ![p.sid] = saved]
               /\ UNCHANGED toGate
  /\ UNCHANGED <<loop, clients, table, gate, alive, bounds, buffers>>

\* A room tells its actors: to the sid of each, whether it is open or not.
GameSpeak(sid) ==
  /\ alive
  /\ actor[sid] # Nil
  /\ Len(toGate) < MaxPackets
  /\ Send(sid, actor[sid])
  /\ UNCHANGED <<loop, clients, table, gate, alive, toGame, actor, bounds, buffers>>

-----------------------------------------------------------------------------
(* Failures *)

\* The network fails, or gamesrv ends and starts again without its actors.
LinkBreak ==
  /\ alive /\ failures < MaxFailures
  /\ failures' = failures + 1
  /\ alive' = FALSE
  /\ toGame' = <<>>
  /\ toGate' = <<>>
  /\ actor' \in {actor, [sid \in Sids |-> Nil]}
  /\ UNCHANGED <<loop, clients, table, gate, run, buffers>>

\* gatesrv ends, by a signal, SIGPIPE among them, or an error, and starts again:
\* nothing is open but the listening socket.  gamesrv is told of nothing.
GateRestart ==
  /\ failures < MaxFailures
  /\ failures' = failures + 1
  /\ run' = run + 1
  /\ owner' = [fd \in Fds |-> IF fd = listenfd THEN Listener ELSE Nil]
  /\ mask' = [fd \in Fds |-> IF fd = listenfd THEN {R} ELSE {}]
  /\ polled' = mask'
  /\ fired' = {}
  /\ client' = [c \in Conns |-> IF client[c] = "new" THEN "new" ELSE "gone"]
  /\ inbox' = [c \in Conns |-> Nil]
  /\ backlog' = {}
  /\ session' = [fd \in Fds |-> NoSession]
  /\ counter' = 0
  /\ sockfd_' = Nil
  /\ is_connect_' = FALSE
  /\ alive' = FALSE
  /\ toGame' = <<>>
  /\ toGate' = <<>>
  /\ left' = {}
  /\ UNCHANGED <<given, actor, stray>>

-----------------------------------------------------------------------------

\* One turn of gatesrv's loop.
Turns ==
  \/ Poll(Ready) /\ UNCHANGED <<clients, table, gate, link, actor, bounds, buffers>>
  \/ \E e \in fired :
       \/ Accept(e)
       \/ WsEnd(e)
       \/ WsReadable(e)
       \/ WsWritable(e)
       \/ LinkEnd(e)
       \/ LinkReadable(e)
       \/ LinkWritable(e)
       \/ Passed(e) /\ UNCHANGED <<clients, table, gate, link, actor, bounds, buffers>>

\* What follows after a frame was put where it does not belong is not modelled.
Next ==
  /\ ~stray
  /\ \/ \E c \in Conns :
          \/ ClientConnect(c)
          \/ \E frame \in {"data", "bye"} : ClientSend(c, frame)
          \/ ClientLeave(c)
     \/ Turns
     \/ ConnectFails
     \/ Connect
     \/ GameReceive
     \/ \E sid \in Sids : GameSpeak(sid)
     \/ LinkBreak
     \/ GateRestart

Spec == Init /\ [][Next]_vars

-----------------------------------------------------------------------------
(* Properties *)

Frames == {"shake", "data", "bye"}
Session == [sid : Sids \cup {Nil}, had_shake : BOOLEAN]

TypeOK ==
  /\ owner \in [Fds -> Conns \cup {Link, Listener, Nil}]
  /\ mask \in [Fds -> SUBSET {R, W}]
  /\ client \in [Conns -> {"new", "asked", "open", "bye", "gone"}]
  /\ inbox \in [Conns -> Frames \cup {Nil}]
  /\ backlog \subseteq Conns
  /\ session \in [Fds -> Session]
  /\ counter \in 0..MaxSessions
  /\ sockfd_ \in Fds \cup {Nil}
  /\ is_connect_ \in BOOLEAN /\ alive \in BOOLEAN
  /\ toGame \in Seq([cmd : {"open", "data", "close"}, sid : Sids, from : Conns])
  /\ toGate \in Seq([sid : Sids, for : Conns])
  /\ actor \in [Sids -> Conns \cup {Nil}]
  /\ failures \in 0..MaxFailures /\ run \in 0..failures
  /\ given \in [Conns -> [sid : Sids, run : 0..MaxFailures] \cup {Nil}]
  /\ left \subseteq Fds /\ stray \in BOOLEAN

\* Was c accepted by an earlier run of gatesrv?
Former(c) == given[c].run < run

\* An answer for a client that has not hung up is put into that client's own
\* send buffer, however descriptors are used again while the answer is on its
\* way.  Only when the client has hung up, or has sent what ends its connection
\* (ClientLeave), may it go elsewhere: nowhere, as its session or its connection
\* is no more; into a freed block, if its buffer was not empty then (left); onto
\* the link, if that got the descriptor; or to a new client, if gatesrv has
\* started again, as the ids do (websocket.cc 41-54, 65-86, 453-511).
RightClient ==
  \A i \in DOMAIN toGate :
    LET c  == toGate[i].for
        fd == session_find(toGate[i].sid)
    IN  \/ fd # Nil /\ owner[fd] = c /\ fd \notin left
        \/ /\ client[c] = "gone"
           /\ fd = Nil \/ owner[fd] \in {Nil, Link} \/ Former(c)

\* What a client sends is handled for its own actor; only the actor of a
\* connection of an earlier run may be taken for it (gatesrv/main.lua 21-31 of
\* gamesrv, with the ids of websocket.cc 76).
OwnActor ==
  \A i \in DOMAIN toGame :
    actor[toGame[i].sid] \in {toGame[i].from, Nil} \/ Former(actor[toGame[i].sid])

\* epoll watches what the loop's masks say, and only open descriptors, also when
\* a frame is put into the buffer of a closed one (ae.cc 103-136, ae_epoll
\* 65-100): no connection is watched by nobody.
MasksAgree == \A fd \in Fds : polled[fd] = mask[fd] /\ (~Open(fd) => mask[fd] = {})

\* A handler runs for the connection whose event was fired, never for one that
\* got the descriptor after it (ae.cc 367-384).
OwnEvents ==
  \A e \in fired :
    Turn(e) /\ (Valid(e, W) \/ (~e.half /\ Valid(e, R))) => owner[e.fd] = e.who

\* gatesrv has one socket to gamesrv at most; it is never one of a client; and
\* it is watched when it is used, so that its end is noticed and it is connected
\* again (gameclient.cc 21-30, 250-319).
LinkIsOpen ==
  /\ \A fd \in Fds : owner[fd] = Link <=> (fd = sockfd_)
  /\ is_connect_ => sockfd_ # Nil /\ R \in polled[sockfd_]
  /\ alive => is_connect_
=============================================================================
