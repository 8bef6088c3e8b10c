--------------------------- MODULE SessionsProofs ---------------------------
(* Proofs about Sessions, for any number of descriptors, connections,
   sessions, packets and failures. *)
EXTENDS Sessions, SequenceTheorems, TLAPS

Event == [fd : Fds, who : Conns \cup {Link, Listener}, mask : SUBSET {R, W}, half : BOOLEAN]

\* A batch has one event a descriptor, and one whose handlers are not both done.
Batch ==
  /\ fired \subseteq Event
  /\ \A e, f \in fired : (e.fd = f.fd \/ (e.half /\ f.half)) => e = f

\* An event belongs to whom its descriptor belongs to, unless its first handler
\* has just closed the descriptor.
Owned ==
  \A e \in fired : owner[e.fd] = e.who \/ (e.half /\ mask[e.fd] = {})

\* A socket that is not connected yet is not watched.
Unwatched == ~is_connect_ /\ sockfd_ # Nil => mask[sockfd_] = {}

LoopTypes ==
  /\ owner \in [Fds -> Conns \cup {Link, Listener, Nil}]
  /\ mask \in [Fds -> SUBSET {R, W}]
  /\ polled \in [Fds -> SUBSET {R, W}]
  /\ sockfd_ \in Fds \cup {Nil}
  /\ is_connect_ \in BOOLEAN /\ alive \in BOOLEAN

\* What holds of the event loop and of the socket to gamesrv.
LoopInv ==
  LoopTypes /\ Batch /\ Owned /\ MasksAgree /\ LinkIsOpen /\ Unwatched

\* A session's id names its descriptor, an open connection has the session of
\* its descriptor, and the listening socket has none.
Matched ==
  \A fd \in Fds :
    /\ session[fd].sid # Nil => session[fd].sid[1] = fd
    /\ owner[fd] \in Conns =>
         /\ given[owner[fd]] # Nil
         /\ session[fd].sid = given[owner[fd]].sid
         /\ given[owner[fd]].run = run
    /\ owner[fd] = Listener => session[fd].sid = Nil

\* No two connections get the same id in one run; the counter is ahead of all
\* ids of this run; and who waits to be accepted has none.
Distinct ==
  /\ \A c, d \in Conns :
       given[c] # Nil /\ given[d] # Nil /\ given[c] = given[d] => c = d
  /\ \A c \in Conns : given[c] # Nil =>
       given[c].run <= run /\ (given[c].run = run => given[c].sid[2] < counter)
  /\ \A c \in Conns : client[c] = "new" \/ c \in backlog => given[c] = Nil
  /\ \A c \in backlog : client[c] # "new"

\* The packets a client's frames become, in this run, and the answers to them.
ToGame ==
  {p \in [cmd : {"open", "data", "close"}, sid : Sids, from : Conns] :
     given[p.from] # Nil /\ given[p.from] = [sid |-> p.sid, run |-> run]}

ToGate ==
  {p \in [sid : Sids, for : Conns] :
     given[p.for] # Nil /\ given[p.for].sid = p.sid}

Addressed ==
  /\ toGame \in Seq(ToGame)
  /\ toGate \in Seq(ToGate)
  /\ \A sid \in Sids : actor[sid] # Nil =>
       given[actor[sid]] # Nil /\ given[actor[sid]].sid = sid

\* The types of what neither LoopInv nor Addressed is about.
SessionTypes ==
  /\ client \in [Conns -> {"new", "asked", "open", "bye", "gone"}]
  /\ inbox \in [Conns -> Frames \cup {Nil}]
  /\ backlog \subseteq Conns
  /\ session \in [Fds -> Session]
  /\ counter \in 0..MaxSessions
  /\ actor \in [Sids -> Conns \cup {Nil}]
  /\ failures \in 0..MaxFailures /\ run \in 0..failures
  /\ given \in [Conns -> [sid : Sids, run : 0..MaxFailures] \cup {Nil}]

IInv == LoopInv /\ SessionTypes /\ Matched /\ Distinct /\ Addressed

\* A client that was accepted and has not hung up has its descriptor still, and
\* no descriptor of a client has a send buffer with a freed tail.
Present ==
  /\ left \subseteq Fds /\ stray \in BOOLEAN
  /\ \A fd \in left : owner[fd] \notin Conns
  /\ \A c \in Conns :
       given[c] # Nil /\ client[c] # "gone" => owner[given[c].sid[1]] = c

-----------------------------------------------------------------------------
(* The event loop *)

LEMMA Names ==
  /\ Link \notin Conns /\ Listener \notin Conns /\ Listener # Link
  /\ Nil \notin Conns /\ Nil # Link /\ Nil # Listener
  /\ Fds \subseteq Nat /\ Nil \notin Fds /\ listenfd \in Fds
  /\ Sids \subseteq Nat \X Nat /\ Nil \notin Sids
  /\ MaxSessions \in Nat \ {0} /\ MaxFailures \in Nat
<1>1. Fds \subseteq Nat /\ listenfd \in Fds
  BY MaxFdAssumption DEF Fds, listenfd
<1>2. MaxSessions \in Nat \ {0} /\ MaxFailures \in Nat
  BY SessionsAssumption
<1>3. Sids \subseteq Nat \X Nat
  <2>1. 0..(MaxSessions - 1) \subseteq Nat
    BY <1>2
  <2>2. QED
    BY <1>1, <2>1 DEF Sids
<1>4. /\ Link \notin Conns /\ Listener \notin Conns /\ Listener # Link
      /\ Nil \notin Conns /\ Nil # Link /\ Nil # Listener
  BY SessionsAssumption
<1>5. Nil \notin Nat /\ Nil \notin Nat \X Nat
  BY SessionsAssumption
<1>6. QED
  BY <1>1, <1>2, <1>3, <1>4, <1>5

\* The handler of an event runs for the owner of the descriptor, which is open
\* and watched.
LEMMA TurnOwner ==
  ASSUME Batch, Owned, NEW e \in fired, ReadTurn(e) \/ WriteTurn(e)
  PROVE  /\ e \in Event /\ e.fd \in Fds
         /\ owner[e.fd] = e.who /\ mask[e.fd] # {}
<1>1. mask[e.fd] # {}
  BY DEF ReadTurn, WriteTurn, Valid
<1>2. QED
  BY <1>1 DEF Batch, Owned, Event

\* A handler that opens only free descriptors, and closes at most its own,
\* leaves the rest of the batch to the right owners.
LEMMA TurnKeepsBatch ==
  ASSUME Batch, Owned, NEW e \in fired, ReadTurn(e) \/ WriteTurn(e),
         \A fd \in Fds \ {e.fd} : owner[fd] # Nil => owner'[fd] = owner[fd],
         owner'[e.fd] = owner[e.fd] \/ mask'[e.fd] = {}
  PROVE  Batch' /\ Owned'
<1>1. e \in Event /\ owner[e.fd] = e.who
  BY TurnOwner
<1>2. /\ \A f \in fired : f \in Event
      /\ \A f \in fired \ {e} : f.fd # e.fd /\ ~f.half
  BY DEF Batch, ReadTurn, WriteTurn, Turn
<1>3. CASE WriteTurn(e) \/ W \notin e.mask
  <2>1. fired' = fired \ {e}
    BY <1>3 DEF ReadTurn, WriteTurn
  <2>2. Batch'
    BY <2>1 DEF Batch
  <2>3. \A f \in fired' : owner[f.fd] = f.who /\ f.who # Nil /\ f.fd \in Fds \ {e.fd}
    BY <2>1, <1>2, Names DEF Owned, Event
  <2>4. QED
    BY <2>2, <2>3 DEF Owned
<1>4. CASE ReadTurn(e) /\ W \in e.mask
  <2> DEFINE rest == [e EXCEPT !.half = TRUE]
  <2>1. fired' = (fired \ {e}) \cup {rest}
    BY <1>4 DEF ReadTurn
  <2>2. rest \in Event /\ rest.fd = e.fd /\ rest.half /\ rest.who = e.who
    BY <1>1 DEF Event
  <2> HIDE DEF rest
  <2>3. Batch'
    BY <2>1, <2>2, <1>2 DEF Batch
  <2>4. \A f \in fired \ {e} : owner[f.fd] = f.who /\ f.who # Nil /\ f.fd \in Fds \ {e.fd}
    BY <1>2, Names DEF Owned, Event
  <2>5. QED
    BY <2>1, <2>2, <2>3, <2>4, <1>1 DEF Owned
<1>5. QED
  BY <1>3, <1>4

\* aeCreateFileEvent, on whatever descriptors, keeps epoll and the masks
\* together: what is not open is not watched.
LEMMA CreateAgrees ==
  ASSUME LoopTypes, MasksAgree, NEW S, Create(S, W), UNCHANGED owner
  PROVE  /\ mask' \in [Fds -> SUBSET {R, W}] /\ polled' \in [Fds -> SUBSET {R, W}]
         /\ MasksAgree'
         /\ \A fd \in Fds : mask[fd] \subseteq mask'[fd]
         /\ \A fd \in Fds \ S : mask'[fd] = mask[fd]
<1> DEFINE ok == {fd \in S : Accepted(fd)}
<1>1. /\ mask' = [fd \in Fds |-> mask[fd] \cup IF fd \in ok THEN {W} ELSE {}]
      /\ polled' = [fd \in Fds |-> IF fd \in ok THEN mask'[fd] ELSE polled[fd]]
  BY DEF Create
<1>2. \A fd \in Fds : fd \in ok => Open(fd)
  BY DEF Accepted, MasksAgree
<1>3. ok \subseteq S
  OBVIOUS
<1> HIDE DEF ok
<1>4. mask' \in [Fds -> SUBSET {R, W}]
  BY <1>1 DEF LoopTypes
<1>5. polled' \in [Fds -> SUBSET {R, W}]
  BY <1>1, <1>4 DEF LoopTypes
<1>6. MasksAgree'
  BY <1>1, <1>2 DEF MasksAgree, Open, LoopTypes
<1>7. QED
  BY <1>1, <1>3, <1>4, <1>5, <1>6 DEF LoopTypes

\* A handler that only asks for writable events: those of clients, those of the
\* socket to gamesrv if it is connected, and any that epoll refuses.
LEMMA AskStep ==
  ASSUME LoopInv, NEW e \in fired, ReadTurn(e), NEW S, Create(S, W),
         UNCHANGED <<owner, gate, alive>>,
         is_connect_ \/ sockfd_ \notin S
  PROVE  LoopInv'
<1> USE DEF LoopInv, gate
<1>1. Batch' /\ Owned'
  <2>1. \A fd \in Fds \ {e.fd} : owner'[fd] = owner[fd]
    OBVIOUS
  <2>2. QED
    BY <2>1, TurnKeepsBatch
<1>2. /\ mask' \in [Fds -> SUBSET {R, W}] /\ polled' \in [Fds -> SUBSET {R, W}]
      /\ MasksAgree'
      /\ \A fd \in Fds : mask[fd] \subseteq mask'[fd]
      /\ \A fd \in Fds \ S : mask'[fd] = mask[fd]
  BY CreateAgrees
<1>3. LoopTypes'
  BY <1>2 DEF LoopTypes
<1>4. LinkIsOpen'
  BY <1>2 DEF LinkIsOpen, MasksAgree, LoopTypes
<1>5. Unwatched'
  BY <1>2 DEF Unwatched, LoopTypes
<1>6. QED
  BY <1>1, <1>2, <1>3, <1>4, <1>5

\* A handler that changes no mask.
LEMMA IdleStep ==
  ASSUME LoopInv, NEW e \in fired, ReadTurn(e) \/ WriteTurn(e),
         UNCHANGED <<owner, mask, polled, gate, alive>>
  PROVE  LoopInv'
<1> USE DEF LoopInv, gate
<1>1. Batch' /\ Owned'
  <2>1. \A fd \in Fds \ {e.fd} : owner'[fd] = owner[fd]
    OBVIOUS
  <2>2. QED
    BY <2>1, TurnKeepsBatch
<1>2. LoopTypes' /\ MasksAgree' /\ LinkIsOpen' /\ Unwatched'
  BY DEF LoopTypes, MasksAgree, Open, LinkIsOpen, Unwatched
<1>3. QED
  BY <1>1, <1>2

\* A descriptor that epoll does not watch yet is watched for reading.
LEMMA OpenedLoop ==
  ASSUME LoopTypes, NEW fd \in Fds, mask[fd] = {}, NEW who, Opened(fd, who)
  PROVE  /\ owner' = [owner EXCEPT ![fd] = who]
         /\ mask' = [mask EXCEPT ![fd] = {R}]
         /\ polled' = [polled EXCEPT ![fd] = {R}]
<1>1. /\ owner' = [owner EXCEPT ![fd] = who]
      /\ mask' = [mask EXCEPT ![fd] = @ \cup {R}]
      /\ polled' = [polled EXCEPT ![fd] = mask'[fd]]
  BY DEF Opened
<1>2. mask' = [mask EXCEPT ![fd] = {R}] /\ mask'[fd] = {R}
  BY <1>1 DEF LoopTypes
<1>3. QED
  BY <1>1, <1>2

\* A handler that deletes its writable event.
LEMMA DeleteStep ==
  ASSUME LoopInv, NEW e \in fired, WriteTurn(e), Delete(e.fd, W),
         UNCHANGED <<owner, gate, alive>>
  PROVE  LoopInv'
<1> USE DEF LoopInv, gate
<1>1. e.fd \in Fds
  BY TurnOwner
<1>2. Batch' /\ Owned'
  <2>1. \A fd \in Fds \ {e.fd} : owner'[fd] = owner[fd]
    OBVIOUS
  <2>2. QED
    BY <2>1, TurnKeepsBatch
<1>3. /\ mask' = [mask EXCEPT ![e.fd] = @ \ {W}]
      /\ polled' = [polled EXCEPT ![e.fd] = IF @ = {} THEN {} ELSE mask'[e.fd]]
  BY DEF Delete
<1>4. mask' \in [Fds -> SUBSET {R, W}]
  BY <1>3 DEF LoopTypes
<1>5. polled' \in [Fds -> SUBSET {R, W}]
  BY <1>1, <1>3, <1>4 DEF LoopTypes
<1>6. LoopTypes'
  BY <1>4, <1>5 DEF LoopTypes
<1>7. MasksAgree'
  BY <1>1, <1>3, <1>4 DEF MasksAgree, LoopTypes, Open
<1>8. \A fd \in Fds : (R \in mask[fd] => R \in mask'[fd]) /\ mask'[fd] \subseteq mask[fd]
  BY <1>1, <1>3 DEF LoopTypes, R, W
<1>9. LinkIsOpen' /\ Unwatched'
  BY <1>7, <1>8 DEF LinkIsOpen, MasksAgree, LoopTypes, Unwatched
<1>10. QED
  BY <1>2, <1>6, <1>7, <1>9

\* A handler that closes its descriptor, a client's or the socket to gamesrv.
LEMMA CloseStep ==
  ASSUME LoopInv, NEW e \in fired, ReadTurn(e) \/ WriteTurn(e), Close(e.fd),
         UNCHANGED alive,
         \/ e.who \in Conns /\ UNCHANGED gate
         \/ e.who = Link /\ ~alive /\ sockfd_' = Nil /\ is_connect_' = FALSE
  PROVE  LoopInv'
<1> USE DEF LoopInv, gate
<1>1. e.fd \in Fds /\ owner[e.fd] = e.who
  BY TurnOwner
<1>2. /\ owner' = [owner EXCEPT ![e.fd] = Nil]
      /\ mask' = [mask EXCEPT ![e.fd] = {}]
      /\ polled' = [polled EXCEPT ![e.fd] = {}]
  BY DEF Close
<1>3. LoopTypes'
  BY <1>2 DEF LoopTypes
<1>4. Batch' /\ Owned'
  <2>1. mask'[e.fd] = {} /\ \A fd \in Fds \ {e.fd} : owner'[fd] = owner[fd]
    BY <1>1, <1>2 DEF LoopTypes
  <2>2. QED
    BY <2>1, TurnKeepsBatch
<1>5. MasksAgree'
  BY <1>1, <1>2 DEF MasksAgree, LoopTypes, Open
<1>6. CASE e.who \in Conns /\ UNCHANGED gate
  <2>1. e.fd # sockfd_
    BY <1>1, <1>6, Names DEF LinkIsOpen
  <2>2. LinkIsOpen' /\ Unwatched'
    BY <1>1, <1>2, <1>6, <2>1, Names DEF LinkIsOpen, Unwatched, LoopTypes
  <2>3. QED
    BY <1>3, <1>4, <1>5, <2>2
<1>7. CASE e.who = Link /\ ~alive /\ sockfd_' = Nil /\ is_connect_' = FALSE
  <2>1. \A fd \in Fds : owner'[fd] # Link /\ fd # Nil
    BY <1>1, <1>2, <1>7, Names DEF LinkIsOpen, LoopTypes
  <2>2. LinkIsOpen' /\ Unwatched'
    BY <1>7, <2>1 DEF LinkIsOpen, Unwatched
  <2>3. QED
    BY <1>3, <1>4, <1>5, <2>2
<1>8. QED
  BY <1>6, <1>7

-----------------------------------------------------------------------------
(* Queues *)

LEMMA QueueTail ==
  ASSUME NEW S, NEW q \in Seq(S), q # <<>>
  PROVE  Head(q) \in S /\ Tail(q) \in Seq(S)
BY HeadTailProperties

LEMMA QueueAppend ==
  ASSUME NEW S, NEW q \in Seq(S), NEW m \in S
  PROVE  Append(q, m) \in Seq(S)
BY AppendProperties

LEMMA QueueSuffix ==
  ASSUME NEW S, NEW q \in Seq(S), NEW n \in 1..Len(q)
  PROVE  SubSeq(q, n + 1, Len(q)) \in Seq(S)
<1>1. Len(q) \in Nat /\ \A i \in (n + 1)..Len(q) : i \in 1..Len(q)
  BY LenProperties
<1>2. \A i \in (n + 1)..Len(q) : q[i] \in S
  BY <1>1, ElementOfSeq
<1>3. QED
  BY <1>1, <1>2, SubSeqProperties

\* What is in a queue of the link.
LEMMA Queued ==
  ASSUME IInv
  PROVE  /\ \A i \in DOMAIN toGame : toGame[i] \in ToGame
         /\ \A i \in DOMAIN toGate : toGate[i] \in ToGate
<1>1. toGame \in Seq(ToGame) /\ toGate \in Seq(ToGate)
  BY DEF IInv, Addressed
<1>2. DOMAIN toGame = 1..Len(toGame) /\ DOMAIN toGate = 1..Len(toGate)
  BY <1>1, LenProperties
<1>3. QED
  BY <1>1, <1>2, ElementOfSeq

-----------------------------------------------------------------------------
(* Steps that give no session id *)

\* Who has which id stays as it is, and with it who is meant by the packets.
LEMMA SameIds ==
  ASSUME IInv, UNCHANGED <<given, counter, run, backlog>>,
         \A fd \in Fds : session'[fd].sid = session[fd].sid,
         \A fd \in Fds : owner'[fd] \in Conns \cup {Listener} => owner'[fd] = owner[fd],
         \A c \in Conns : client'[c] = "new" <=> client[c] = "new"
  PROVE  /\ Matched' /\ Distinct'
         /\ ToGame' = ToGame /\ ToGate' = ToGate
<1>1. Matched'
  BY DEF IInv, Matched
<1>2. Distinct'
  BY DEF IInv, Distinct, SessionTypes
<1>3. ToGame' = ToGame /\ ToGate' = ToGate
  BY DEF ToGame, ToGate
<1>4. QED
  BY <1>1, <1>2, <1>3

\* Steps of the event loop alone.
LEMMA LoopOnly ==
  ASSUME IInv, LoopInv', UNCHANGED <<clients, table, toGame, toGate, actor, bounds>>,
         \A fd \in Fds : owner'[fd] \in Conns \cup {Listener} => owner'[fd] = owner[fd]
  PROVE  IInv'
<1> USE DEF clients, table, bounds
<1>1. Matched' /\ Distinct' /\ ToGame' = ToGame /\ ToGate' = ToGate
  BY SameIds
<1>2. Addressed'
  BY <1>1 DEF IInv, Addressed
<1>3. SessionTypes'
  BY DEF IInv, SessionTypes
<1>4. QED
  BY <1>1, <1>2, <1>3 DEF IInv

\* Steps that leave the event loop alone.
LEMMA LoopStays ==
  ASSUME LoopInv, UNCHANGED <<loop, gate>>, alive' = alive \/ alive' = FALSE
  PROVE  LoopInv'
<1> USE DEF loop, gate
<1>1. LoopTypes'
  BY DEF LoopInv, LoopTypes
<1>2. Batch' /\ Owned' /\ Unwatched'
  BY DEF LoopInv, Batch, Owned, Unwatched
<1>3. MasksAgree' /\ LinkIsOpen'
  BY DEF LoopInv, MasksAgree, LinkIsOpen, Open
<1>4. QED
  BY <1>1, <1>2, <1>3 DEF LoopInv

LEMMA ClientSteps ==
  ASSUME IInv, NEW c \in Conns,
         \/ ClientConnect(c) \/ ClientLeave(c)
         \/ \E frame \in {"data", "bye"} : ClientSend(c, frame)
  PROVE  IInv'
<1>1. /\ UNCHANGED <<loop, table, gate, link, actor, bounds>>
      /\ client' \in [Conns -> {"new", "asked", "open", "bye", "gone"}]
      /\ inbox' \in [Conns -> Frames \cup {Nil}]
      /\ backlog' \in {backlog, backlog \cup {c}}
      /\ \A d \in Conns : client'[d] = "new" => client[d] = "new"
      /\ \A d \in Conns : client[d] = "new" => client'[d] = "new" \/ d = c
      /\ \A d \in backlog' : client'[d] # "new"
      /\ backlog' # backlog => client[c] = "new"
  <2>1. CASE ClientConnect(c)
    BY <2>1 DEF ClientConnect, IInv, SessionTypes, Frames, Distinct
  <2>2. CASE ClientLeave(c)
    BY <2>2 DEF ClientLeave, IInv, SessionTypes, Frames, Distinct
  <2>3. ASSUME NEW frame \in {"data", "bye"}, ClientSend(c, frame)
        PROVE  /\ UNCHANGED <<loop, table, gate, link, actor, bounds, backlog>>
               /\ client' \in [Conns -> {"new", "asked", "open", "bye", "gone"}]
               /\ inbox' \in [Conns -> Frames \cup {Nil}]
               /\ \A d \in Conns : client'[d] = "new" <=> client[d] = "new"
    BY <2>3 DEF ClientSend, IInv, SessionTypes, Frames, Distinct
  <2>4. CASE \E frame \in {"data", "bye"} : ClientSend(c, frame)
    BY <2>3, <2>4 DEF IInv, SessionTypes, Distinct
  <2>5. QED
    BY <2>1, <2>2, <2>4
<1> USE DEF table, link, bounds
<1>2. LoopInv'
  BY <1>1, LoopStays DEF IInv
<1>3. SessionTypes'
  BY <1>1 DEF IInv, SessionTypes
<1>4. Matched'
  BY <1>1 DEF IInv, Matched, loop
<1>5. Distinct'
  BY <1>1 DEF IInv, Distinct, SessionTypes
<1>6. Addressed'
  <2>1. ToGame' = ToGame /\ ToGate' = ToGate
    BY <1>1 DEF ToGame, ToGate
  <2>2. QED
    BY <1>1, <2>1 DEF IInv, Addressed
<1>7. QED
  BY <1>2, <1>3, <1>4, <1>5, <1>6 DEF IInv

\* A poll fires events of open descriptors, one each.
LEMMA PollStep ==
  ASSUME LoopInv, Poll(Ready), UNCHANGED <<gate, alive>>
  PROVE  LoopInv'
<1> DEFINE Seen(fd) == Ready[fd] \cap polled[fd]
<1>1. /\ fired' = {[fd |-> fd, who |-> owner[fd], mask |-> Seen(fd), half |-> FALSE] :
                     fd \in {f \in Fds : Seen(f) # {}}}
      /\ UNCHANGED <<owner, mask, polled>>
  BY DEF Poll
<1>2. \A fd \in Fds : Seen(fd) # {} => owner[fd] \in Conns \cup {Link, Listener}
  BY DEF LoopInv, LoopTypes, MasksAgree, Open
<1>3. \A fd \in Fds : Seen(fd) \in SUBSET {R, W}
  BY DEF LoopInv, LoopTypes
<1> HIDE DEF Seen
<1>4. \A e \in fired' :
        /\ e.fd \in Fds /\ Seen(e.fd) # {}
        /\ e = [fd |-> e.fd, who |-> owner[e.fd], mask |-> Seen(e.fd), half |-> FALSE]
  <2> SUFFICES ASSUME NEW e \in fired'
               PROVE  /\ e.fd \in Fds /\ Seen(e.fd) # {}
                      /\ e = [fd |-> e.fd, who |-> owner[e.fd], mask |-> Seen(e.fd),
                              half |-> FALSE]
    OBVIOUS
  <2>1. PICK fd \in Fds :
          /\ Seen(fd) # {}
          /\ e = [fd |-> fd, who |-> owner[fd], mask |-> Seen(fd), half |-> FALSE]
    BY <1>1
  <2>2. QED
    BY <2>1
<1>5. \A e \in fired' : e \in Event
  <2> SUFFICES ASSUME NEW e \in fired' PROVE e \in Event
    OBVIOUS
  <2>1. e.fd \in Fds /\ owner[e.fd] \in Conns \cup {Link, Listener}
        /\ Seen(e.fd) \in SUBSET {R, W}
    BY <1>2, <1>3, <1>4
  <2>2. [fd |-> e.fd, who |-> owner[e.fd], mask |-> Seen(e.fd), half |-> FALSE] \in Event
    BY <2>1 DEF Event
  <2>3. QED
    BY <1>4, <2>2
<1>6. \A e, f \in fired' : (e.fd = f.fd => e = f) /\ ~e.half
  <2> SUFFICES ASSUME NEW e \in fired', NEW f \in fired'
               PROVE  (e.fd = f.fd => e = f) /\ ~e.half
    OBVIOUS
  <2>1. /\ e = [fd |-> e.fd, who |-> owner[e.fd], mask |-> Seen(e.fd), half |-> FALSE]
        /\ f = [fd |-> f.fd, who |-> owner[f.fd], mask |-> Seen(f.fd), half |-> FALSE]
    BY <1>4
  <2>2. ~e.half
    BY <2>1
  <2>3. ASSUME e.fd = f.fd PROVE e = f
    BY <2>1, <2>3, Zenon
  <2>4. QED
    BY <2>2, <2>3
<1>7. Batch'
  BY <1>5, <1>6 DEF Batch
<1>8. Owned'
  BY <1>1, <1>4 DEF Owned
<1>9. LoopTypes' /\ MasksAgree' /\ LinkIsOpen' /\ Unwatched'
  BY <1>1 DEF gate, LoopInv, LoopTypes, MasksAgree, Open, LinkIsOpen, Unwatched
<1>10. QED
  BY <1>7, <1>8, <1>9 DEF LoopInv

\* An event nobody is called for.
LEMMA PassedStep ==
  ASSUME LoopInv, NEW e \in fired, Passed(e), UNCHANGED <<gate, alive>>
  PROVE  LoopInv'
<1>1. fired' = fired \ {e} /\ UNCHANGED <<owner, mask, polled>>
  BY DEF Passed
<1>2. Batch' /\ Owned'
  BY <1>1 DEF LoopInv, Batch, Owned
<1>3. LoopTypes' /\ MasksAgree' /\ LinkIsOpen' /\ Unwatched'
  BY <1>1 DEF gate, LoopInv, LoopTypes, MasksAgree, Open, LinkIsOpen, Unwatched
<1>4. QED
  BY <1>2, <1>3 DEF LoopInv

\* The socket to gamesrv is made, and connected or kept for the next try.
LEMMA ConnectStep ==
  ASSUME LoopInv, ConnectFails \/ Connect
  PROVE  /\ LoopInv'
         /\ \A fd \in Fds : owner'[fd] \in Conns \cup {Listener} => owner'[fd] = owner[fd]
<1>1. /\ fired = {} /\ fired' = {} /\ ~is_connect_
  BY DEF ConnectFails, Connect, TimerTurn
<1>2. PICK fd \in Fds :
        /\ Socket(fd)
        /\ sockfd_' = fd
        /\ \/ /\ owner' = [owner EXCEPT ![fd] = Link]
              /\ UNCHANGED <<mask, polled, is_connect_, alive>>
           \/ /\ Opened(fd, Link)
              /\ is_connect_' = TRUE /\ alive' = TRUE
  BY DEF ConnectFails, Connect, link
<1>3. mask[fd] = {} /\ owner[fd] \in {Nil, Link}
  <2>1. CASE sockfd_ = Nil
    BY <1>2, <2>1 DEF Socket, Lowest, Free, LoopInv, MasksAgree, Open
  <2>2. CASE sockfd_ # Nil
    BY <1>1, <1>2, <2>2 DEF Socket, LoopInv, Unwatched
  <2>3. CASE owner[fd] = Nil
    BY <2>3 DEF LoopInv, MasksAgree, Open
  <2>4. QED
    BY <1>2, <2>1, <2>2, <2>3 DEF Socket, Lowest, Free, Open
<1>20. /\ owner' = [owner EXCEPT ![fd] = Link]
       /\ \/ UNCHANGED <<mask, polled, is_connect_, alive>>
          \/ /\ mask' = [mask EXCEPT ![fd] = {R}]
             /\ polled' = [polled EXCEPT ![fd] = {R}]
             /\ is_connect_' = TRUE /\ alive' = TRUE
  BY <1>2, <1>3, OpenedLoop DEF LoopInv
<1>4. \A other \in Fds \ {fd} : owner[other] # Link
  BY <1>2, Names DEF Socket, LoopInv, LinkIsOpen
<1>5. Batch' /\ Owned'
  BY <1>1 DEF Batch, Owned
<1>6. LoopTypes'
  <2>1. LoopTypes
    BY DEF LoopInv
  <2>2. mask' \in [Fds -> SUBSET {R, W}] /\ polled' \in [Fds -> SUBSET {R, W}]
    BY <1>2, <1>20, <2>1 DEF LoopTypes
  <2>3. owner' \in [Fds -> Conns \cup {Link, Listener, Nil}] /\ sockfd_' \in Fds \cup {Nil}
    BY <1>2, <1>20, <2>1 DEF LoopTypes
  <2>4. is_connect_' \in BOOLEAN /\ alive' \in BOOLEAN
    BY <1>2, <1>20, <2>1 DEF LoopTypes
  <2>5. QED
    BY <2>2, <2>3, <2>4 DEF LoopTypes
<1>7. MasksAgree'
  BY <1>20, <1>3, Names DEF LoopInv, LoopTypes, MasksAgree, Open
<1>8. LinkIsOpen'
  <2>1. \A f \in Fds : owner'[f] = Link <=> (f = sockfd_')
    BY <1>2, <1>20, <1>4 DEF LoopInv, LoopTypes
  <2>2. is_connect_' => R \in polled'[fd]
    BY <1>1, <1>20, <1>3 DEF LoopInv, LoopTypes
  <2>3. sockfd_' # Nil /\ (alive' => is_connect_')
    BY <1>1, <1>2, <1>20, Names DEF LoopInv, LinkIsOpen
  <2>4. QED
    BY <1>2, <2>1, <2>2, <2>3 DEF LinkIsOpen
<1>9. Unwatched'
  BY <1>1, <1>2, <1>20, <1>3 DEF LoopInv, Unwatched
<1>10. \A f \in Fds : owner'[f] \in Conns \cup {Listener} => owner'[f] = owner[f]
  BY <1>20, Names DEF LoopInv, LoopTypes
<1>11. QED
  BY <1>5, <1>6, <1>7, <1>8, <1>9, <1>10 DEF LoopInv

\* The handlers that close a socket, or delete its writable event or leave it.
LEMMA CloseHandlers ==
  ASSUME IInv, NEW e \in fired,
         WsEnd(e) \/ WsWritable(e) \/ LinkEnd(e) \/ LinkWritable(e)
  PROVE  IInv'
<1>1. LoopInv /\ e.fd \in Fds
  BY TurnOwner DEF IInv, LoopInv, WsEnd, WsWritable, LinkEnd, LinkWritable
<1>2. UNCHANGED <<clients, table, toGame, toGate, actor, bounds>>
  BY DEF WsEnd, WsWritable, LinkEnd, LinkWritable, WsClose, LinkClose, link
<1>3. ReadTurn(e) \/ WriteTurn(e)
  BY DEF WsEnd, WsWritable, LinkEnd, LinkWritable
<1>4. CASE Delete(e.fd, W) /\ WriteTurn(e) /\ UNCHANGED <<owner, gate, alive>>
  BY <1>1, <1>2, <1>4, DeleteStep, LoopOnly
<1>5. CASE Close(e.fd) /\ UNCHANGED alive
           /\ \/ e.who \in Conns /\ UNCHANGED gate
              \/ e.who = Link /\ ~alive /\ sockfd_' = Nil /\ is_connect_' = FALSE
  <2>1. LoopInv'
    BY <1>1, <1>3, <1>5, CloseStep
  <2>2. owner' = [owner EXCEPT ![e.fd] = Nil]
    BY <1>5 DEF Close
  <2>3. \A fd \in Fds : owner'[fd] \in Conns \cup {Listener} => owner'[fd] = owner[fd]
    BY <1>1, <2>2, Names DEF LoopInv, LoopTypes
  <2>4. QED
    BY <1>2, <2>1, <2>3, LoopOnly
<1>6. CASE UNCHANGED <<owner, mask, polled, gate, alive>>
  BY <1>1, <1>2, <1>3, <1>6, IdleStep, LoopOnly
<1>7. QED
  BY <1>4, <1>5, <1>6, <1>1, Names
     DEF WsEnd, WsWritable, LinkEnd, LinkWritable, WsClose, LinkClose, link

-----------------------------------------------------------------------------
(* Frames and packets *)

\* A frame that says there is no gamesrv goes to its own connection.
LEMMA FoundSelf ==
  ASSUME IInv, NEW fd \in Fds, owner[fd] \in Conns
  PROVE  /\ Found({session[fd].sid}) \subseteq {fd}
         /\ fd # sockfd_ /\ session[fd].sid \in Sids
<1>1. /\ session[fd].sid = given[owner[fd]].sid /\ given[owner[fd]] # Nil
      /\ session[fd].sid # Nil => session[fd].sid[1] = fd
  BY DEF IInv, Matched
<1>2. session[fd].sid \in Sids
  BY <1>1 DEF IInv, SessionTypes
<1>3. session_find(session[fd].sid) = fd
  BY <1>1, <1>2, Names DEF session_find
<1>4. fd # sockfd_
  BY Names DEF IInv, LoopInv, LinkIsOpen
<1>5. QED
  BY <1>2, <1>3, <1>4 DEF Found

\* What Forward does for a connection that is open.
LEMMA ForwardStep ==
  ASSUME IInv, NEW e \in fired, e.who \in Conns, ReadTurn(e),
         NEW cmd \in {"open", "data", "close"}, NEW S \in SUBSET {e.fd},
         Forward(cmd, e.fd, S), UNCHANGED gate
  PROVE  /\ LoopInv'
         /\ UNCHANGED <<owner, alive, toGate>>
         /\ toGame' \in Seq(ToGame)
<1>1. e.fd \in Fds /\ owner[e.fd] = e.who /\ LoopInv
  BY TurnOwner DEF IInv, LoopInv
<1>2. Found({session[e.fd].sid}) \subseteq {e.fd} /\ e.fd # sockfd_ /\ session[e.fd].sid \in Sids
  BY <1>1, FoundSelf
<1>3. UNCHANGED <<owner, alive, toGate>>
  BY DEF Forward
<1>4. LoopInv'
  <2>1. CASE is_connect_
    <3>1. Create({sockfd_} \cup S, W)
      BY <2>1 DEF Forward
    <3>2. QED
      BY <1>1, <1>3, <2>1, <3>1, AskStep
  <2>2. CASE ~is_connect_
    <3>1. Create(Found({session[e.fd].sid}) \cup S, W)
      BY <2>2 DEF Forward
    <3>2. sockfd_ \notin Found({session[e.fd].sid}) \cup S
      BY <1>2
    <3>3. QED
      BY <1>1, <1>3, <3>1, <3>2, AskStep
  <2>3. QED
    BY <2>1, <2>2
<1>5. toGame' \in Seq(ToGame)
  <2> DEFINE p == Packet(cmd, session[e.fd].sid, owner[e.fd])
  <2>1. toGame \in Seq(ToGame) /\ toGame' \in {toGame, Append(toGame, p)}
    BY DEF Forward, IInv, Addressed
  <2>2. given[e.who] # Nil /\ given[e.who] = [sid |-> session[e.fd].sid, run |-> run]
    BY <1>1 DEF IInv, Matched, SessionTypes
  <2>3. p \in ToGame
    BY <1>1, <1>2, <2>2 DEF Packet, ToGame
  <2> HIDE DEF p
  <2>4. QED
    BY <2>1, <2>3, QueueAppend
<1>6. QED
  BY <1>3, <1>4, <1>5

\* A frame of a client is taken.
LEMMA WsReadableStep ==
  ASSUME IInv, NEW e \in fired, WsReadable(e)
  PROVE  IInv'
<1>1. /\ e.who \in Conns /\ ReadTurn(e)
      /\ inbox' = [inbox EXCEPT ![e.who] = Nil]
      /\ UNCHANGED <<backlog, counter, given, gate, actor, bounds>>
  BY DEF WsReadable
<1>2. e.fd \in Fds /\ owner[e.fd] = e.who /\ session[e.fd].sid \in Sids
  BY <1>1, TurnOwner, FoundSelf DEF IInv, LoopInv
<1>3. \E cmd \in {"open", "data", "close"} : \E S \in SUBSET {e.fd} : Forward(cmd, e.fd, S)
  BY DEF WsReadable
<1>4. LoopInv' /\ UNCHANGED <<owner, alive, toGate>> /\ toGame' \in Seq(ToGame)
  BY <1>1, <1>3, ForwardStep
<1>5. /\ session' \in [Fds -> Session]
      /\ \A fd \in Fds : session'[fd].sid = session[fd].sid
      /\ client' \in [Conns -> {"new", "asked", "open", "bye", "gone"}]
      /\ \A c \in Conns : client'[c] = "new" <=> client[c] = "new"
  <2>1. /\ session \in [Fds -> Session]
        /\ client \in [Conns -> {"new", "asked", "open", "bye", "gone"}]
    BY DEF IInv, SessionTypes
  <2>2. CASE /\ session' = [session EXCEPT ![e.fd].had_shake = TRUE]
             /\ client' = [client EXCEPT ![e.who] = IF @ = "asked" THEN "open" ELSE @]
    <3>1. session' \in [Fds -> Session] /\ \A fd \in Fds : session'[fd].sid = session[fd].sid
      BY <1>2, <2>1, <2>2 DEF Session
    <3>2. /\ client' \in [Conns -> {"new", "asked", "open", "bye", "gone"}]
          /\ \A c \in Conns : client'[c] = "new" <=> client[c] = "new"
      BY <1>1, <2>1, <2>2
    <3>3. QED
      BY <3>1, <3>2
  <2>3. CASE UNCHANGED <<session, client>>
    BY <2>1, <2>3
  <2>4. QED
    BY <2>2, <2>3 DEF WsReadable
<1>6. Matched' /\ Distinct' /\ ToGame' = ToGame /\ ToGate' = ToGate
  BY <1>1, <1>4, <1>5, SameIds DEF bounds
<1>7. Addressed'
  BY <1>1, <1>4, <1>6 DEF IInv, Addressed
<1>8. SessionTypes'
  BY <1>1, <1>5 DEF IInv, SessionTypes, bounds
<1>9. QED
  BY <1>4, <1>6, <1>7, <1>8 DEF IInv

\* Packets of gamesrv are taken.
LEMMA LinkReadableStep ==
  ASSUME IInv, NEW e \in fired, LinkReadable(e)
  PROVE  IInv'
<1>1. PICK n \in 1..Len(toGate) :
        /\ PutFrames({toGate[i].sid : i \in 1..n})
        /\ toGate' = SubSeq(toGate, n + 1, Len(toGate))
  BY DEF LinkReadable
<1>2. /\ e.who = Link /\ ReadTurn(e) /\ alive
      /\ UNCHANGED <<owner, clients, table, gate, alive, toGame, actor, bounds>>
  BY DEF LinkReadable
<1>3. LoopInv'
  <2>1. is_connect_ /\ LoopInv
    BY <1>2 DEF IInv, LoopInv, LinkIsOpen
  <2>2. Create(Found({toGate[i].sid : i \in 1..n}), W)
    BY <1>1 DEF PutFrames
  <2>3. QED
    BY <1>2, <2>1, <2>2, AskStep
<1> USE DEF clients, table, bounds
<1>4. Matched' /\ Distinct' /\ ToGame' = ToGame /\ ToGate' = ToGate
  BY <1>2, SameIds
<1>5. Addressed'
  <2>1. toGate' \in Seq(ToGate)
    BY <1>1, QueueSuffix DEF IInv, Addressed
  <2>2. QED
    BY <1>2, <1>4, <2>1 DEF IInv, Addressed
<1>6. SessionTypes'
  BY <1>2 DEF IInv, SessionTypes
<1>7. QED
  BY <1>3, <1>4, <1>5, <1>6 DEF IInv

\* An answer is on its way to whom it is for, or it is dropped.
LEMMA SendStep ==
  ASSUME IInv, NEW sid \in Sids, NEW c \in Conns,
         given[c] # Nil, given[c].sid = sid, Send(sid, c)
  PROVE  toGate' \in Seq(ToGate)
<1>1. toGate \in Seq(ToGate) /\ toGate' \in {toGate, Append(toGate, [sid |-> sid, for |-> c])}
  BY DEF IInv, Addressed, Send
<1>2. [sid |-> sid, for |-> c] \in ToGate
  BY DEF ToGate
<1>3. QED
  BY <1>1, <1>2, QueueAppend

\* gamesrv makes, keeps or saves the actor of an id, or speaks to it.
LEMMA GameSteps ==
  ASSUME IInv, GameReceive \/ \E sid \in Sids : GameSpeak(sid)
  PROVE  IInv'
<1> USE DEF bounds
<1>1. UNCHANGED <<loop, clients, table, gate, alive, bounds>>
  BY DEF GameReceive, GameSpeak
<1>2. LoopInv'
  BY <1>1, LoopStays DEF IInv
<1>3. Matched' /\ Distinct' /\ ToGame' = ToGame /\ ToGate' = ToGate
  BY <1>1, SameIds DEF clients, table, loop
<1>4. /\ toGame' \in Seq(ToGame) /\ toGate' \in Seq(ToGate)
      /\ actor' \in [Sids -> Conns \cup {Nil}]
      /\ \A sid \in Sids : actor'[sid] # Nil =>
           given[actor'[sid]] # Nil /\ given[actor'[sid]].sid = sid
  <2>0. /\ toGame \in Seq(ToGame) /\ toGate \in Seq(ToGate)
        /\ actor \in [Sids -> Conns \cup {Nil}]
        /\ \A sid \in Sids : actor[sid] # Nil =>
             given[actor[sid]] # Nil /\ given[actor[sid]].sid = sid
    BY DEF IInv, Addressed, SessionTypes
  <2>1. CASE GameReceive
    <3> DEFINE p == Head(toGame)
    <3>1. p \in ToGame /\ Tail(toGame) \in Seq(ToGame)
      BY <2>0, <2>1, QueueTail DEF GameReceive
    <3>2. /\ p.sid \in Sids /\ p.from \in Conns
          /\ given[p.from] # Nil /\ given[p.from].sid = p.sid
      BY <3>1 DEF ToGame
    <3> HIDE DEF p
    <3>3. toGame' = Tail(toGame)
      BY <2>1 DEF GameReceive, p
    <3>4. \/ UNCHANGED <<actor, toGate>>
          \/ /\ Send(p.sid, p.from)
             /\ \E login \in {Nil, p.from} :
                  actor' = [actor EXCEPT ![p.sid] = IF @ = Nil THEN login ELSE @]
          \/ /\ \E saved \in {Nil, actor[p.sid]} : actor' = [actor EXCEPT ![p.sid] = saved]
             /\ UNCHANGED toGate
      BY <2>1 DEF GameReceive, p
    <3>5. toGate' \in Seq(ToGate)
      BY <2>0, <3>2, <3>4, SendStep
    <3>6. \E c \in {Nil, p.from, actor[p.sid]} : actor' \in {actor, [actor EXCEPT ![p.sid] = c]}
      BY <3>4
    <3>7. PICK c \in {Nil, p.from, actor[p.sid]} :
            actor' = actor \/ actor' = [actor EXCEPT ![p.sid] = c]
      BY <3>6
    <3>8. /\ c \in Conns \cup {Nil}
          /\ c # Nil => given[c] # Nil /\ given[c].sid = p.sid
      BY <2>0, <3>2
    <3>9. /\ actor' \in [Sids -> Conns \cup {Nil}]
          /\ \A sid \in Sids : actor'[sid] = actor[sid] \/ (sid = p.sid /\ actor'[sid] = c)
      <4>0. p.sid \in Sids /\ actor \in [Sids -> Conns \cup {Nil}]
        BY <2>0, <3>2
      <4>1. CASE actor' = actor
        BY <4>0, <4>1
      <4>2. CASE actor' = [actor EXCEPT ![p.sid] = c]
        BY <4>0, <4>2, <3>8
      <4> QED
        BY <3>7, <4>1, <4>2
    <3>10. QED
      BY <2>0, <3>1, <3>3, <3>5, <3>8, <3>9
  <2>2. ASSUME NEW sid \in Sids, GameSpeak(sid)
        PROVE  UNCHANGED <<toGame, actor>> /\ toGate' \in Seq(ToGate)
    BY <2>0, <2>2, SendStep DEF GameSpeak
  <2>3. QED
    BY <2>0, <2>1, <2>2
<1>5. Addressed'
  BY <1>1, <1>3, <1>4 DEF Addressed, table
<1>6. SessionTypes'
  BY <1>1, <1>4 DEF IInv, SessionTypes, clients, table
<1>7. QED
  BY <1>2, <1>3, <1>5, <1>6 DEF IInv

-----------------------------------------------------------------------------
(* New connections, failures *)

\* A connection is accepted: a free descriptor becomes its own, and an id that
\* nobody has in this run.
LEMMA TakenStep ==
  ASSUME IInv, NEW e \in fired, e.who = Listener, ReadTurn(e), counter < MaxSessions,
         UNCHANGED <<client, inbox, gate, link, actor, bounds>>,
         NEW c \in backlog, NEW fd \in Fds, Lowest(fd), backlog' = backlog \ {c},
         SessionInit(fd, c), Opened(fd, c)
  PROVE  IInv'
<1>1. Lowest(fd) /\ backlog' = backlog \ {c}
  OBVIOUS
<1>2. /\ e.who = Listener /\ ReadTurn(e) /\ counter < MaxSessions
      /\ UNCHANGED <<client, inbox, gate, link, actor, bounds>>
  OBVIOUS
<1> DEFINE id == [sid |-> <<fd, counter>>, run |-> run]
<1>4. LoopInv /\ SessionTypes /\ Matched /\ Distinct /\ Addressed
  BY DEF IInv
<1>5. owner[fd] = Nil /\ mask[fd] = {} /\ fd # sockfd_
  BY <1>1, <1>4, Names DEF Lowest, Free, Open, LoopInv, MasksAgree, LinkIsOpen
<1>3. /\ owner' = [owner EXCEPT ![fd] = c]
      /\ mask' = [mask EXCEPT ![fd] = {R}]
      /\ polled' = [polled EXCEPT ![fd] = {R}]
      /\ session' = [session EXCEPT ![fd] = [sid |-> <<fd, counter>>, had_shake |-> FALSE]]
      /\ counter' = counter + 1
      /\ given' = [given EXCEPT ![c] = id]
  BY <1>4, <1>5, OpenedLoop DEF SessionInit, LoopInv
<1>6. c \in Conns /\ given[c] = Nil
  BY <1>4 DEF SessionTypes, Distinct
<1>7. LoopInv'
  <2>1. \A f \in Fds \ {e.fd} : owner[f] # Nil => owner'[f] = owner[f]
    BY <1>3, <1>4, <1>5 DEF LoopInv, LoopTypes
  <2>2. owner'[e.fd] = owner[e.fd]
    <3>1. owner[e.fd] = Listener /\ e.fd \in Fds
      BY <1>2, <1>4, TurnOwner DEF LoopInv
    <3>2. e.fd # fd
      BY <3>1, <1>5, Names
    <3>3. QED
      BY <3>1, <3>2, <1>3, <1>4 DEF LoopInv, LoopTypes
  <2>3. Batch' /\ Owned'
    BY <1>2, <1>4, <2>1, <2>2, TurnKeepsBatch DEF LoopInv
  <2>4. LoopTypes'
    BY <1>2, <1>3, <1>4, <1>6 DEF LoopInv, LoopTypes, gate, link
  <2>5. MasksAgree'
    BY <1>3, <1>4, <1>5, <1>6, Names DEF LoopInv, LoopTypes, MasksAgree, Open
  <2>6. LinkIsOpen'
    BY <1>2, <1>3, <1>4, <1>5, <1>6, Names
       DEF LoopInv, LoopTypes, LinkIsOpen, gate, link
  <2>7. Unwatched'
    BY <1>2, <1>3, <1>4, <1>5 DEF LoopInv, LoopTypes, Unwatched, gate
  <2>8. QED
    BY <2>3, <2>4, <2>5, <2>6, <2>7 DEF LoopInv
<1>8. counter \in Nat /\ run \in Nat /\ run <= MaxFailures /\ <<fd, counter>> \in Sids
  <2>1. counter \in 0..(MaxSessions - 1)
    BY <1>2, <1>4, Names DEF SessionTypes
  <2>2. run \in 0..failures /\ failures \in 0..MaxFailures
    BY <1>4 DEF SessionTypes
  <2>3. run \in Nat /\ run <= MaxFailures
    BY <2>2, Names
  <2>4. counter \in Nat /\ <<fd, counter>> \in Sids
    BY <2>1 DEF Sids
  <2>5. QED
    BY <2>3, <2>4
<1>9. id \in [sid : Sids, run : 0..MaxFailures] /\ id.sid = <<fd, counter>> /\ id.run = run
  BY <1>8
<1>10. id # Nil
  <2>1. id \in [sid : Nat \X Nat, run : Nat]
    BY <1>8, Names
  <2>2. Nil \notin [sid : Nat \X Nat, run : Nat]
    BY SessionsAssumption
  <2>3. QED
    BY <2>1, <2>2
<1>11. SessionTypes'
  <2>1. given' \in [Conns -> [sid : Sids, run : 0..MaxFailures] \cup {Nil}]
    BY <1>3, <1>4, <1>9 DEF SessionTypes
  <2>2. session' \in [Fds -> Session]
    BY <1>3, <1>4, <1>8 DEF SessionTypes, Session
  <2>3. counter' \in 0..MaxSessions
    BY <1>2, <1>3, <1>8, Names
  <2>4. QED
    BY <1>1, <1>2, <1>4, <2>1, <2>2, <2>3 DEF SessionTypes, bounds
<1> HIDE DEF id
<1>12. \A d \in Conns : given'[d] = IF d = c THEN id ELSE given[d]
  BY <1>3, <1>4 DEF SessionTypes
<1>13. Matched'
  <2> SUFFICES ASSUME NEW f \in Fds
               PROVE  /\ session'[f].sid # Nil => session'[f].sid[1] = f
                      /\ owner'[f] \in Conns =>
                           /\ given'[owner'[f]] # Nil
                           /\ session'[f].sid = given'[owner'[f]].sid
                           /\ given'[owner'[f]].run = run'
                      /\ owner'[f] = Listener => session'[f].sid = Nil
    BY DEF Matched
  <2>1. CASE f = fd
    <3>1. session'[f].sid = <<fd, counter>> /\ owner'[f] = c /\ run' = run
      BY <1>2, <1>3, <1>4, <2>1 DEF SessionTypes, LoopInv, LoopTypes, bounds
    <3>2. QED
      BY <2>1, <3>1, <1>6, <1>9, <1>10, <1>12, Names
  <2>2. CASE f # fd
    <3>1. session'[f] = session[f] /\ owner'[f] = owner[f] /\ run' = run
      BY <1>2, <1>3, <1>4, <2>2 DEF SessionTypes, LoopInv, LoopTypes, bounds
    <3>2. owner[f] # c
      BY <1>4, <1>6 DEF Matched
    <3>3. QED
      BY <3>1, <3>2, <1>4, <1>12 DEF Matched
  <2>3. QED
    BY <2>1, <2>2
<1>14. Distinct'
  <2>1. \A d \in Conns : given[d] # Nil => given[d] # id
    BY <1>4, <1>8, <1>9 DEF Distinct
  <2>2. \A d, f \in Conns :
          given'[d] # Nil /\ given'[f] # Nil /\ given'[d] = given'[f] => d = f
    BY <1>4, <1>12, <2>1 DEF Distinct
  <2>3. \A d \in Conns : given'[d] # Nil =>
          given'[d].run <= run' /\ (given'[d].run = run' => given'[d].sid[2] < counter')
    <3> SUFFICES ASSUME NEW d \in Conns, given'[d] # Nil
                 PROVE  given'[d].run <= run' /\ (given'[d].run = run' => given'[d].sid[2] < counter')
      OBVIOUS
    <3>1. run' = run /\ counter' = counter + 1
      BY <1>2, <1>3 DEF bounds
    <3>2. CASE d = c
      BY <1>8, <1>9, <1>12, <3>1, <3>2
    <3>3. CASE d # c
      <4>1. given'[d] = given[d] /\ given[d].sid \in Nat \X Nat
        BY <1>4, <1>12, <3>3, Names DEF SessionTypes
      <4>2. given[d].sid[2] \in Nat
        BY <4>1
      <4>3. QED
        BY <1>4, <1>8, <3>1, <4>1, <4>2 DEF Distinct
    <3>4. QED
      BY <3>2, <3>3
  <2>4. \A d \in Conns : client'[d] = "new" \/ d \in backlog' => given'[d] = Nil
    BY <1>1, <1>2, <1>4, <1>12 DEF Distinct
  <2>5. \A d \in backlog' : client'[d] # "new"
    BY <1>1, <1>2, <1>4 DEF Distinct
  <2>6. QED
    BY <2>2, <2>3, <2>4, <2>5 DEF Distinct
<1>15. Addressed'
  <2>1. UNCHANGED <<toGame, toGate, actor, run>>
    BY <1>2 DEF link, bounds
  <2>2. ToGame \subseteq ToGame' /\ ToGate \subseteq ToGate'
    BY <1>6, <1>12, <2>1 DEF ToGame, ToGate
  <2>3. toGame' \in Seq(ToGame') /\ toGate' \in Seq(ToGate')
    BY <1>4, <2>1, <2>2, SeqMonotonic DEF Addressed
  <2>4. \A sid \in Sids : actor'[sid] # Nil =>
          given'[actor'[sid]] # Nil /\ given'[actor'[sid]].sid = sid
    BY <1>4, <1>6, <1>12, <2>1 DEF Addressed, SessionTypes
  <2>5. QED
    BY <2>3, <2>4 DEF Addressed
<1>16. QED
  BY <1>7, <1>11, <1>13, <1>14, <1>15 DEF IInv

\* One connection an event, or none.
LEMMA AcceptStep ==
  ASSUME IInv, NEW e \in fired, Accept(e)
  PROVE  IInv'
<1>1. /\ e.who = Listener /\ ReadTurn(e)
      /\ UNCHANGED <<client, inbox, gate, link, actor, bounds>>
  BY DEF Accept
<1>2. CASE UNCHANGED <<owner, mask, polled, backlog, table, buffers>>
  <2>1. LoopInv'
    BY <1>1, <1>2, IdleStep DEF IInv, link
  <2>2. QED
    BY <1>1, <1>2, <2>1, LoopOnly DEF clients, link
<1>3. CASE /\ counter < MaxSessions
           /\ \E c \in backlog, fd \in Fds :
                Lowest(fd) /\ backlog' = backlog \ {c} /\ SessionInit(fd, c) /\ Opened(fd, c)
  BY <1>1, <1>3, TakenStep
<1>4. QED
  BY <1>2, <1>3 DEF Accept

\* The link breaks: the packets on it are gone.
LEMMA LinkBreakStep ==
  ASSUME IInv, LinkBreak
  PROVE  IInv'
<1>1. /\ UNCHANGED <<loop, clients, table, gate, run>>
      /\ alive' = FALSE /\ toGame' = <<>> /\ toGate' = <<>>
      /\ failures' = failures + 1 /\ failures < MaxFailures
      /\ actor' \in {actor, [sid \in Sids |-> Nil]}
  BY DEF LinkBreak
<1>2. LoopInv'
  BY <1>1, LoopStays DEF IInv
<1>3. Matched' /\ Distinct' /\ ToGame' = ToGame /\ ToGate' = ToGate
  BY <1>1, SameIds DEF clients, table, loop
<1>4. Addressed'
  BY <1>1, <1>3 DEF IInv, Addressed, table
<1>5. SessionTypes'
  <2>1. actor' \in [Sids -> Conns \cup {Nil}]
    BY <1>1 DEF IInv, SessionTypes
  <2>2. failures \in 0..MaxFailures /\ run \in 0..failures /\ run' = run
    BY <1>1 DEF IInv, SessionTypes
  <2>3. MaxFailures \in Nat
    BY Names
  <2>4. failures' \in 0..MaxFailures /\ run' \in 0..failures'
    BY <1>1, <2>2, <2>3
  <2>5. QED
    BY <1>1, <2>1, <2>4 DEF IInv, SessionTypes, clients, table
<1>6. QED
  BY <1>2, <1>3, <1>4, <1>5 DEF IInv

\* The event loop of a process that has just started.
LEMMA NewLoop ==
  ASSUME owner = [fd \in Fds |-> IF fd = listenfd THEN Listener ELSE Nil],
         mask = [fd \in Fds |-> IF fd = listenfd THEN {R} ELSE {}],
         polled = mask, fired = {}, sockfd_ = Nil, is_connect_ = FALSE, alive = FALSE
  PROVE  LoopInv
<1>1. LoopTypes
  BY DEF LoopTypes
<1>2. Batch /\ Owned /\ Unwatched
  BY DEF Batch, Owned, Unwatched
<1>3. MasksAgree
  BY Names DEF MasksAgree, Open
<1>4. LinkIsOpen
  BY Names DEF LinkIsOpen
<1>5. QED
  BY <1>1, <1>2, <1>3, <1>4 DEF LoopInv

LEMMA NewLoopNext ==
  ASSUME GateRestart
  PROVE  LoopInv'
<1>1. /\ owner' = [fd \in Fds |-> IF fd = listenfd THEN Listener ELSE Nil]
      /\ mask' = [fd \in Fds |-> IF fd = listenfd THEN {R} ELSE {}]
      /\ polled' = mask' /\ fired' = {} /\ sockfd_' = Nil
      /\ is_connect_' = FALSE /\ alive' = FALSE
  BY DEF GateRestart
<1>2. LoopTypes'
  BY <1>1 DEF LoopTypes
<1>3. Batch' /\ Owned' /\ Unwatched'
  BY <1>1 DEF Batch, Owned, Unwatched
<1>4. MasksAgree'
  BY <1>1, Names DEF MasksAgree, Open
<1>5. LinkIsOpen'
  BY <1>1, Names DEF LinkIsOpen
<1>6. QED
  BY <1>2, <1>3, <1>4, <1>5 DEF LoopInv

\* gatesrv starts again: all ids of its earlier runs belong to those runs.
LEMMA GateRestartStep ==
  ASSUME IInv, GateRestart
  PROVE  IInv'
<1>1. /\ owner' = [fd \in Fds |-> IF fd = listenfd THEN Listener ELSE Nil]
      /\ client' = [c \in Conns |-> IF client[c] = "new" THEN "new" ELSE "gone"]
      /\ inbox' = [c \in Conns |-> Nil] /\ backlog' = {}
      /\ session' = [fd \in Fds |-> NoSession] /\ counter' = 0
      /\ toGame' = <<>> /\ toGate' = <<>>
      /\ failures' = failures + 1 /\ run' = run + 1 /\ failures < MaxFailures
      /\ UNCHANGED <<given, actor>>
  BY DEF GateRestart
<1>2. SessionTypes /\ Distinct /\ Addressed
  BY DEF IInv
<1>3. failures' \in 0..MaxFailures /\ run' \in 0..failures' /\ run \in Nat
  <2>1. failures \in 0..MaxFailures /\ run \in 0..failures /\ MaxFailures \in Nat
    BY <1>2, Names DEF SessionTypes
  <2>2. QED
    BY <1>1, <2>1
<1>4. SessionTypes'
  <2>1. counter' \in 0..MaxSessions
    BY <1>1, Names
  <2>2. session' \in [Fds -> Session]
    BY <1>1 DEF Session, NoSession
  <2>3. QED
    BY <1>1, <1>2, <1>3, <2>1, <2>2 DEF SessionTypes
<1>5. Matched'
  BY <1>1, Names DEF Matched, NoSession
<1>6. Distinct'
  <2>1. \A c \in Conns : given[c] # Nil => given[c].run \in Nat
    BY <1>2 DEF SessionTypes
  <2>2. \A c \in Conns : given[c] # Nil => given[c].run <= run' /\ given[c].run # run'
    BY <1>1, <1>2, <1>3, <2>1 DEF Distinct
  <2>3. QED
    BY <1>1, <1>2, <2>2 DEF Distinct
<1>7. Addressed'
  BY <1>1, <1>2 DEF Addressed
<1>8. QED
  BY <1>4, <1>5, <1>6, <1>7, NewLoopNext DEF IInv

LEMMA InitIInv == Init => IInv
<1> SUFFICES ASSUME Init PROVE IInv
  OBVIOUS
<1>1. LoopInv
  BY NewLoop DEF Init
<1>2. SessionTypes
  <2>1. counter \in 0..MaxSessions /\ failures \in 0..MaxFailures /\ run \in 0..failures
    <3>1. MaxSessions \in Nat /\ MaxFailures \in Nat
      BY Names
    <3>2. counter = 0 /\ failures = 0 /\ run = 0
      BY DEF Init
    <3>3. QED
      BY <3>1, <3>2
  <2>2. session \in [Fds -> Session]
    BY DEF Init, Session, NoSession
  <2>3. QED
    BY <2>1, <2>2 DEF Init, SessionTypes
<1>3. Matched
  BY Names DEF Init, Matched, NoSession
<1>4. Distinct
  BY DEF Init, Distinct
<1>5. Addressed
  BY DEF Init, Addressed
<1>6. QED
  BY <1>1, <1>2, <1>3, <1>4, <1>5 DEF IInv

LEMMA NextIInv == IInv /\ [Next]_vars => IInv'
<1> SUFFICES ASSUME IInv, [Next]_vars PROVE IInv'
  OBVIOUS
<1>1. CASE UNCHANGED vars
  <2>1. /\ UNCHANGED <<loop, clients, table, gate, link, actor, bounds>>
    BY <1>1 DEF vars
  <2>2. LoopInv'
    BY <2>1, LoopStays DEF IInv, link
  <2>3. QED
    BY <2>1, <2>2, LoopOnly DEF link, loop
<1>2. ASSUME NEW c \in Conns,
             \/ ClientConnect(c) \/ ClientLeave(c)
             \/ \E frame \in {"data", "bye"} : ClientSend(c, frame)
      PROVE  IInv'
  BY <1>2, ClientSteps
<1>3. CASE Poll(Ready) /\ UNCHANGED <<clients, table, gate, link, actor, bounds, buffers>>
  <2>1. LoopInv' /\ UNCHANGED owner
    BY <1>3, PollStep DEF IInv, link, Poll
  <2>2. QED
    BY <1>3, <2>1, LoopOnly DEF link
<1>4. ASSUME NEW e \in fired,
             Passed(e) /\ UNCHANGED <<clients, table, gate, link, actor, bounds, buffers>>
      PROVE  IInv'
  <2>1. LoopInv' /\ UNCHANGED owner
    BY <1>4, PassedStep DEF IInv, link, Passed
  <2>2. QED
    BY <1>4, <2>1, LoopOnly DEF link
<1>5. ASSUME NEW e \in fired,
             \/ Accept(e) \/ WsEnd(e) \/ WsReadable(e) \/ WsWritable(e)
             \/ LinkEnd(e) \/ LinkReadable(e) \/ LinkWritable(e)
      PROVE  IInv'
  BY <1>5, AcceptStep, CloseHandlers, WsReadableStep, LinkReadableStep
<1>6. CASE Turns
  BY <1>3, <1>4, <1>5, <1>6 DEF Turns
<1>7. CASE ConnectFails \/ Connect
  <2>1. UNCHANGED <<clients, table, toGame, toGate, actor, bounds>>
    BY <1>7 DEF ConnectFails, Connect, link
  <2>2. QED
    BY <1>7, <2>1, ConnectStep, LoopOnly DEF IInv
<1>8. CASE GameReceive \/ \E sid \in Sids : GameSpeak(sid)
  BY <1>8, GameSteps
<1>9. CASE LinkBreak
  BY <1>9, LinkBreakStep
<1>10. CASE GateRestart
  BY <1>10, GateRestartStep
<1>11. QED
  BY <1>1, <1>2, <1>6, <1>7, <1>8, <1>9, <1>10 DEF Next

-----------------------------------------------------------------------------
(* Who is there still has his descriptor *)

\* A step that gives no id, closes no descriptor but of who has hung up, and
\* frees no buffer but of a descriptor that is no client's then.
LEMMA PresentStays ==
  ASSUME IInv, Present, UNCHANGED given,
         \A c \in Conns : client'[c] # "gone" => client[c] # "gone",
         \A fd \in Fds : owner[fd] \in Conns =>
           owner'[fd] = owner[fd] \/ client[owner[fd]] = "gone",
         \A fd \in Fds : owner'[fd] \in Conns => owner'[fd] = owner[fd],
         left' \subseteq Fds, stray' \in BOOLEAN,
         \A fd \in left' : fd \in left \/ owner'[fd] \notin Conns
  PROVE  Present'
<1>1. \A c \in Conns : given[c] # Nil => given[c].sid[1] \in Fds
  BY DEF IInv, SessionTypes, Sids
<1>2. \A c \in Conns : given'[c] # Nil /\ client'[c] # "gone" => owner'[given'[c].sid[1]] = c
  BY <1>1 DEF Present
<1>3. \A fd \in left' : owner'[fd] \notin Conns
  BY DEF Present
<1>4. QED
  BY <1>2, <1>3 DEF Present

\* Most steps: nobody hangs up, and the loop and the buffers are as they were.
LEMMA PresentSame ==
  ASSUME IInv, Present, UNCHANGED <<given, owner, left>>, stray' \in BOOLEAN,
         \A c \in Conns : client'[c] # "gone" => client[c] # "gone"
  PROVE  Present'
BY PresentStays DEF Present

\* A handler that closes the descriptor of who has hung up, or the link.
LEMMA PresentClose ==
  ASSUME IInv, Present, UNCHANGED <<given, client>>, NEW fd \in Fds,
         Close(fd), Freed(fd), owner[fd] \in Conns => client[owner[fd]] = "gone"
  PROVE  Present'
<1>1. owner' = [owner EXCEPT ![fd] = Nil] /\ left' \subseteq left \cup {fd} /\ UNCHANGED stray
  BY DEF Close, Freed
<1>2. owner \in [Fds -> Conns \cup {Link, Listener, Nil}]
  BY DEF IInv, LoopInv, LoopTypes
<1>3. owner'[fd] = Nil /\ \A f \in Fds \ {fd} : owner'[f] = owner[f]
  BY <1>1, <1>2
<1>4. left' \subseteq Fds /\ stray' \in BOOLEAN
  BY <1>1 DEF Present
<1>5. \A f \in Fds : owner'[f] \in Conns => owner'[f] = owner[f]
  BY <1>3, Names
<1>6. \A f \in left' : f \in left \/ owner'[f] \notin Conns
  BY <1>1, <1>3, Names
<1>7. \A f \in Fds : owner[f] \in Conns => owner'[f] = owner[f] \/ client[owner[f]] = "gone"
  BY <1>3
<1>8. QED
  BY <1>4, <1>5, <1>6, <1>7, PresentStays

LEMMA PresentAccept ==
  ASSUME IInv, Present, NEW e \in fired, Accept(e)
  PROVE  Present'
<1>1. UNCHANGED client
  BY DEF Accept
<1>2. CASE UNCHANGED <<owner, mask, polled, backlog, table, buffers>>
  BY <1>1, <1>2, PresentSame DEF table, buffers, Present
<1>3. ASSUME NEW c \in backlog, NEW fd \in Fds,
             Lowest(fd), SessionInit(fd, c), Opened(fd, c), Created(fd)
      PROVE  Present'
  <2> DEFINE id == [sid |-> <<fd, counter>>, run |-> run]
  <2>1. /\ owner' = [owner EXCEPT ![fd] = c]
        /\ given' = [given EXCEPT ![c] = id]
        /\ left' = left \ {fd} /\ UNCHANGED stray
    BY <1>3 DEF Opened, SessionInit, Created
  <2>2. /\ owner \in [Fds -> Conns \cup {Link, Listener, Nil}]
        /\ given \in [Conns -> [sid : Sids, run : 0..MaxFailures] \cup {Nil}]
        /\ c \in Conns /\ owner[fd] = Nil
    BY <1>3 DEF IInv, LoopInv, LoopTypes, SessionTypes, Lowest, Free, Open
  <2>3. owner'[fd] = c /\ given'[c].sid[1] = fd
    BY <2>1, <2>2
  <2>4. \A d \in Conns \ {c} : given'[d] = given[d]
    BY <2>1, <2>2
  <2>5. \A f \in Fds \ {fd} : owner'[f] = owner[f]
    BY <2>1, <2>2
  <2>6. \A d \in Conns \ {c} : given'[d] # Nil /\ client'[d] # "gone" => owner'[given'[d].sid[1]] = d
    <3> SUFFICES ASSUME NEW d \in Conns \ {c}, given[d] # Nil, client[d] # "gone"
                 PROVE  owner'[given[d].sid[1]] = d
      BY <1>1, <2>4
    <3>1. given[d].sid[1] \in Fds
      BY <2>2 DEF Sids
    <3>2. owner[given[d].sid[1]] = d
      BY DEF Present
    <3>3. given[d].sid[1] # fd
      BY <3>2, <2>2, Names
    <3>4. QED
      BY <3>1, <3>2, <3>3, <2>5
  <2>7. \A f \in left' : owner'[f] \notin Conns
    BY <2>1, <2>5 DEF Present
  <2>8. QED
    BY <2>1, <2>3, <2>6, <2>7 DEF Present
<1>4. QED
  BY <1>2, <1>3 DEF Accept

LEMMA PresentHandlers ==
  ASSUME IInv, Present, NEW e \in fired,
         \/ WsEnd(e) \/ WsReadable(e) \/ WsWritable(e)
         \/ LinkEnd(e) \/ LinkReadable(e) \/ LinkWritable(e)
  PROVE  Present'
<1>1. e.fd \in Fds /\ owner[e.fd] = e.who
  BY TurnOwner DEF IInv, LoopInv, WsEnd, WsReadable, WsWritable, LinkEnd, LinkReadable, LinkWritable
<1>2. CASE WsReadable(e)
  <2>1. UNCHANGED <<given, owner, left, stray>>
    BY <1>2 DEF WsReadable, Forward, buffers
  <2>2. \A c \in Conns : client'[c] # "gone" => client[c] # "gone"
    BY <1>2 DEF WsReadable, IInv, SessionTypes
  <2>3. QED
    BY <2>1, <2>2, PresentSame DEF Present
<1>3. CASE LinkReadable(e)
  <2>1. UNCHANGED <<given, owner, left, client>> /\ stray' \in BOOLEAN
    BY <1>3 DEF LinkReadable, PutFrames, table, clients, Present
  <2>2. QED
    BY <2>1, PresentSame
<1>4. CASE UNCHANGED <<owner, clients, table, gate, link, actor, bounds, buffers>>
  BY <1>4, PresentSame DEF clients, table, buffers, Present
<1>5. CASE e.who \in Conns /\ client[e.who] = "gone" /\ WsClose(e.fd)
  BY <1>1, <1>5, PresentClose DEF WsClose, clients, table
<1>6. CASE e.who = Link /\ LinkClose(e.fd)
  BY <1>1, <1>6, PresentClose, Names DEF LinkClose, clients, table
<1>7. QED
  BY <1>2, <1>3, <1>4, <1>5, <1>6 DEF WsEnd, WsWritable, LinkEnd, LinkWritable

LEMMA PresentConnect ==
  ASSUME IInv, Present, ConnectFails \/ Connect
  PROVE  Present'
<1>1. PICK fd \in Fds : Socket(fd) /\ owner' = [owner EXCEPT ![fd] = Link]
  BY DEF ConnectFails, Connect, Opened
<1>2. UNCHANGED <<given, client, stray>> /\ left' \subseteq left
  BY DEF ConnectFails, Connect, Created, table, clients, buffers
<1>3. owner[fd] \in {Nil, Link} /\ owner \in [Fds -> Conns \cup {Link, Listener, Nil}]
  BY <1>1 DEF Socket, Lowest, Free, Open, IInv, LoopInv, LoopTypes
<1>4. owner'[fd] = Link /\ \A f \in Fds \ {fd} : owner'[f] = owner[f]
  BY <1>1, <1>3
<1>5. \A f \in Fds : owner[f] \in Conns => owner'[f] = owner[f]
  BY <1>3, <1>4, Names
<1>6. \A f \in Fds : owner'[f] \in Conns => owner'[f] = owner[f]
  BY <1>4, Names
<1>7. QED
  BY <1>2, <1>5, <1>6, PresentStays DEF Present

LEMMA InitPresent == Init => Present
BY DEF Init, Present

LEMMA NextPresent == IInv /\ Present /\ [Next]_vars => Present'
<1> SUFFICES ASSUME IInv, Present, [Next]_vars PROVE Present'
  OBVIOUS
<1>1. CASE UNCHANGED vars
  BY <1>1, PresentSame DEF vars, loop, clients, table, buffers, Present
<1>2. ASSUME NEW c \in Conns,
             \/ ClientConnect(c) \/ ClientLeave(c)
             \/ \E frame \in {"data", "bye"} : ClientSend(c, frame)
      PROVE  Present'
  <2>1. UNCHANGED <<given, owner, left, stray>>
    BY <1>2 DEF ClientConnect, ClientLeave, ClientSend, loop, table, buffers
  <2>2. \A d \in Conns : client'[d] # "gone" => client[d] # "gone"
    BY <1>2 DEF ClientConnect, ClientLeave, ClientSend, IInv, SessionTypes
  <2>3. QED
    BY <2>1, <2>2, PresentSame DEF Present
<1>3. CASE Turns
  <2>1. CASE Poll(Ready) /\ UNCHANGED <<clients, table, gate, link, actor, bounds, buffers>>
    BY <2>1, PresentSame DEF Poll, clients, table, buffers, Present
  <2>2. ASSUME NEW e \in fired,
               Passed(e) /\ UNCHANGED <<clients, table, gate, link, actor, bounds, buffers>>
        PROVE  Present'
    BY <2>2, PresentSame DEF Passed, clients, table, buffers, Present
  <2>3. QED
    BY <1>3, <2>1, <2>2, PresentAccept, PresentHandlers DEF Turns
<1>4. CASE ConnectFails \/ Connect
  BY <1>4, PresentConnect
<1>5. CASE GameReceive \/ (\E sid \in Sids : GameSpeak(sid)) \/ LinkBreak
  BY <1>5, PresentSame DEF GameReceive, GameSpeak, LinkBreak, loop, clients, table, buffers, Present
<1>6. CASE GateRestart
  <2>1. /\ client' = [c \in Conns |-> IF client[c] = "new" THEN "new" ELSE "gone"]
        /\ left' = {} /\ UNCHANGED <<given, stray>>
    BY <1>6 DEF GateRestart
  <2>2. \A c \in Conns : client[c] = "new" => given[c] = Nil
    BY DEF IInv, Distinct
  <2>3. QED
    BY <2>1, <2>2 DEF Present
<1>7. QED
  BY <1>1, <1>2, <1>3, <1>4, <1>5, <1>6 DEF Next

-----------------------------------------------------------------------------
(* What the invariant implies *)

LEMMA ImpliesTypeOK == IInv /\ Present => TypeOK
<1> SUFFICES ASSUME IInv, Present PROVE TypeOK
  OBVIOUS
<1>1. toGame \in Seq([cmd : {"open", "data", "close"}, sid : Sids, from : Conns])
  <2>1. ToGame \subseteq [cmd : {"open", "data", "close"}, sid : Sids, from : Conns]
    BY DEF ToGame
  <2>2. QED
    BY <2>1, SeqMonotonic DEF IInv, Addressed
<1>2. toGate \in Seq([sid : Sids, for : Conns])
  <2>1. ToGate \subseteq [sid : Sids, for : Conns]
    BY DEF ToGate
  <2>2. QED
    BY <2>1, SeqMonotonic DEF IInv, Addressed
<1>3. QED
  BY <1>1, <1>2 DEF IInv, LoopInv, LoopTypes, SessionTypes, Present, TypeOK

\* The connection with the id of an answer is the one it is for, unless that
\* was accepted by an earlier run.
LEMMA SameRunSameClient ==
  ASSUME IInv, NEW c \in Conns, given[c] # Nil, ~Former(c),
         NEW fd \in Fds, owner[fd] \in Conns, session[fd].sid = given[c].sid
  PROVE  owner[fd] = c
<1> DEFINE d == owner[fd]
<1>1. given[d] # Nil /\ given[d].sid = given[c].sid /\ given[d].run = run
  BY DEF IInv, Matched
<1>2. given[c].run \in Int /\ run \in Int /\ given[c].run <= run
  BY DEF IInv, Distinct, SessionTypes
<1>3. given[c].run = run
  BY <1>2 DEF Former
<1>4. given[c] = given[d]
  BY <1>1, <1>3 DEF IInv, SessionTypes
<1>5. QED
  BY <1>1, <1>4 DEF IInv, Distinct

LEMMA ImpliesRightClient == IInv /\ Present => RightClient
<1> SUFFICES ASSUME IInv, Present, NEW i \in DOMAIN toGate
             PROVE  LET c  == toGate[i].for
                        fd == session_find(toGate[i].sid)
                    IN  \/ fd # Nil /\ owner[fd] = c /\ fd \notin left
                        \/ /\ client[c] = "gone"
                           /\ fd = Nil \/ owner[fd] \in {Nil, Link} \/ Former(c)
  BY DEF RightClient
<1>1. PICK sid, c : sid = toGate[i].sid /\ c = toGate[i].for
  OBVIOUS
<1>2. /\ sid \in Sids /\ c \in Conns /\ given[c] # Nil /\ given[c].sid = sid
      /\ sid[1] \in Fds /\ sid[1] # Nil
  <2>1. sid \in Sids /\ c \in Conns /\ given[c] # Nil /\ given[c].sid = sid
    BY <1>1, Queued DEF ToGate
  <2>2. QED
    BY <2>1, Names DEF Sids
<1>3. CASE client[c] # "gone"
  <2>1. owner[sid[1]] = c
    BY <1>2, <1>3 DEF Present
  <2>2. session[sid[1]].sid = sid
    BY <1>2, <2>1 DEF IInv, Matched
  <2>3. session_find(sid) = sid[1] /\ sid[1] \notin left
    BY <1>2, <2>1, <2>2 DEF session_find, Present
  <2>4. QED
    BY <1>1, <1>2, <2>1, <2>3
<1>4. CASE client[c] = "gone" /\ session_find(sid) # Nil
  <2> DEFINE fd == sid[1]
  <2>1. session_find(sid) = fd /\ session[fd].sid = sid
    BY <1>4 DEF session_find
  <2>2. owner[fd] # Listener
    BY <1>2, <2>1, Names DEF IInv, Matched
  <2>3. owner[fd] \in Conns /\ ~Former(c) => owner[fd] = c
    BY <1>2, <2>1, SameRunSameClient
  <2>4. owner[fd] \in Conns \cup {Link, Listener, Nil}
    BY <1>2 DEF IInv, LoopInv, LoopTypes
  <2>5. owner[fd] = c => fd \notin left
    BY <1>2 DEF Present
  <2>6. QED
    BY <1>1, <1>2, <1>4, <2>1, <2>2, <2>3, <2>4, <2>5
<1>5. QED
  BY <1>1, <1>3, <1>4

LEMMA ImpliesOwnActor == IInv => OwnActor
<1> SUFFICES ASSUME IInv, NEW i \in DOMAIN toGame, actor[toGame[i].sid] # Nil
             PROVE  \/ actor[toGame[i].sid] = toGame[i].from
                    \/ Former(actor[toGame[i].sid])
  BY DEF OwnActor
<1> DEFINE sid == toGame[i].sid
           c == toGame[i].from
           d == actor[sid]
<1>1. /\ sid \in Sids /\ c \in Conns
      /\ given[c] # Nil /\ given[c] = [sid |-> sid, run |-> run]
  BY Queued DEF ToGame
<1>2. d \in Conns /\ given[d] # Nil /\ given[d].sid = sid
  BY <1>1 DEF IInv, Addressed, SessionTypes
<1>3. given[d].run \in Int /\ run \in Int /\ given[d].run <= run
  BY <1>2 DEF IInv, Distinct, SessionTypes
<1>4. CASE given[d].run = run
  <2>1. given[d] = given[c]
    BY <1>1, <1>2, <1>4 DEF IInv, SessionTypes
  <2>2. QED
    BY <1>1, <1>2, <2>1 DEF IInv, Distinct
<1>5. CASE given[d].run # run
  BY <1>3, <1>5 DEF Former
<1>6. QED
  BY <1>4, <1>5

LEMMA ImpliesOwnEvents == IInv => OwnEvents
  BY DEF IInv, LoopInv, Owned, OwnEvents, Valid

-----------------------------------------------------------------------------
(* Theorems *)

LEMMA Invariant == Spec => [](IInv /\ Present)
<1>1. Init => IInv /\ Present
  BY InitIInv, InitPresent
<1>2. IInv /\ Present /\ [Next]_vars => (IInv /\ Present)'
  BY NextIInv, NextPresent
<1>3. QED
  BY <1>1, <1>2, PTL DEF Spec

\* Every variable keeps its type; no counter leaves its bounds.
THEOREM SessionsTypeCorrect == Spec => []TypeOK
  BY Invariant, ImpliesTypeOK, PTL

\* An answer for a client that is still there is put into its own buffer; one for
\* a client that has hung up goes nowhere, into a freed block, onto the link if
\* that has the descriptor now, or to a new client of a later run of gatesrv
\* (websocket.cc 41-54, 65-86, 453-511).
THEOREM AnswersReachTheirClient == Spec => []RightClient
  BY Invariant, ImpliesRightClient, PTL

\* A client's frames are handled for its own actor, unless gatesrv has started
\* again since that actor was made.
THEOREM FramesReachTheirActor == Spec => []OwnActor
  BY Invariant, ImpliesOwnActor, PTL

\* epoll and the loop's masks agree, and nothing that is closed is watched
\* (ae.cc 103-136).
THEOREM LoopWatchesWhatIsOpen == Spec => []MasksAgree
<1>1. IInv => MasksAgree
  BY DEF IInv, LoopInv
<1>2. QED
  BY <1>1, Invariant, PTL

\* No handler runs for an event of a descriptor's former owner (ae.cc 367-384).
THEOREM HandlersRunForTheirOwner == Spec => []OwnEvents
  BY Invariant, ImpliesOwnEvents, PTL

\* There is one socket to gamesrv at most, and it is watched while it is used
\* (gameclient.cc 21-30, 250-319).
THEOREM LinkStaysOpen == Spec => []LinkIsOpen
<1>1. IInv => LinkIsOpen
  BY DEF IInv, LoopInv
<1>2. QED
  BY <1>1, Invariant, PTL
=============================================================================
