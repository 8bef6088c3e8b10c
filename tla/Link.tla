-------------------------------- MODULE Link --------------------------------
(***************************************************************************)
(* The links of gamesrv, end to end: what it sends to gatesrv              *)
(* (gamesrv/gatesrv/gatesrv.cc to gatesrv/gameclient/gameclient.cc) and to *)
(* dbsrv (gamesrv/dbclient/dbclient.cc to dbsrv/gamesrv/gamesrv.cc).       *)
(*                                                                         *)
(* A packet goes into the blocks of Sendbuf; the writable event passes     *)
(* bytes to the kernel as it takes them; the readable event at the other   *)
(* end receives any part of them into a buffer of fixed size and           *)
(* dispatches the packets that are complete.  The other direction of the   *)
(* links runs the same code.                                               *)
(*                                                                         *)
(* What is abstracted: a socket keeps its buffer over reconnections; of    *)
(* the reuse of its descriptor's number there is what SendToGate says      *)
(* (Sessions models the reuse of descriptors); when a connection breaks,   *)
(* what the kernel holds is lost; and gamesrv itself goes on (a send to a  *)
(* peer that is gone may end it, as nothing ignores SIGPIPE: all of this   *)
(* begins again then).                                                     *)
(***************************************************************************)
EXTENDS Sendbuf, Framing, Integers, FiniteSetsExt

CONSTANTS
  Careless,    \* the sockets to gatesrv: its sockfd_ outlives the connection
  Lengths,     \* the lengths of packets, their two first bytes included
  RecvSize,    \* Recvbuf::create: the size of the buffer at the other end
  KernelSize,  \* how much the kernel holds of a connection
  MaxPackets,  \* bound: the packets sent
  MaxBreaks    \* bound: the connections that break by themselves

ASSUME LinkAssumption ==
  /\ Careless \subseteq Sockets
  /\ Lengths \subseteq Nat \ 0..2
  /\ RecvSize \in [Sockets -> Nat \ {0}]
  /\ KernelSize \in Nat \ {0}

VARIABLES
  conn,     \* "up", "broken" (gamesrv has not noticed) or "closed"
  armed,    \* the sockets whose mask has AE_WRITABLE
  kernel,   \* the bytes in the kernel
  rbuf,     \* the receive buffer at the other end, from rptr to wptr
  sent,     \* the bodies sent on the connection
  got,      \* the bodies dispatched from it
  packets,  \* how many packets were sent
  breaks,   \* how many connections broke by themselves
  wide,     \* ghost: a packet of the connection was longer than its length says
  left,     \* ghost: the socket was closed with something left to send
  late,     \* ghost: a closed socket was sent to
  spoilt    \* ghost: bytes went into a block of the pool or of another socket

wire   == <<kernel, rbuf, got>>
ghosts == <<wide, left, late, spoilt>>
vars   == <<sb, conn, armed, wire, sent, packets, breaks, ghosts>>

Init ==
  /\ sb = NoBuffers
  /\ conn = [s \in Sockets |-> "up"]
  /\ armed = {}
  /\ kernel = [s \in Sockets |-> <<>>]
  /\ rbuf = [s \in Sockets |-> <<>>]
  /\ sent = [s \in Sockets |-> <<>>]
  /\ got = [s \in Sockets |-> <<>>]
  /\ packets = 0
  /\ breaks = 0
  /\ wide = [s \in Sockets |-> FALSE]
  /\ left = [s \in Sockets |-> FALSE]
  /\ late = FALSE
  /\ spoilt = FALSE

-----------------------------------------------------------------------------
(* gamesrv sends *)

\* The sockets whose block_head and block_tail mean something.
Owners == {s \in Sockets : conn[s] # "closed" \/ ~left[s]}

\* The blocks s must not write to.
Foreign(s) == Pooled(sb) \cup UNION {ToSet(ChainOf(sb, t)) : t \in Owners \ {s}}

\* alloc, write, flush and aeCreateFileEvent, which fails on a closed
\* descriptor.  Without a block the packet is dropped.
Enqueue(s, n) ==
  LET packet == Packet(n, packets % Base)
  IN  /\ packets < MaxPackets
      /\ packets' = packets + 1
      /\ IF CanAlloc(sb, s, n)
         THEN /\ sb' = Stored(sb, s, packet)
              /\ armed' = IF conn[s] = "closed" THEN armed ELSE armed \cup {s}
              /\ IF conn[s] = "up"
                 THEN /\ sent' = [sent EXCEPT ![s] = Append(@, Body(packet))]
                      /\ wide' = [wide EXCEPT ![s] = @ \/ n >= Wrap]
                 ELSE UNCHANGED <<sent, wide>>
              /\ late' = (late \/ conn[s] = "closed")
              /\ spoilt' = (spoilt \/ sb.tail[s] \in Foreign(s))
         ELSE UNCHANGED <<sb, armed, sent, wide, late, spoilt>>
      /\ UNCHANGED <<conn, wire, breaks, left>>

\* Gatesrv.send_proto and send: sockfd_ is -1 only before the first connection.
\* The number of a socket that is closed may be another's now, as Dbclient's that
\* was opened since: the packet goes into that one's buffer.
SendToGate(s, n) ==
  /\ s \in Careless
  /\ \/ Enqueue(s, n)
     \/ /\ conn[s] = "closed"
        /\ \E t \in Sockets \ {s} : conn[t] # "closed" /\ Enqueue(t, n)

\* Dbclient.post asks is_connect_ first.
Post(s, n) == s \notin Careless /\ conn[s] # "closed" /\ Enqueue(s, n)

-----------------------------------------------------------------------------
(* Events of gamesrv *)

\* real_close: the descriptor is closed and its blocks are free.
RealClose(s) ==
  /\ sb' = Freed(sb, s)
  /\ left' = [left EXCEPT ![s] = sb.head[s] # Nil]
  /\ conn' = [conn EXCEPT ![s] = "closed"]
  /\ armed' = armed \ {s}

\* n bytes passed to the kernel, as long as the first block has any.
Sending(s, n) ==
  LET after[k \in 0..n] ==
        IF k = 0 THEN [st |-> sb, out |-> <<>>]
        ELSE LET acc == after[k - 1]
                 b   == acc.st.head[s]
             IN  IF Datalen(acc.st, s) = 0 THEN acc
                 ELSE [st  |-> Skipped(acc.st, s, 1),
                       out |-> Append(acc.out, acc.st.buf[b][acc.st.rptr[b] + 1])]
  IN  after[n]

\* Mutant: the event is also deleted when the kernel takes no more.
DrainedAlways(st, s) == TRUE

Drained(st, s) == Datalen(st, s) = 0

\* _ev_writable: sends until the kernel takes no more or nothing is left; then
\* the event is deleted.  On a broken connection send fails.
Writable(s) ==
  /\ s \in armed
  /\ \/ /\ conn[s] = "up"
        /\ Len(kernel[s]) < KernelSize
        /\ \E n \in 0..(KernelSize - Len(kernel[s])) :
             LET done == Sending(s, n)
             IN  /\ Len(done.out) = n
                 /\ n = 0 => Datalen(sb, s) = 0
                 /\ sb' = done.st
                 /\ kernel' = [kernel EXCEPT ![s] = @ \o done.out]
                 /\ armed' = IF Drained(done.st, s) THEN armed \ {s} ELSE armed
        /\ UNCHANGED <<conn, left>>
     \/ /\ conn[s] = "broken" /\ Datalen(sb, s) > 0
        /\ RealClose(s)
        /\ UNCHANGED kernel
     \/ /\ conn[s] = "broken" /\ Datalen(sb, s) = 0
        /\ armed' = armed \ {s}
        /\ UNCHANGED <<sb, conn, kernel, left>>
  /\ UNCHANGED <<rbuf, sent, got, packets, breaks, wide, late, spoilt>>

\* _ev_readable: recv returns 0 or an error.
Lost(s) ==
  /\ conn[s] = "broken"
  /\ RealClose(s)
  /\ UNCHANGED <<wire, sent, packets, breaks, wide, late, spoilt>>

\* Mutant: the receive buffer keeps what was received before.
ConnectKeepsBuffer(s) ==
  /\ conn[s] = "closed"
  /\ conn' = [conn EXCEPT ![s] = "up"]
  /\ sb' = Created(sb, s)
  /\ sent' = [sent EXCEPT ![s] = <<>>]
  /\ got' = [got EXCEPT ![s] = <<>>]
  /\ wide' = [wide EXCEPT ![s] = FALSE]
  /\ left' = [left EXCEPT ![s] = FALSE]
  /\ UNCHANGED <<armed, kernel, rbuf, packets, breaks, late, spoilt>>

\* _ev_accept, or _real_connect once a second: the buffers of both ends are new.
Connect(s) ==
  /\ conn[s] = "closed"
  /\ conn' = [conn EXCEPT ![s] = "up"]
  /\ sb' = Created(sb, s)
  /\ rbuf' = [rbuf EXCEPT ![s] = <<>>]
  /\ sent' = [sent EXCEPT ![s] = <<>>]
  /\ got' = [got EXCEPT ![s] = <<>>]
  /\ wide' = [wide EXCEPT ![s] = FALSE]
  /\ left' = [left EXCEPT ![s] = FALSE]
  /\ UNCHANGED <<armed, kernel, packets, breaks, late, spoilt>>

-----------------------------------------------------------------------------
(* The other end *)

Torn(s) ==
  /\ conn' = [conn EXCEPT ![s] = "broken"]
  /\ kernel' = [kernel EXCEPT ![s] = <<>>]

\* _ev_readable: some of what is there is received and decoded.  Into a full
\* buffer recv receives nothing, which looks like the end of the connection.
Readable(s) ==
  /\ conn[s] = "up" /\ kernel[s] # <<>>
  /\ LET bufremain == RecvSize[s] - Len(rbuf[s])
     IN  IF bufremain = 0
         THEN Torn(s) /\ UNCHANGED <<rbuf, got>>
         ELSE \E n \in 1..Min({bufremain, Len(kernel[s])}) :
                LET decoded == Decoded(rbuf[s] \o SubSeq(kernel[s], 1, n))
                IN  /\ kernel' = [kernel EXCEPT ![s] = SubSeq(@, n + 1, Len(@))]
                    /\ rbuf' = [rbuf EXCEPT ![s] = decoded.left]
                    /\ got' = [got EXCEPT ![s] = @ \o decoded.out]
                    /\ UNCHANGED conn
  /\ UNCHANGED <<sb, armed, sent, packets, breaks, ghosts>>

\* The other server ends or the network fails.
Break(s) ==
  /\ conn[s] = "up" /\ breaks < MaxBreaks
  /\ breaks' = breaks + 1
  /\ Torn(s)
  /\ UNCHANGED <<sb, armed, rbuf, sent, got, packets, ghosts>>

\* What follows after a foreign block has been written to is not modelled.
Next ==
  /\ ~spoilt
  /\ \E s \in Sockets :
       \/ \E n \in Lengths : SendToGate(s, n) \/ Post(s, n)
       \/ Writable(s)
       \/ Lost(s)
       \/ Connect(s)
       \/ Readable(s)
       \/ Break(s)

Spec == Init /\ [][Next]_vars

-----------------------------------------------------------------------------
(* Properties *)

\* A block is in one place: in the chain of one socket, in the pool of its
\* size, or not yet returned by malloc; a chain ends at block_tail; and nothing
\* is written behind buf_size or read behind buf_len (sendbuf.cc 38-71, 96-115,
\* 135-190).  Closing, reopening and sending to closed sockets keep it so,
\* unless a foreign block was written to.
OneOwner ==
  ~spoilt =>
    /\ \A s \in Owners :
         LET chain == ChainOf(sb, s)
         IN  /\ IsInjective(chain)
             /\ sb.tail[s] = IF chain = <<>> THEN Nil ELSE Last(chain)
             /\ ToSet(chain) \cap (Pooled(sb) \cup sb.unborn) = {}
             /\ \A t \in Owners \ {s} : ToSet(chain) \cap ToSet(ChainOf(sb, t)) = {}
    /\ Pooled(sb) \cap sb.unborn = {}
    /\ \A b \in Blocks : sb.rptr[b] <= Len(sb.buf[b]) /\ Len(sb.buf[b]) <= BufSize[b]

\* No block is lost, unless a closed socket was sent to: create then forgets
\* the blocks it had (sendbuf.cc 53-58).
NoLeak ==
  ~spoilt /\ ~late =>
    Blocks = (UNION {ToSet(ChainOf(sb, s)) : s \in Owners}) \cup Pooled(sb) \cup sb.unborn

\* A send to a closed socket writes into a foreign block only if the socket
\* was closed with something left to send: one that was drained gets a block of
\* its own (sendbuf.cc 60-71 with 96-115).
SpoiltByLeftovers ==
  spoilt => \E s \in Careless : conn[s] = "closed" /\ left[s]

\* What waits to be sent has its event: the writable event is deleted only
\* when nothing is left, in any block (_ev_writable).
PendingIsArmed ==
  ~spoilt => \A s \in Sockets :
    conn[s] # "closed" /\ Unsent(sb, s) # <<>> => s \in armed /\ Datalen(sb, s) > 0

\* End to end the links are queues of packets, through the blocks, partial
\* sends, partial receives and connections that break; but not for a packet
\* whose length does not fit sixteen bits.
Queues == INSTANCE PacketQueue
  WITH up     <- [s \in Sockets |-> conn[s] = "up"],
       Bodies <- {Body(Packet(n, d)) : n \in Lengths, d \in Bytes},
       void   <- [s \in Sockets |-> wide[s] \/ spoilt]

ImplementsPacketQueue == Queues!Spec

\* When the events of a connection have run dry, all that was sent has been
\* dispatched: nothing waits for an event that does not come.  A packet too
\* large for the receive buffer ends the connection and never silently stops it
\* (gatesrv.cc 219-258).
QuietIsDelivered ==
  \A s \in Sockets :
    conn[s] = "up" /\ s \notin armed /\ kernel[s] = <<>> =>
      got[s] = sent[s] \/ wide[s] \/ spoilt

=============================================================================
