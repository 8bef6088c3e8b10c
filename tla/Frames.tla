------------------------------- MODULE Frames -------------------------------
(***************************************************************************)
(* How gatesrv takes the frames of one websocket connection from the       *)
(* stream of bytes (gatesrv/websocket/websocket.cc: _ev_readable,          *)
(* decode_one_frame, combine_all_frame): each event receives some bytes    *)
(* into a buffer of fixed size and decodes one frame at most.              *)
(*                                                                         *)
(* What is abstracted: of a frame there are its length, header included,   *)
(* and whether it is the last of its message; of the buffer only how many  *)
(* bytes are in it, as they are always the next of the stream.  The        *)
(* handshake is a frame.  The client may close its end, but what it sent   *)
(* before still comes.                                                     *)
(***************************************************************************)
EXTENDS Naturals, Sequences, FiniteSets, FiniteSetsExt

CONSTANTS
  Lengths,   \* how long a frame may be
  BufSize,   \* Recvbuf::create(sockfd, 1024)
  MaxFrames  \* bound: the frames the client sends

ASSUME FramesAssumption ==
  /\ Lengths \subseteq Nat \ {0}
  /\ BufSize \in Nat \ {0} /\ MaxFrames \in Nat

VARIABLES
  sent,     \* the frames the client has sent
  taken,    \* how many have been dispatched
  kernel,   \* how many bytes are in the kernel
  datalen,  \* how many bytes are in the receive buffer
  left,     \* has the client closed its end
  closed,   \* has gatesrv closed the socket
  alone     \* ghost: the frames that were sent when no other was waiting

vars == <<sent, taken, kernel, datalen, left, closed, alone>>

Frame == [fin : BOOLEAN, len : Lengths]

Init ==
  /\ sent = <<>>
  /\ taken = 0
  /\ kernel = 0
  /\ datalen = 0
  /\ left = FALSE
  /\ closed = FALSE
  /\ alone = {}

-----------------------------------------------------------------------------

Send(frame) ==
  /\ ~left /\ ~closed /\ Len(sent) < MaxFrames
  /\ sent' = Append(sent, frame)
  /\ kernel' = kernel + frame.len
  /\ alone' = IF taken = Len(sent) THEN alone \cup {Len(sent) + 1} ELSE alone
  /\ UNCHANGED <<taken, datalen, left, closed>>

Leave ==
  /\ ~left
  /\ left' = TRUE
  /\ UNCHANGED <<sent, taken, kernel, datalen, closed, alone>>

\* Mutant: the buffer ends one byte earlier.
bufremain_Short == BufSize - 1 - datalen

bufremain == BufSize - datalen

\* Mutant: a frame must leave the buffer empty.
decode_one_frame_Exact(frame, n) == n = frame.len /\ frame.fin

\* Mutant: a frame needs one byte more than it has.
decode_one_frame_Late(frame, n) == n > frame.len /\ frame.fin

\* Is the first frame of the n bytes complete, and the last of its message?
\* combine_all_frame, which comes next, thus never has two frames to combine.
decode_one_frame(frame, n) == n >= frame.len /\ frame.fin

\* real_close: recv returns 0 at the end of the stream, and also when there is
\* no room for a single byte.
ReadEnd ==
  /\ ~closed
  /\ \/ kernel = 0 /\ left
     \/ kernel > 0 /\ bufremain = 0
  /\ closed' = TRUE
  /\ UNCHANGED <<sent, taken, kernel, datalen, left, alone>>

\* _ev_readable: n bytes come, one frame is decoded and cut from the buffer.
ReadFrame ==
  /\ ~closed
  /\ \E n \in 1..Min({kernel, bufremain}) :
       LET first == sent[taken + 1]
           whole == decode_one_frame(first, datalen + n)
       IN  /\ kernel' = kernel - n
           /\ taken' = IF whole THEN taken + 1 ELSE taken
           /\ datalen' = datalen + n - (IF whole THEN first.len ELSE 0)
  /\ UNCHANGED <<sent, left, closed, alone>>

Readable == ReadEnd \/ ReadFrame

Next ==
  \/ \E frame \in Frame : Send(frame)
  \/ Leave
  \/ Readable

\* The loop serves the socket as long as it has something to read.
Spec == Init /\ [][Next]_vars /\ WF_vars(Readable)

-----------------------------------------------------------------------------
(* Properties *)

\* Where the i-th frame ends in the stream.
End(frames, i) ==
  LET upTo[k \in 0..Len(frames)] == IF k = 0 THEN 0 ELSE upTo[k - 1] + frames[k].len
  IN  upTo[i]

\* The frames that are complete in the buffer and not dispatched.
Waiting == {i \in DOMAIN sent : i > taken /\ End(sent, i) - End(sent, taken) <= datalen}

Plain(i) == sent[i].fin /\ sent[i].len <= BufSize

\* A frame that is sent when no other is waiting is dispatched, in whatever
\* pieces it comes, whatever is sent behind it, and even if the client leaves at
\* once (websocket.cc 394-425): so a client that waits for each answer is told
\* of, its close frame included.  Fragments and frames larger than the buffer
\* are not.
PatientServed ==
  \A i \in 1..MaxFrames :
    (i \in alone /\ i <= Len(sent) /\ Plain(i)) ~> (taken >= i)

\* As one frame is decoded an event, frames that come together wait for events
\* that come later, and are lost if none comes; but each frame that waits is one
\* that was sent behind another, so a client that slows down never falls behind
\* further (websocket.cc 417-423).
LagBounded ==
  (\A i \in DOMAIN sent : Plain(i)) =>
    Cardinality(Waiting) <= Len(sent) - Cardinality(alone)

\* gatesrv closes a connection the client has not closed only behind a frame
\* that the buffer can not hold or a fragment: frames that wait never fill it
\* up (websocket.cc 400-408).
ClosedForCause == closed /\ ~left => ~Plain(taken + 1)
=============================================================================
