--------------------------------- MODULE Ae ---------------------------------
(***************************************************************************)
(* The event loop of a process (srvlib/net/ae.cc over ae_epoll): which     *)
(* descriptors it watches, which events a poll has fired, and whether the  *)
(* handler of a fired event still runs when its turn comes.                *)
(*                                                                         *)
(* A poll fires a batch of events; the handlers of the batch run one after *)
(* the other, each in one step, the readable one of a descriptor before    *)
(* its writable one; then the timer may run.  A handler may close a        *)
(* descriptor and the next one may open it again.                          *)
(***************************************************************************)
EXTENDS Naturals

CONSTANTS
  MaxFd,     \* bound: the largest descriptor
  Listener,  \* the owner of the listening socket
  Nil        \* a descriptor that is not open

ASSUME MaxFdAssumption == MaxFd \in Nat \ {0}

VARIABLES
  owner,   \* the kernel's table: whose connection each descriptor is
  mask,    \* eventLoop->events[fd].mask
  polled,  \* what epoll watches
  fired    \* eventLoop->fired, from the event whose turn it is

R == "AE_READABLE"
W == "AE_WRITABLE"

Fds == 0..MaxFd
listenfd == 0

Open(fd) == owner[fd] # Nil
Free == {fd \in Fds : ~Open(fd)}

\* The descriptor that accept and socket return: the lowest that is free.
Lowest(fd) == fd \in Free /\ \A other \in Free : fd <= other

-----------------------------------------------------------------------------
(* aeCreateFileEvent and aeDeleteFileEvent *)

\* epoll_ctl: an open descriptor is added when its mask was empty; one that is
\* watched is changed.
Accepted(fd) == IF mask[fd] = {} THEN Open(fd) ELSE polled[fd] # {}

\* aeCreateFileEvent(fd, bit) for every fd of S.
Create(S, bit) ==
  LET ok == {fd \in S : Accepted(fd)}
  IN  /\ mask' = [fd \in Fds |-> mask[fd] \cup IF fd \in ok THEN {bit} ELSE {}]
      /\ polled' = [fd \in Fds |-> IF fd \in ok THEN mask'[fd] ELSE polled[fd]]

\* aeDeleteFileEvent(fd, bit)
Delete(fd, bit) ==
  /\ mask' = [mask EXCEPT ![fd] = @ \ {bit}]
  /\ polled' = [polled EXCEPT ![fd] = IF @ = {} THEN {} ELSE mask'[fd]]

\* A new descriptor and its readable event.  epoll_ctl fails for a mask that is
\* left over from a descriptor epoll no longer watches.
Opened(fd, who) ==
  LET ok == mask[fd] = {} \/ polled[fd] # {}
  IN  /\ owner' = [owner EXCEPT ![fd] = who]
      /\ mask' = [mask EXCEPT ![fd] = IF ok THEN @ \cup {R} ELSE @]
      /\ polled' = [polled EXCEPT ![fd] = IF ok THEN mask'[fd] ELSE @]

\* Mutant: a descriptor is closed and its events stay.
CloseUndeleted(fd) ==
  /\ owner' = [owner EXCEPT ![fd] = Nil]
  /\ polled' = [polled EXCEPT ![fd] = {}]
  /\ UNCHANGED mask

\* What real_close does to the loop: aeDeleteFileEvent of both events, close.
Close(fd) ==
  /\ owner' = [owner EXCEPT ![fd] = Nil]
  /\ mask' = [mask EXCEPT ![fd] = {}]
  /\ polled' = [polled EXCEPT ![fd] = {}]

-----------------------------------------------------------------------------
(* aeProcessEvents *)

\* aeApiPoll: ready[fd] is what the kernel has to say of fd.
Poll(ready) ==
  LET Found(fd) == ready[fd] \cap polled[fd]
  IN  /\ fired = {}
      /\ fired' = {[fd |-> fd, who |-> owner[fd], mask |-> Found(fd), half |-> FALSE] :
                     fd \in {f \in Fds : Found(f) # {}}}
      /\ fired' # {}
      /\ UNCHANGED <<owner, mask, polled>>

\* Nobody comes between the two handlers of one event.
Turn(e) == e \in fired /\ (e.half \/ \A f \in fired : ~f.half)

\* Mutant: the mask that was fired counts, not what is left of it.
ValidAsFired(e, bit) == bit \in e.mask

\* fe->mask & mask & bit: an event that was deleted meanwhile does not count.
Valid(e, bit) == bit \in e.mask \cap mask[e.fd]

\* rfileProc is called; the writable event has its turn next.
ReadTurn(e) ==
  /\ Turn(e) /\ ~e.half /\ Valid(e, R)
  /\ fired' = (fired \ {e}) \cup
              IF W \in e.mask THEN {[e EXCEPT !.half = TRUE]} ELSE {}

\* wfileProc is called.
WriteTurn(e) ==
  /\ Turn(e) /\ (e.half \/ ~Valid(e, R)) /\ Valid(e, W)
  /\ fired' = fired \ {e}

\* Neither is.
Passed(e) ==
  /\ Turn(e) /\ (e.half \/ ~Valid(e, R)) /\ ~Valid(e, W)
  /\ fired' = fired \ {e}
  /\ UNCHANGED <<owner, mask, polled>>

\* processTimeEvents comes after the batch.
TimerTurn == fired = {} /\ UNCHANGED fired
=============================================================================
