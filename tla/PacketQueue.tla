---------------------------- MODULE PacketQueue -----------------------------
(***************************************************************************)
(* What a link between two servers promises: while a connection lasts, the *)
(* bodies that are dispatched at one end are those that were sent at the   *)
(* other, in their order, each once.  A connection that breaks takes what  *)
(* was on the way with it.  A socket may be void: its promise is off until *)
(* it connects again.                                                      *)
(***************************************************************************)
EXTENDS Sequences, SequencesExt

CONSTANTS Sockets, Bodies

VARIABLES
  up,    \* is the connection of the socket alive
  sent,  \* the bodies sent on the connection
  got,   \* the bodies dispatched at its other end
  void   \* does the socket promise nothing

vars == <<up, sent, got, void>>

Init ==
  /\ up = [s \in Sockets |-> TRUE]
  /\ sent = [s \in Sockets |-> <<>>]
  /\ got = [s \in Sockets |-> <<>>]
  /\ void = [s \in Sockets |-> FALSE]

Keep(s) == up'[s] = up[s] /\ sent'[s] = sent[s] /\ got'[s] = got[s]

Send(s) ==
  /\ up[s] /\ up'[s]
  /\ \E body \in Bodies : sent'[s] = Append(sent[s], body)
  /\ got'[s] = got[s]

\* One event may dispatch several packets.
Deliver(s) ==
  /\ up[s] /\ up'[s]
  /\ IsPrefix(got[s], got'[s]) /\ IsPrefix(got'[s], sent[s])
  /\ sent'[s] = sent[s]

Break(s) == up[s] /\ ~up'[s] /\ sent'[s] = sent[s] /\ got'[s] = got[s]

Connect(s) == ~up[s] /\ up'[s] /\ sent'[s] = <<>> /\ got'[s] = <<>>

Step(s) ==
  \/ void'[s]
  \/ ~void[s] /\ (Keep(s) \/ Send(s) \/ Deliver(s) \/ Break(s))
  \/ Connect(s)

Next ==
  /\ DOMAIN void' = Sockets
  /\ \A s \in Sockets : Step(s)

Spec == Init /\ [][Next]_vars
=============================================================================
