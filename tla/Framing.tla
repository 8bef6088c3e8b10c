------------------------------ MODULE Framing -------------------------------
(***************************************************************************)
(* The packets of the links between the three servers: a length of two     *)
(* bytes that counts itself, then the body.  The senders compute the       *)
(* length as an int and store it in sixteen bits (gatesrv.cc send,         *)
(* dbclient.cc post); the receivers cut the stream by it (_decode_packet   *)
(* and the loop around it).                                                *)
(*                                                                         *)
(* A byte is a digit below Base instead of 256, so that lengths wrap at    *)
(* Base * Base instead of 65536.  What a body says is abstracted to one    *)
(* digit repeated.                                                         *)
(***************************************************************************)
EXTENDS Naturals, Sequences

CONSTANT Base  \* how many values a byte has

ASSUME BaseAssumption == Base \in Nat /\ Base >= 2

Bytes == 0..(Base - 1)
Wrap == Base * Base  \* 65536

\* A packet of n bytes, as the senders write it.
Packet(n, digit) ==
  LET plen == n % Wrap
  IN  <<plen % Base, plen \div Base>> \o [i \in 1..(n - 2) |-> digit]

Body(packet) == SubSeq(packet, 3, Len(packet))

\* A body of length -2 or -1: dispatch_frame reads what is not there.
Garbage == <<Base>>

\* Mutant: a packet waits for the byte behind it.
IncompleteUntilNext(rest, plen) == rest <= plen

\* _decode_packet: is part of a packet of plen bytes still to come.
Incomplete(rest, plen) == rest < plen

\* What a receive buffer holds after the loop over _decode_packet: the bodies
\* passed to dispatch_frame, and what stays in the buffer (buf2line).
Decoded(data) ==
  LET At[p \in 1..(Len(data) + 1)] ==
        LET rest == Len(data) - p + 1
            plen == data[p] + Base * data[p + 1]
            next == At[p + plen]
            body == IF plen < 2 THEN Garbage ELSE SubSeq(data, p + 2, p + plen - 1)
        IN  IF rest < 2 THEN [out |-> <<>>, left |-> SubSeq(data, p, Len(data))]
            ELSE IF Incomplete(rest, plen) THEN [out |-> <<>>, left |-> SubSeq(data, p, Len(data))]
            ELSE IF plen = 0 THEN [out |-> <<body>>, left |-> SubSeq(data, p, Len(data))]
            ELSE [out |-> <<body>> \o next.out, left |-> next.left]
  IN  At[1]
=============================================================================
