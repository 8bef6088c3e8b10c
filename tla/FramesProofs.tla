---------------------------- MODULE FramesProofs ----------------------------
(***************************************************************************)
(* Proofs about Frames, for frames of any lengths, a buffer of any size    *)
(* and any number of frames.                                               *)
(***************************************************************************)
EXTENDS Frames, Recursion, FiniteSetTheorems, SequenceTheorems

USE FramesAssumption

TypeOK ==
  /\ sent \in Seq(Frame) /\ taken \in 0..Len(sent)
  /\ kernel \in Nat /\ datalen \in 0..BufSize
  /\ left \in BOOLEAN /\ closed \in BOOLEAN
  /\ alone \subseteq 1..Len(sent)

\* No byte is lost between the kernel and the buffer.
Accounted == End(sent, taken) + datalen + kernel = End(sent, Len(sent))

\* Only a frame that can not be dispatched fills the buffer.
FullForCause == datalen = BufSize => ~Plain(taken + 1)

\* A frame that was sent alone is the next one until it is dispatched, and is
\* dispatched by the event that completes it.
AloneIsNext ==
  \A i \in alone :
    /\ i <= taken + 1
    /\ i = taken + 1 /\ Plain(i) => datalen < sent[i].len

IInv == TypeOK /\ Accounted /\ FullForCause /\ AloneIsNext /\ ClosedForCause

-----------------------------------------------------------------------------
(* The stream *)

\* The equation by which End is defined has a solution.
LEMMA EndDefined ==
  ASSUME NEW frames \in Seq(Frame)
  PROVE  /\ End(frames, 0) = 0
         /\ \A k \in 0..Len(frames) : End(frames, k) \in Nat
         /\ \A k \in 1..Len(frames) :
              End(frames, k) = End(frames, k - 1) + frames[k].len
  <1> DEFINE N == Len(frames)
             Body(f) == [k \in 0..N |-> IF k = 0 THEN 0 ELSE f[k - 1] + frames[k].len]
             upTo == CHOOSE f : f = Body(f)
             step == [p \in (1..N) \X Nat |-> p[2] + frames[p[1]].len]
  <1>1. N \in Nat /\ \A k \in 1..N : frames[k].len \in Nat
    <2>1. ASSUME NEW k \in 1..N PROVE frames[k] \in Frame
      BY ElementOfSeq
    <2> QED
      BY <2>1, LenProperties DEF Frame
  <1>2. IsStep(step, N, Nat)
    BY <1>1 DEF IsStep
  <1>3. \A k \in 1..N, n \in Nat : step[<<k, n>>] = n + frames[k].len
    OBVIOUS
  <1>4. PICK g : Follows(g, 0, step, N, Nat)
    <2> HIDE DEF step, N
    <2> QED
      BY <1>1, <1>2, RecursionExists
  <1>5. g = Body(g)
    <2>1. ASSUME NEW k \in 1..N PROVE g[k] = g[k - 1] + frames[k].len
      <3>1. k - 1 \in 0..N
        BY <1>1
      <3> QED
        BY <3>1, <1>3, <1>4 DEF Follows
    <2> QED
      BY <1>1, <1>4, <2>1 DEF Follows
  <1>6. upTo = Body(upTo)
    <2> HIDE DEF Body
    <2> QED
      BY <1>5
  <1>7. \A k \in 0..N : upTo[k] = g[k]
    <2> DEFINE T == {k \in 0..N : upTo[k] = g[k]}
    <2>1. ASSUME NEW f, f = Body(f)
          PROVE  f[0] = 0 /\ \A k \in 0..N : k < N => f[k + 1] = f[k] + frames[k + 1].len
      <3>1. 0 \in 0..N /\ \A k \in 0..N : k < N => k + 1 \in 0..N /\ k + 1 # 0 /\ (k + 1) - 1 = k
        BY <1>1
      <3> HIDE DEF N
      <3> QED
        BY <3>1, <2>1
    <2> HIDE DEF Body, upTo
    <2>2. 0 \in T
      BY <1>1, <1>5, <1>6, <2>1
    <2>3. ASSUME NEW k \in 0..N, k \in T, k < N PROVE k + 1 \in T
      <3>1. upTo[k + 1] = upTo[k] + frames[k + 1].len /\ g[k + 1] = g[k] + frames[k + 1].len
        BY <1>5, <1>6, <2>1, <2>3
      <3> QED
        BY <1>1, <2>3, <3>1
    <2> HIDE DEF T
    <2>4. 0..N \subseteq T
      BY <1>1, <2>2, <2>3, BoundedInduction
    <2> QED
      BY <2>4 DEF T
  <1>8. \A k \in 0..N : End(frames, k) = g[k]
    BY <1>7 DEF End
  <1>9. 0 \in 0..N /\ \A k \in 1..N : k \in 0..N /\ k - 1 \in 0..N
    BY <1>1
  <1>10. \A k \in 1..N : g[k] = g[k - 1] + frames[k].len
    BY <1>3, <1>4, <1>9 DEF Follows
  <1>11. g[0] = 0 /\ \A k \in 0..N : g[k] \in Nat
    BY <1>4 DEF Follows
  <1> HIDE DEF N
  <1>12. /\ End(frames, 0) = 0
         /\ \A k \in 0..N : End(frames, k) \in Nat
         /\ \A k \in 1..N : End(frames, k) = End(frames, k - 1) + frames[k].len
    BY <1>8, <1>9, <1>10, <1>11
  <1> QED
    BY <1>12 DEF N

\* A frame that comes later does not move the ends of those before it.
LEMMA EndOfAppend ==
  ASSUME NEW frames \in Seq(Frame), NEW frame \in Frame
  PROVE  \A k \in 0..Len(frames) : End(Append(frames, frame), k) = End(frames, k)
  <1> DEFINE N == Len(frames)
             more == Append(frames, frame)
             T == {k \in 0..N : End(more, k) = End(frames, k)}
  <1>1. N \in Nat /\ more \in Seq(Frame) /\ Len(more) = N + 1
    BY AppendProperties
  <1>2. \A k \in 1..N : more[k] = frames[k]
    BY AppendProperties
  <1>3. 0 \in T
    <2>1. End(more, 0) = 0 /\ End(frames, 0) = 0
      BY <1>1, EndDefined
    <2> QED
      BY <1>1, <2>1
  <1>4. ASSUME NEW k \in 0..N, k \in T, k < N PROVE k + 1 \in T
    <2>1. k + 1 \in 1..N /\ k + 1 \in 1..(N + 1) /\ (k + 1) - 1 = k
      BY <1>1, <1>4
    <2>2. End(frames, k + 1) = End(frames, k) + frames[k + 1].len
      BY <2>1, EndDefined
    <2>3. End(more, k + 1) = End(more, k) + more[k + 1].len
      BY <1>1, <2>1, EndDefined
    <2> QED
      BY <1>2, <1>4, <2>1, <2>2, <2>3
  <1> HIDE DEF T
  <1>5. 0..N \subseteq T
    BY <1>1, <1>3, <1>4, BoundedInduction
  <1> QED
    BY <1>5 DEF T

-----------------------------------------------------------------------------
(* The invariant *)

\* What is in the buffer or in the kernel belongs to a frame.
LEMMA FrameIsSent ==
  ASSUME TypeOK, Accounted, datalen + kernel > 0
  PROVE  /\ taken < Len(sent)
         /\ taken + 1 \in 1..Len(sent)
         /\ sent[taken + 1] \in Frame
         /\ End(sent, taken + 1) = End(sent, taken) + sent[taken + 1].len
  <1>1. taken \in 0..Len(sent) /\ Len(sent) \in Nat /\ datalen \in Nat /\ kernel \in Nat
    BY LenProperties DEF TypeOK
  <1>2. End(sent, taken) \in Nat
    BY <1>1, EndDefined DEF TypeOK
  <1>3. taken # Len(sent)
    BY <1>1, <1>2 DEF Accounted
  <1>4. taken < Len(sent) /\ taken + 1 \in 1..Len(sent) /\ (taken + 1) - 1 = taken
    BY <1>1, <1>3
  <1> QED
    BY <1>4, EndDefined, ElementOfSeq DEF TypeOK

LEMMA MinOfTwo ==
  ASSUME NEW a \in Nat, NEW b \in Nat
  PROVE  Min({a, b}) \in Nat /\ Min({a, b}) <= a /\ Min({a, b}) <= b
  <1> DEFINE m == IF a <= b THEN a ELSE b
  <1>1. m \in {a, b} /\ \A y \in {a, b} : m <= y
    OBVIOUS
  <1> HIDE DEF m
  <1>2. \E x \in {a, b} : \A y \in {a, b} : x <= y
    BY <1>1
  <1>3. Min({a, b}) \in {a, b} /\ \A y \in {a, b} : Min({a, b}) <= y
    BY <1>2 DEF Min
  <1> QED
    BY <1>3

LEMMA FrameHasLength ==
  ASSUME NEW frame \in Frame
  PROVE  frame.len \in Nat /\ frame.len > 0
  <1>1. frame.len \in Lengths
    BY DEF Frame
  <1>2. frame.len \in Nat \ {0}
    BY <1>1
  <1> QED
    BY <1>2

LEMMA SendKeepsIInv ==
  ASSUME IInv, NEW frame \in Frame, Send(frame)
  PROVE  IInv'
  <1> USE DEF IInv, Send
  <1>1. Len(sent) \in Nat /\ sent \in Seq(Frame) /\ taken \in 0..Len(sent)
    BY LenProperties DEF TypeOK
  <1>2. /\ sent' \in Seq(Frame) /\ Len(sent') = Len(sent) + 1
        /\ \A i \in 1..Len(sent) : sent'[i] = sent[i]
        /\ sent'[Len(sent) + 1] = frame
    BY <1>1, AppendProperties
  <1>3. TypeOK'
    <2>1. alone' \subseteq alone \cup {Len(sent) + 1} /\ alone \subseteq 1..Len(sent)
      BY DEF TypeOK
    <2>2. ASSUME NEW i \in alone' PROVE i \in 1..(Len(sent) + 1)
      <3>1. i \in 1..Len(sent) \/ i = Len(sent) + 1
        BY <2>1
      <3> QED
        BY <1>1, <3>1
    <2> QED
      <3>1. kernel' \in Nat
        BY FrameHasLength DEF TypeOK
      <3>2. taken \in 0..Len(sent') /\ alone' \subseteq 1..Len(sent')
        BY <1>1, <1>2, <2>2
      <3> QED
        BY <1>2, <3>1, <3>2 DEF TypeOK
  <1>4. Accounted'
    <2>1. End(sent', taken) = End(sent, taken) /\ End(sent', Len(sent)) = End(sent, Len(sent))
      BY <1>1, EndOfAppend
    <2>2. End(sent', Len(sent')) = End(sent', Len(sent)) + frame.len
      <3>1. Len(sent') \in 1..Len(sent') /\ Len(sent') - 1 = Len(sent)
        BY <1>1, <1>2
      <3> QED
        BY <1>2, <3>1, EndDefined, ZenonT(60)
    <2>3. /\ End(sent, taken) \in Nat /\ End(sent, Len(sent)) \in Nat
          /\ kernel \in Nat /\ datalen \in Nat /\ frame.len \in Nat
      BY <1>1, EndDefined, FrameHasLength DEF TypeOK
    <2> QED
      BY <2>1, <2>2, <2>3 DEF Accounted
  <1>5. taken + 1 <= Len(sent) => (Plain(taken + 1)' <=> Plain(taken + 1))
    BY <1>1, <1>2 DEF Plain
  <1>6. datalen > 0 => taken + 1 <= Len(sent)
    BY <1>1, FrameIsSent DEF TypeOK
  <1>7. FullForCause'
    BY <1>5, <1>6 DEF FullForCause, TypeOK
  <1>8. AloneIsNext'
    <2> SUFFICES ASSUME NEW i \in alone'
                 PROVE  /\ i <= taken + 1
                        /\ i = taken + 1 /\ Plain(i)' => datalen < sent'[i].len
      BY DEF AloneIsNext
    <2>1. CASE i \in alone
      <3>1. i \in 1..Len(sent)
        BY <2>1 DEF TypeOK
      <3>2. sent'[i] = sent[i]
        BY <3>1, <1>2
      <3> QED
        BY <2>1, <3>2 DEF AloneIsNext, Plain
    <2>2. CASE i \notin alone
      <3>1. i = Len(sent) + 1 /\ taken = Len(sent)
        BY <2>2
      <3>2. datalen = 0
        BY <1>1, <1>6, <3>1 DEF TypeOK
      <3> QED
        BY <1>1, <1>2, <3>1, <3>2, FrameHasLength
    <2> QED
      BY <2>1, <2>2
  <1>9. ClosedForCause'
    BY DEF ClosedForCause
  <1> QED
    BY <1>3, <1>4, <1>7, <1>8, <1>9

LEMMA LeaveKeepsIInv ==
  ASSUME IInv, Leave
  PROVE  IInv'
  BY DEF IInv, Leave, TypeOK, Accounted, FullForCause, AloneIsNext, ClosedForCause, Plain

LEMMA ReadEndKeepsIInv ==
  ASSUME IInv, ReadEnd
  PROVE  IInv'
  <1> USE DEF IInv, ReadEnd
  <1>1. TypeOK' /\ Accounted' /\ FullForCause' /\ AloneIsNext'
    BY DEF TypeOK, Accounted, FullForCause, AloneIsNext, Plain
  <1>2. ClosedForCause'
    <2>1. CASE left
      BY <2>1 DEF ClosedForCause
    <2>2. CASE ~left
      <3>1. datalen = BufSize
        BY <2>2 DEF bufremain, TypeOK
      <3> QED
        BY <3>1 DEF FullForCause, ClosedForCause, Plain
    <2> QED
      BY <2>1, <2>2
  <1> QED
    BY <1>1, <1>2

LEMMA ReadFrameKeepsIInv ==
  ASSUME IInv, ReadFrame
  PROVE  IInv'
  <1> USE DEF IInv
  <1> DEFINE first == sent[taken + 1]
  <1>1. PICK n \in 1..Min({kernel, bufremain}) :
          LET whole == decode_one_frame(first, datalen + n)
          IN  /\ kernel' = kernel - n
              /\ taken' = IF whole THEN taken + 1 ELSE taken
              /\ datalen' = datalen + n - (IF whole THEN first.len ELSE 0)
    BY DEF ReadFrame
  <1>2. /\ sent' = sent /\ left' = left /\ closed' = closed /\ alone' = alone
        /\ ~closed
    BY DEF ReadFrame
  <1>3. /\ kernel \in Nat /\ datalen \in Nat /\ taken \in Nat /\ BufSize \in Nat
        /\ Len(sent) \in Nat /\ bufremain \in Nat
    BY LenProperties DEF TypeOK, bufremain
  <1>4. n \in Nat /\ 1 <= n /\ n <= kernel /\ datalen + n <= BufSize
    <2>1. n <= kernel /\ n <= bufremain
      BY <1>3, MinOfTwo
    <2> QED
      BY <1>3, <2>1 DEF bufremain
  <1>5. /\ taken + 1 \in 1..Len(sent) /\ first \in Frame
        /\ End(sent, taken + 1) = End(sent, taken) + first.len
    BY <1>3, <1>4, FrameIsSent
  <1>6. first.len \in Nat /\ first.len > 0
    BY <1>5, FrameHasLength
  <1>7. End(sent, taken) \in Nat /\ End(sent, Len(sent)) \in Nat
    BY <1>3, EndDefined DEF TypeOK
  <1>8. ClosedForCause'
    BY <1>2 DEF ClosedForCause
  <1> HIDE DEF first
  <1>9. CASE decode_one_frame(first, datalen + n)
    <2>1. kernel' = kernel - n /\ taken' = taken + 1 /\ datalen' = datalen + n - first.len
      BY <1>1, <1>9
    <2>2. first.len <= datalen + n
      BY <1>9, <1>3, <1>4, <1>6 DEF decode_one_frame
    <2>3. kernel' \in Nat /\ datalen' \in 0..BufSize /\ datalen' < BufSize
      BY <1>3, <1>4, <1>6, <2>1, <2>2
    <2>4. TypeOK'
      BY <1>2, <1>3, <1>5, <2>1, <2>3 DEF TypeOK
    <2>5. Accounted'
      BY <1>2, <1>3, <1>4, <1>5, <1>6, <1>7, <2>1, <2>2, SMTT(60) DEF Accounted
    <2>6. FullForCause'
      BY <2>3, <1>3 DEF FullForCause
    <2>7. AloneIsNext'
      <3>1. \A i \in alone : i \in Nat /\ i <= taken + 1
        BY DEF AloneIsNext, TypeOK
      <3> QED
        BY <1>2, <1>3, <2>1, <3>1 DEF AloneIsNext
    <2> QED
      BY <2>4, <2>5, <2>6, <2>7, <1>8
  <1>10. CASE ~decode_one_frame(first, datalen + n)
    <2>1. kernel' = kernel - n /\ taken' = taken /\ datalen' = datalen + n
      BY <1>1, <1>10, <1>3, <1>4
    <2>2. TypeOK'
      BY <1>2, <1>3, <1>4, <2>1 DEF TypeOK
    <2>3. Accounted'
      BY <1>2, <1>3, <1>4, <1>7, <2>1 DEF Accounted
    <2>4. Plain(taken + 1) => datalen + n < first.len
      BY <1>10, <1>3, <1>4, <1>6 DEF decode_one_frame, Plain, first
    <2>5. Plain(taken + 1) => first.len <= BufSize
      BY DEF Plain, first
    <2>6. FullForCause'
      BY <1>3, <1>4, <1>6, <2>1, <2>4, <2>5, <1>2 DEF FullForCause, Plain
    <2>7. AloneIsNext'
      BY <1>2, <1>3, <1>4, <2>1, <2>4 DEF AloneIsNext, Plain, first
    <2> QED
      BY <2>2, <2>3, <2>6, <2>7, <1>8
  <1> QED
    BY <1>9, <1>10

LEMMA InitEstablishesIInv ==
  ASSUME Init
  PROVE  IInv
  <1> USE DEF Init
  <1>1. sent \in Seq(Frame) /\ Len(sent) = 0
    BY EmptySeq
  <1>2. TypeOK
    <2>1. 0 \in 0..Len(sent) /\ 0 \in 0..BufSize /\ alone \subseteq 1..Len(sent)
      BY <1>1
    <2> QED
      BY <1>1, <2>1 DEF TypeOK
  <1>3. Accounted
    <2>1. End(sent, 0) = 0
      BY <1>1, EndDefined
    <2> QED
      BY <1>1, <2>1 DEF Accounted
  <1> QED
    BY <1>2, <1>3 DEF IInv, FullForCause, AloneIsNext, ClosedForCause

LEMMA NextKeepsIInv ==
  ASSUME IInv, [Next]_vars
  PROVE  IInv'
  <1>1. CASE \E frame \in Frame : Send(frame)
    BY <1>1, SendKeepsIInv
  <1>2. CASE Leave
    BY <1>2, LeaveKeepsIInv
  <1>3. CASE ReadEnd
    BY <1>3, ReadEndKeepsIInv
  <1>4. CASE ReadFrame
    BY <1>4, ReadFrameKeepsIInv
  <1>5. CASE UNCHANGED vars
    BY <1>5 DEF vars, IInv, TypeOK, Accounted, FullForCause, AloneIsNext,
                ClosedForCause, Plain
  <1> QED
    BY <1>1, <1>2, <1>3, <1>4, <1>5 DEF Next, Readable

\* The conjuncts of IInv hold in every state: the bytes are accounted for, and
\* neither a frame that waits nor one that was sent alone fills the buffer.
THEOREM FramesInvariantHolds == Spec => []IInv
  <1>1. Init => IInv
    BY InitEstablishesIInv
  <1>2. IInv /\ [Next]_vars => IInv'
    BY NextKeepsIInv
  <1> QED
    BY <1>1, <1>2, PTL DEF Spec

\* gatesrv closes a connection the client has not closed only behind a frame
\* that the buffer can not hold or a fragment (websocket.cc 400-408).
THEOREM ClosedForCauseCorrect == Spec => []ClosedForCause
  <1>1. IInv => ClosedForCause
    BY DEF IInv
  <1> QED
    BY <1>1, FramesInvariantHolds, PTL

\* Each frame that waits was sent behind another.
LEMMA WaitingNotAlone ==
  ASSUME IInv, \A i \in DOMAIN sent : Plain(i)
  PROVE  Waiting \subseteq (1..Len(sent)) \ alone
  <1> SUFFICES ASSUME NEW i \in Waiting
               PROVE  i \in 1..Len(sent) /\ i \notin alone
    OBVIOUS
  <1>1. /\ sent \in Seq(Frame) /\ taken \in Nat /\ Len(sent) \in Nat
        /\ DOMAIN sent = 1..Len(sent) /\ datalen \in Nat
    BY LenProperties DEF IInv, TypeOK
  <1>2. i \in 1..Len(sent) /\ i > taken /\ End(sent, i) - End(sent, taken) <= datalen
    BY <1>1 DEF Waiting
  <1>3. ASSUME i \in alone PROVE FALSE
    <2>1. i = taken + 1
      BY <1>1, <1>2, <1>3 DEF IInv, AloneIsNext
    <2>2. datalen < sent[i].len
      BY <1>1, <1>2, <1>3, <2>1 DEF IInv, AloneIsNext
    <2>3. End(sent, i) = End(sent, taken) + sent[i].len
      BY <1>1, <1>2, <2>1, EndDefined
    <2>4. End(sent, taken) \in Nat
      BY <1>1, EndDefined DEF IInv, TypeOK
    <2>5. sent[i].len \in Nat
      BY <1>1, <1>2, ElementOfSeq, FrameHasLength
    <2> QED
      BY <1>1, <1>2, <2>2, <2>3, <2>4, <2>5
  <1> QED
    BY <1>2, <1>3

\* A client that slows down never falls behind further (websocket.cc 417-423):
\* no more frames wait than were sent behind others.
THEOREM LagBoundedCorrect == Spec => []LagBounded
  <1>1. IInv => LagBounded
    <2> SUFFICES ASSUME IInv, \A i \in DOMAIN sent : Plain(i)
                 PROVE  Cardinality(Waiting) <= Len(sent) - Cardinality(alone)
      BY DEF LagBounded
    <2> DEFINE All == 1..Len(sent)
    <2>1. Len(sent) \in Nat /\ alone \subseteq All
      BY LenProperties DEF IInv, TypeOK
    <2>2. IsFiniteSet(All) /\ Cardinality(All) = Len(sent)
      <3>1. IsFiniteSet(1..Len(sent))
        BY <2>1, FS_Interval
      <3>2. Cardinality(1..Len(sent)) = IF 1 > Len(sent) THEN 0 ELSE Len(sent) - 1 + 1
        BY <2>1, FS_Interval
      <3> QED
        BY <2>1, <3>1, <3>2
    <2> HIDE DEF All
    <2>3. /\ IsFiniteSet(alone) /\ IsFiniteSet(All \ alone)
          /\ Cardinality(All \ alone) = Len(sent) - Cardinality(alone)
      <3>1. All \cap alone = alone
        BY <2>1
      <3>2. IsFiniteSet(alone)
        BY <2>1, <2>2, FS_Subset
      <3>3. /\ IsFiniteSet(All \ alone)
            /\ Cardinality(All \ alone) = Cardinality(All) - Cardinality(All \cap alone)
        BY <2>2, FS_Difference
      <3> QED
        BY <2>2, <3>1, <3>2, <3>3
    <2>4. Waiting \subseteq All \ alone
      BY WaitingNotAlone DEF All
    <2>5. Cardinality(Waiting) <= Cardinality(All \ alone)
      BY <2>3, <2>4, FS_Subset
    <2> QED
      BY <2>3, <2>5
  <1> QED
    BY <1>1, FramesInvariantHolds, PTL
=============================================================================
