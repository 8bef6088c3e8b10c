----------------------------- MODULE LinkProofs -----------------------------
(***************************************************************************)
(* Proofs about Link, for any sockets, blocks, sizes and lengths.          *)
(***************************************************************************)
EXTENDS Link, SendbufProofs

USE BaseAssumption

-----------------------------------------------------------------------------
(* The loop over _decode_packet *)

Result == [out : Seq(Seq(Nat)), left : Seq(Nat)]

\* One turn of the loop at p; f tells how it goes on.
Turn(f, data, p) ==
  LET rest == Len(data) - p + 1
      plen == data[p] + Base * data[p + 1]
      next == f[p + plen]
      body == IF plen < 2 THEN Garbage ELSE SubSeq(data, p + 2, p + plen - 1)
  IN  IF rest < 2 THEN [out |-> <<>>, left |-> SubSeq(data, p, Len(data))]
      ELSE IF Incomplete(rest, plen) THEN [out |-> <<>>, left |-> SubSeq(data, p, Len(data))]
      ELSE IF plen = 0 THEN [out |-> <<body>>, left |-> SubSeq(data, p, Len(data))]
      ELSE [out |-> <<body>> \o next.out, left |-> next.left]

\* Where a packet is complete, the loop goes on behind it.
LEMMA TurnPlace ==
  ASSUME NEW data \in Seq(Nat), NEW p \in 1..(Len(data) + 1), ~ (Len(data) - p + 1 < 2)
  PROVE  LET plen == data[p] + Base * data[p + 1]
         IN  /\ plen \in Nat
             /\ ~ Incomplete(Len(data) - p + 1, plen) /\ plen # 0 =>
                  p + plen \in 1..(Len(data) + 1) /\ p + plen > p
  <1> DEFINE plen == data[p] + Base * data[p + 1]
  <1>1. Len(data) \in Nat
    BY LenProperties
  <1>2. p \in 1..Len(data) /\ p + 1 \in 1..Len(data)
    BY <1>1
  <1>3. data[p] \in Nat /\ data[p + 1] \in Nat
    BY <1>2, ElementOfSeq
  <1>4. plen \in Nat
    <2>1. \A a, b \in Nat : a * b \in Nat
      OBVIOUS
    <2>2. Base * data[p + 1] \in Nat
      BY <1>3, <2>1
    <2> DEFINE e == Base * data[p + 1]
    <2> HIDE DEF e
    <2>3. e \in Nat /\ data[p] \in Nat
      BY <1>3, <2>2 DEF e
    <2>4. data[p] + e \in Nat
      BY <2>3
    <2> QED
      BY <2>4 DEF e
  <1> HIDE DEF plen
  <1> SUFFICES /\ plen \in Nat
               /\ ~ Incomplete(Len(data) - p + 1, plen) /\ plen # 0 =>
                    p + plen \in 1..(Len(data) + 1) /\ p + plen > p
    BY DEF plen
  <1> QED
    BY <1>1, <1>4 DEF Incomplete

LEMMA TurnType ==
  ASSUME NEW data \in Seq(Nat), NEW p \in 1..(Len(data) + 1),
         NEW f \in [1..(Len(data) + 1) -> Result]
  PROVE  Turn(f, data, p) \in Result
  <1> DEFINE rest == Len(data) - p + 1
             plen == data[p] + Base * data[p + 1]
             next == f[p + plen]
             body == IF plen < 2 THEN Garbage ELSE SubSeq(data, p + 2, p + plen - 1)
             tail == SubSeq(data, p, Len(data))
  <1>1. Len(data) \in Nat
    BY LenProperties
  <1>2. tail \in Seq(Nat)
    <2>1. \A i \in p..Len(data) : i \in 1..Len(data)
      BY <1>1
    <2>2. \A i \in p..Len(data) : data[i] \in Nat
      BY <2>1, ElementOfSeq
    <2>3. p \in Int /\ Len(data) \in Int
      BY <1>1
    <2> QED
      BY <2>2, <2>3, SubSeqProperties
  <1>3. Turn(f, data, p) =
          IF rest < 2 THEN [out |-> <<>>, left |-> tail]
          ELSE IF Incomplete(rest, plen) THEN [out |-> <<>>, left |-> tail]
          ELSE IF plen = 0 THEN [out |-> <<body>>, left |-> tail]
          ELSE [out |-> <<body>> \o next.out, left |-> next.left]
    BY DEF Turn
  <1>4. ASSUME ~ (rest < 2) PROVE plen \in Nat
    BY <1>4, TurnPlace
  <1>5. ASSUME ~ (rest < 2), ~ Incomplete(rest, plen) PROVE body \in Seq(Nat)
    <2>1. CASE plen < 2
      BY <2>1 DEF Garbage
    <2>2. CASE ~ (plen < 2)
      <3>1. plen \in Nat /\ rest \in Int /\ ~ (rest < plen)
        BY <1>1, <1>4, <1>5 DEF Incomplete
      <3> HIDE DEF plen
      <3>2. \A i \in (p + 2)..(p + plen - 1) : i \in 1..Len(data)
        BY <1>1, <3>1
      <3>3. \A i \in (p + 2)..(p + plen - 1) : data[i] \in Nat
        BY <3>2, ElementOfSeq
      <3>4. p + 2 \in Int /\ p + plen - 1 \in Int
        BY <3>1
      <3>5. SubSeq(data, p + 2, p + plen - 1) \in Seq(Nat)
        BY <3>3, <3>4, SubSeqProperties
      <3> QED
        BY <2>2, <3>5
    <2> QED
      BY <2>1, <2>2
  <1>6. ASSUME ~ (rest < 2), ~ Incomplete(rest, plen), plen # 0
        PROVE  next.out \in Seq(Seq(Nat)) /\ next.left \in Seq(Nat)
    <2>1. p + plen \in 1..(Len(data) + 1)
      BY <1>6, TurnPlace
    <2> HIDE DEF plen
    <2>2. next \in Result
      BY <2>1
    <2> QED
      BY <2>2 DEF Result
  <1> HIDE DEF rest, plen, next, body, tail
  <1>7. <<>> \in Seq(Seq(Nat))
    OBVIOUS
  <1>8. ASSUME ~ (rest < 2), ~ Incomplete(rest, plen) PROVE <<body>> \in Seq(Seq(Nat))
    BY <1>5, <1>8
  <1>9. ASSUME ~ (rest < 2), ~ Incomplete(rest, plen), plen # 0
        PROVE  <<body>> \o next.out \in Seq(Seq(Nat))
    BY <1>6, <1>8, <1>9, ConcatProperties
  <1> QED
    BY <1>2, <1>3, <1>6, <1>7, <1>8, <1>9 DEF Result

\* A turn does not look back.
LEMMA TurnLooksAhead ==
  ASSUME NEW data \in Seq(Nat), NEW p \in 1..(Len(data) + 1), NEW f, NEW g,
         \A q \in 1..(Len(data) + 1) : q > p => f[q] = g[q]
  PROVE  Turn(f, data, p) = Turn(g, data, p)
  <1> DEFINE rest == Len(data) - p + 1
             plen == data[p] + Base * data[p + 1]
  <1>1. ASSUME ~ (rest < 2), ~ Incomplete(rest, plen), plen # 0
        PROVE  f[p + plen] = g[p + plen]
    <2>1. p + plen \in 1..(Len(data) + 1) /\ p + plen > p
      BY <1>1, TurnPlace
    <2> HIDE DEF plen
    <2> QED
      BY <2>1
  <1> QED
    BY <1>1, Zenon DEF Turn

\* The equation by which Decoded is defined has a solution.
LEMMA DecodedIs ==
  ASSUME NEW data \in Seq(Nat)
  PROVE  \E f \in [1..(Len(data) + 1) -> Result] :
           /\ \A p \in 1..(Len(data) + 1) : f[p] = Turn(f, data, p)
           /\ Decoded(data) = f[1]
  <1> DEFINE N == Len(data) + 1
             D == [1..N -> Result]
             base == [p \in 1..N |-> [out |-> <<>>, left |-> <<>>]]
             Eqn(f) == [p \in 1..N |-> Turn(f, data, p)]
             Loop == CHOOSE f : f = Eqn(f)
             step == [k \in (1..N) \X D |->
                        [k[2] EXCEPT ![N + 1 - k[1]] = Turn(k[2], data, N + 1 - k[1])]]
  <1>1. N \in Nat /\ N > 0
    BY LenProperties
  <1>2. Decoded(data) = Loop[1]
    BY DEF Decoded, Turn
  <1>3. base \in D
    <2>1. [out |-> <<>>, left |-> <<>>] \in Result
      BY DEF Result
    <2> QED
      BY <2>1
  <1>4. \A f \in D, p \in 1..N : Turn(f, data, p) \in Result
    BY TurnType
  <1>5. \A f, g : \A p \in 1..N : (\A q \in 1..N : q > p => f[q] = g[q]) => Turn(f, data, p) = Turn(g, data, p)
    BY TurnLooksAhead
  <1> HIDE DEF N, base
  <1>6. \A k \in 1..N : N + 1 - k \in 1..N
    BY <1>1
  <1>7. IsStep(step, N, D)
    <2>1. ASSUME NEW k \in 1..N, NEW g \in D
          PROVE  [g EXCEPT ![N + 1 - k] = Turn(g, data, N + 1 - k)] \in D
      BY <1>4, <1>6
    <2> QED
      BY <2>1 DEF IsStep
  <1>8. \A k \in 1..N, g \in D : step[<<k, g>>] = [g EXCEPT ![N + 1 - k] = Turn(g, data, N + 1 - k)]
    OBVIOUS
  <1>9. PICK G : Follows(G, base, step, N, D)
    <2> HIDE DEF step, D
    <2> QED
      BY <1>1, <1>3, <1>7, RecursionExists
  <1>10. /\ G \in [0..N -> D]
         /\ \A k \in 0..N : k < N =>
              G[k + 1] = [G[k] EXCEPT ![N - k] = Turn(G[k], data, N - k)]
    <2>1. G \in [0..N -> D] /\ \A k \in 1..N : G[k] = step[<<k, G[k - 1]>>]
      BY <1>9 DEF Follows
    <2> HIDE DEF step, D
    <2>2. ASSUME NEW k \in 0..N, k < N
          PROVE  G[k + 1] = [G[k] EXCEPT ![N - k] = Turn(G[k], data, N - k)]
      <3>1. k + 1 \in 1..N /\ (k + 1) - 1 = k /\ N + 1 - (k + 1) = N - k
        BY <1>1, <2>2
      <3>2. G[k] \in D /\ G[k + 1] = step[<<k + 1, G[k]>>]
        BY <2>1, <3>1
      <3> QED
        BY <1>8, <3>1, <3>2
    <2> QED
      BY <2>1, <2>2
  <1> HIDE DEF step
  <1> DEFINE f == G[N]
             T == {k \in 0..N : \A p \in 1..N : p > N - k => G[k][p] = Turn(G[k], data, p)}
  <1>11. 0 \in T
    BY <1>1
  <1>12. ASSUME NEW k \in 0..N, k \in T, k < N PROVE k + 1 \in T
    <2> DEFINE a == G[k]
               b == G[k + 1]
               q == N - k
    <2>1. q \in 1..N /\ k + 1 \in 0..N
      BY <1>1, <1>12
    <2>2. a \in D /\ b = [a EXCEPT ![q] = Turn(a, data, q)]
      BY <1>10, <1>12
    <2>3. \A p \in 1..N : p > q => a[p] = Turn(a, data, p)
      BY <1>12
    <2>4. \A p \in 1..N : p > N - (k + 1) <=> p > q \/ p = q
      BY <1>1, <1>12
    <2> HIDE DEF a, b, q
    <2>5. b[q] = Turn(a, data, q) /\ \A p \in 1..N : p # q => b[p] = a[p]
      BY <2>1, <2>2
    <2>6. ASSUME NEW p \in 1..N, p > q \/ p = q PROVE Turn(b, data, p) = Turn(a, data, p)
      <3>1. \A r \in 1..N : r > p => b[r] = a[r]
        BY <1>1, <2>1, <2>5, <2>6
      <3> QED
        BY <1>5, <3>1
    <2>7. \A p \in 1..N : p > q \/ p = q => b[p] = Turn(b, data, p)
      <3>1. ASSUME NEW p \in 1..N, p > q PROVE b[p] = Turn(b, data, p)
        <4>1. p # q
          BY <2>1, <3>1
        <4> QED
          BY <2>3, <2>5, <2>6, <3>1, <4>1
      <3>2. b[q] = Turn(b, data, q)
        BY <2>1, <2>5, <2>6
      <3> QED
        BY <3>1, <3>2
    <2> QED
      BY <2>1, <2>4, <2>7 DEF b
  <1>13. f \in D /\ \A p \in 1..N : f[p] = Turn(f, data, p)
    <2> HIDE DEF T
    <2>1. 0..N \subseteq T
      BY <1>1, <1>11, <1>12, BoundedInduction
    <2>2. N \in T /\ N \in 0..N
      BY <1>1, <2>1
    <2>3. \A p \in 1..N : p > N - N
      BY <1>1
    <2> QED
      BY <1>10, <2>2, <2>3 DEF T
  <1> HIDE DEF T, f
  <1>14. f = Eqn(f)
    BY <1>13
  <1>15. Loop = Eqn(Loop)
    <2> HIDE DEF Eqn
    <2> QED
      BY <1>14
  <1>16. \A p \in 1..N : Loop[p] = Turn(Loop, data, p)
    <2> HIDE DEF Loop
    <2> QED
      BY <1>15
  <1> HIDE DEF Loop
  <1> DEFINE U == {k \in 0..N : \A p \in 1..N : p > N - k => Loop[p] = f[p]}
  <1>17. 0 \in U
    BY <1>1
  <1>18. ASSUME NEW k \in 0..N, k \in U, k < N PROVE k + 1 \in U
    <2> DEFINE q == N - k
    <2>1. q \in 1..N /\ k + 1 \in 0..N
      BY <1>1, <1>18
    <2>2. \A p \in 1..N : p > q => Loop[p] = f[p]
      BY <1>18
    <2>3. \A p \in 1..N : p > N - (k + 1) <=> p > q \/ p = q
      BY <1>1, <1>18
    <2> HIDE DEF q
    <2>4. Loop[q] = f[q]
      BY <1>5, <1>13, <1>16, <2>1, <2>2
    <2> QED
      BY <2>1, <2>2, <2>3, <2>4
  <1>19. Loop[1] = f[1]
    <2> HIDE DEF U
    <2>1. 0..N \subseteq U
      BY <1>1, <1>17, <1>18, BoundedInduction
    <2>2. N \in U /\ 1 \in 1..N /\ 1 > N - N
      BY <1>1, <2>1
    <2> QED
      BY <2>2 DEF U
  <1> QED
    BY <1>2, <1>13, <1>19 DEF N

-----------------------------------------------------------------------------
(* What the loop makes of a stream of packets *)

\* A packet whose two first bytes say how long it is.
Framed == {packet \in Seq(Nat) : Len(packet) >= 3 /\ Len(packet) = packet[1] + Base * packet[2]}

Bodies(F) == [i \in 1..Len(F) |-> Body(F[i])]

\* The loop has dispatched the bodies of some packets of F, and goes on with G when
\* the rest has come; of the first of these something is still to come.
Goes(r, F, G, rest) ==
  /\ G \in Seq(Framed)
  /\ r.out \in Seq(Seq(Nat)) /\ r.left \in Seq(Nat)
  /\ Bodies(F) = r.out \o Bodies(G)
  /\ Joined(G, r.left \o rest)
  /\ G # <<>> => Len(r.left) < Len(G[1])

LEMMA BodyOf ==
  ASSUME NEW packet \in Framed
  PROVE  /\ packet \in Seq(Nat) /\ Len(packet) \in Nat /\ Len(packet) >= 3
         /\ Body(packet) \in Seq(Nat) /\ Len(Body(packet)) = Len(packet) - 2
         /\ \A i \in 1..(Len(packet) - 2) : Body(packet)[i] = packet[2 + i]
         /\ Len(packet) = packet[1] + Base * packet[2]
  <1>1. /\ packet \in Seq(Nat) /\ Len(packet) \in Nat /\ Len(packet) >= 3
        /\ Len(packet) = packet[1] + Base * packet[2]
    BY LenProperties DEF Framed
  <1>2. 2 + 1 = 3 /\ 2 \in Nat /\ 2 <= Len(packet)
    BY <1>1
  <1> QED
    BY <1>1, <1>2, SuffixOf DEF Body

LEMMA BodiesOf ==
  ASSUME NEW F \in Seq(Framed)
  PROVE  /\ Bodies(F) \in Seq(Seq(Nat)) /\ Len(Bodies(F)) = Len(F) /\ Len(F) \in Nat
         /\ \A i \in 1..Len(F) : Bodies(F)[i] = Body(F[i])
         /\ F \in Seq(Seq(Nat))
         /\ Bodies(<<>>) = <<>>
  <1>1. Len(F) \in Nat /\ \A i \in 1..Len(F) : F[i] \in Framed
    BY LenProperties, ElementOfSeq
  <1>2. \A i \in 1..Len(F) : Body(F[i]) \in Seq(Nat)
    BY <1>1, BodyOf
  <1>3. Bodies(F) \in [1..Len(F) -> Seq(Nat)]
    BY <1>2 DEF Bodies
  <1>4. Bodies(F) \in Seq(Seq(Nat)) /\ Len(Bodies(F)) = Len(F)
    BY <1>1, <1>3
  <1>5. Framed \subseteq Seq(Nat)
    BY DEF Framed
  <1>6. F \in Seq(Seq(Nat))
    BY <1>5, SeqMonotonic
  <1>7. Bodies(<<>>) = <<>>
    BY DEF Bodies
  <1> QED
    BY <1>1, <1>4, <1>6, <1>7 DEF Bodies

LEMMA BodiesOfTail ==
  ASSUME NEW F \in Seq(Framed), F # <<>>
  PROVE  /\ Tail(F) \in Seq(Framed) /\ Len(Tail(F)) = Len(F) - 1
         /\ F[1] \in Framed
         /\ Bodies(F) = <<Body(F[1])>> \o Bodies(Tail(F))
  <1> DEFINE G == Tail(F)
             b == <<Body(F[1])>>
             n == Len(F)
  <1>1. G \in Seq(Framed) /\ Len(G) = n - 1 /\ \A i \in 1..(n - 1) : G[i] = F[i + 1]
    BY HeadTailProperties
  <1>2. n \in Nat /\ n > 0
    BY EmptySeq
  <1>3. F[1] \in Framed
    <2>1. 1 \in 1..Len(F)
      BY <1>2
    <2> QED
      BY <2>1, ElementOfSeq
  <1>4. Body(F[1]) \in Seq(Nat)
    BY <1>3, BodyOf
  <1>5. b \in Seq(Seq(Nat)) /\ Len(b) = 1 /\ b[1] = Body(F[1])
    BY <1>4
  <1> HIDE DEF G, b
  <1>6. /\ Bodies(F) \in Seq(Seq(Nat)) /\ Len(Bodies(F)) = n
        /\ \A i \in 1..n : Bodies(F)[i] = Body(F[i])
    BY BodiesOf
  <1>7. /\ Bodies(G) \in Seq(Seq(Nat)) /\ Len(Bodies(G)) = n - 1
        /\ \A i \in 1..(n - 1) : Bodies(G)[i] = Body(G[i])
    BY <1>1, BodiesOf
  <1>8. /\ b \o Bodies(G) \in Seq(Seq(Nat)) /\ Len(b \o Bodies(G)) = 1 + (n - 1)
        /\ \A i \in 1..(1 + (n - 1)) : (b \o Bodies(G))[i] = IF i <= 1 THEN b[i] ELSE Bodies(G)[i - 1]
    <2> DEFINE c == Bodies(G)
    <2>1. c \in Seq(Seq(Nat)) /\ Len(c) = n - 1
      BY <1>7
    <2> HIDE DEF c, n
    <2>2. /\ b \o c \in Seq(Seq(Nat)) /\ Len(b \o c) = Len(b) + Len(c)
          /\ \A i \in 1..(Len(b) + Len(c)) : (b \o c)[i] = IF i <= Len(b) THEN b[i] ELSE c[i - Len(b)]
      BY <1>5, <2>1, ConcatProperties
    <2> QED
      BY <1>5, <2>1, <2>2 DEF c
  <1> HIDE DEF n
  <1>9. ASSUME NEW i \in 1..n PROVE Bodies(F)[i] = (b \o Bodies(G))[i]
    <2>1. i \in 1..(1 + (n - 1))
      BY <1>2
    <2>2. CASE i = 1
      <3>1. 1 \in 1..(1 + (n - 1)) /\ 1 <= 1
        BY <2>1, <2>2
      <3>2. (b \o Bodies(G))[1] = b[1]
        BY <1>8, <3>1
      <3> QED
        BY <1>5, <1>6, <2>2, <3>2
    <2>3. CASE i # 1
      <3>1. ~ (i <= 1) /\ i - 1 \in 1..(n - 1) /\ (i - 1) + 1 = i
        BY <1>2, <2>3
      <3>2. Bodies(G)[i - 1] = Body(F[i])
        BY <1>1, <1>7, <3>1
      <3> QED
        BY <1>6, <1>8, <2>1, <3>1, <3>2
    <2> QED
      BY <2>2, <2>3
  <1>10. 1 + (n - 1) = n
    BY <1>2
  <1>11. Bodies(F) = b \o Bodies(G)
    BY <1>6, <1>8, <1>9, <1>10, SeqEqual
  <1> QED
    BY <1>1, <1>3, <1>11 DEF G, b, n

\* What is in the buffer from p on.
LEMMA DataFrom ==
  ASSUME NEW data \in Seq(Nat), NEW p \in 1..(Len(data) + 1)
  PROVE  LET d == SubSeq(data, p, Len(data))
         IN  /\ d \in Seq(Nat) /\ Len(d) = Len(data) - p + 1 /\ Len(d) \in Nat
             /\ \A i \in 1..Len(d) : d[i] = data[p + i - 1]
  <1>1. Len(data) \in Nat
    BY LenProperties
  <1> DEFINE m == p - 1
  <1>2. m \in Nat /\ m <= Len(data) /\ m + 1 = p /\ Len(data) - m = Len(data) - p + 1
        /\ Len(data) - p + 1 \in Nat /\ \A i \in 1..(Len(data) - p + 1) : m + i = p + i - 1
    BY <1>1
  <1> HIDE DEF m
  <1>3. /\ SubSeq(data, m + 1, Len(data)) \in Seq(Nat)
        /\ Len(SubSeq(data, m + 1, Len(data))) = Len(data) - m
        /\ \A i \in 1..(Len(data) - m) : SubSeq(data, m + 1, Len(data))[i] = data[m + i]
    BY <1>2, SuffixOf
  <1> QED
    BY <1>2, <1>3

\* A turn that finds less than a packet.
LEMMA TurnShort ==
  ASSUME NEW data \in Seq(Nat), NEW p \in 1..(Len(data) + 1), NEW f, NEW rest \in Seq(Nat),
         NEW packet \in Framed, NEW z \in Seq(Nat),
         SubSeq(data, p, Len(data)) \o rest = packet \o z,
         Len(data) - p + 1 < Len(packet)
  PROVE  Turn(f, data, p) = [out |-> <<>>, left |-> SubSeq(data, p, Len(data))]
  <1> DEFINE d == SubSeq(data, p, Len(data))
             plen == data[p] + Base * data[p + 1]
             l == Len(data) - p + 1
  <1>1. d \in Seq(Nat) /\ Len(d) = l /\ l \in Nat /\ \A i \in 1..l : d[i] = data[p + i - 1]
    BY DataFrom
  <1>2. packet \in Seq(Nat) /\ Len(packet) \in Nat /\ Len(packet) = packet[1] + Base * packet[2]
    BY BodyOf
  <1> HIDE DEF d, l
  <1>3. \A i \in 1..l : packet[i] = d[i]
    <2>1. d \o rest = packet \o z /\ Len(d) <= Len(packet)
      BY <1>1, <1>2 DEF d, l
    <2> QED
      BY <1>1, <1>2, <2>1, JoinedCut, ZenonT(60)
  <1>4. ASSUME ~ (l < 2) PROVE Incomplete(l, plen)
    <2>1. 1 \in 1..l /\ 2 \in 1..l /\ p + 1 - 1 = p /\ p + 2 - 1 = p + 1
      BY <1>1, <1>4, SMTT(60) DEF l
    <2>2. packet[1] = data[p] /\ packet[2] = data[p + 1]
      BY <1>1, <1>3, <2>1
    <2>3. plen = Len(packet)
      BY <1>2, <2>2
    <2> QED
      BY <2>3 DEF Incomplete, l
  <1> QED
    BY <1>4 DEF Turn, l

\* A turn finds a packet at p and goes on at q.
GoesOn(f, data, p, q, packet, rest, z) ==
  /\ q \in 1..(Len(data) + 1)
  /\ SubSeq(data, q, Len(data)) \o rest = z
  /\ Turn(f, data, p) = [out |-> <<Body(packet)>> \o f[q].out, left |-> f[q].left]

LEMMA TurnWhole ==
  ASSUME NEW data \in Seq(Nat), NEW p \in 1..(Len(data) + 1), NEW f, NEW rest \in Seq(Nat),
         NEW packet \in Framed, NEW z \in Seq(Nat),
         SubSeq(data, p, Len(data)) \o rest = packet \o z,
         Len(data) - p + 1 >= Len(packet)
  PROVE  GoesOn(f, data, p, p + Len(packet), packet, rest, z)
  <1> DEFINE d == SubSeq(data, p, Len(data))
             n == Len(packet)
             q == p + n
             l == Len(data) - p + 1
             e == SubSeq(data, q, Len(data))
             body == SubSeq(data, p + 2, p + n - 1)
  <1>1. d \in Seq(Nat) /\ Len(d) = l /\ \A i \in 1..l : d[i] = data[p + i - 1]
    BY DataFrom
  <1>2. packet \in Seq(Nat) /\ n \in Nat /\ n >= 3 /\ Body(packet) \in Seq(Nat)
    BY BodyOf
  <1>3. n = packet[1] + Base * packet[2]
    BY BodyOf
  <1>4. Len(Body(packet)) = n - 2 /\ \A i \in 1..(n - 2) : Body(packet)[i] = packet[2 + i]
    BY BodyOf
  <1>5. p \in Nat /\ p > 0 /\ Len(data) \in Nat /\ l = Len(data) - p + 1 /\ q = p + n
    BY LenProperties
  <1>6. n <= l
    <2> HIDE DEF n
    <2> QED
      BY <1>2, <1>5 DEF n
  <1>7. d \o rest = packet \o z
    OBVIOUS
  <1> HIDE DEF d, n, q, l, e, body
  <1>8. l \in Nat /\ q \in 1..(Len(data) + 1)
    BY <1>2, <1>5, <1>6
  <1>9. /\ \A i \in 1..n : d[i] = packet[i]
        /\ SubSeq(d, n + 1, Len(d)) \o rest = z
    <2>1. packet \o z = d \o rest /\ Len(packet) <= Len(d)
      BY <1>1, <1>6, <1>7 DEF n
    <2>2. \A i \in 1..Len(packet) : d[i] = packet[i]
      BY <1>1, <1>2, <2>1, JoinedCut, SMTT(60)
    <2>3. SubSeq(d, Len(packet) + 1, Len(d)) \o rest = z
      BY <1>1, <1>2, <2>1, CutBehind, Zenon
    <2> QED
      BY <2>2, <2>3 DEF n
  <1>10. SubSeq(d, n + 1, Len(d)) = e
    <2> DEFINE w == SubSeq(d, n + 1, Len(d))
    <2>1. w \in Seq(Nat) /\ Len(w) = l - n /\ \A i \in 1..(l - n) : w[i] = d[n + i]
      <3>1. n <= Len(d)
        BY <1>1, <1>6
      <3>2. /\ w \in Seq(Nat) /\ Len(w) = Len(d) - n
            /\ \A i \in 1..(Len(d) - n) : w[i] = d[n + i]
        BY <1>1, <1>2, <3>1, SuffixOf
      <3> HIDE DEF w
      <3> QED
        BY <1>1, <3>2
    <2>2. e \in Seq(Nat) /\ Len(e) = Len(data) - q + 1 /\ \A i \in 1..Len(e) : e[i] = data[q + i - 1]
      BY <1>8, DataFrom DEF e
    <2> HIDE DEF w
    <2>3. Len(w) = Len(e) /\ Len(w) \in Nat
      BY <1>2, <1>5, <1>6, <1>8, <2>1, <2>2
    <2>4. ASSUME NEW i \in 1..Len(w) PROVE w[i] = e[i]
      <3>1. i \in 1..(l - n) /\ n + i \in 1..l /\ i \in 1..Len(e) /\ q + i - 1 = p + (n + i) - 1
        BY <1>2, <1>5, <1>6, <1>8, <2>1, <2>3
      <3>2. w[i] = d[n + i] /\ d[n + i] = data[p + (n + i) - 1]
        BY <1>1, <2>1, <3>1
      <3>3. e[i] = data[q + i - 1]
        BY <2>2, <3>1
      <3> QED
        BY <3>1, <3>2, <3>3
    <2> QED
      BY <2>1, <2>2, <2>3, <2>4, SeqEqual DEF w
  <1>11. \A i \in 1..n : data[p + i - 1] = packet[i] /\ data[p + i - 1] \in Nat
    <2>1. \A i \in 1..n : i \in 1..l
      BY <1>2, <1>6, <1>8
    <2>2. \A i \in 1..n : packet[i] \in Nat
      BY <1>2, ElementOfSeq DEF n
    <2> QED
      BY <1>1, <1>9, <2>1, <2>2
  <1>12. data[p] + Base * data[p + 1] = n
    <2>1. 1 \in 1..n /\ 2 \in 1..n /\ p + 1 - 1 = p /\ p + 2 - 1 = p + 1
      BY <1>2, <1>5
    <2>2. data[p + 1 - 1] = packet[1] /\ data[p + 2 - 1] = packet[2]
      BY <1>11, <2>1
    <2>3. packet[1] = data[p] /\ packet[2] = data[p + 1]
      BY <2>1, <2>2
    <2> QED
      BY <1>3, <2>3
  <1>13. body = Body(packet)
    <2>1. \A i \in (p + 2)..(p + n - 1) : data[i] \in Nat
      <3>1. ASSUME NEW i \in (p + 2)..(p + n - 1) PROVE data[i] \in Nat
        <4> DEFINE j == i - p + 1
        <4>1. j \in 1..n /\ p + j - 1 = i
          BY <1>2, <1>5
        <4> HIDE DEF j
        <4>2. data[p + j - 1] \in Nat
          BY <1>11, <4>1
        <4> QED
          BY <4>1, <4>2
      <3> QED
        BY <3>1
    <2>2. p + 2 \in Int /\ p + n - 1 \in Int /\ (p + n - 1) - (p + 2) + 1 = n - 2 /\ p + 2 <= p + n - 1
      BY <1>2, <1>5
    <2>3. /\ body \in Seq(Nat)
          /\ Len(body) = IF p + 2 <= p + n - 1 THEN (p + n - 1) - (p + 2) + 1 ELSE 0
          /\ \A i \in 1..((p + n - 1) - (p + 2) + 1) : body[i] = data[(p + 2) + i - 1]
      BY <2>1, <2>2, SubSeqProperties, SMTT(60) DEF body
    <2>4. body \in Seq(Nat) /\ Len(body) = n - 2 /\ \A i \in 1..(n - 2) : body[i] = data[(p + 2) + i - 1]
      BY <2>2, <2>3
    <2>5. ASSUME NEW i \in 1..(n - 2) PROVE body[i] = Body(packet)[i]
      <3> DEFINE j == 2 + i
      <3>1. j \in 1..n /\ (p + 2) + i - 1 = p + j - 1
        BY <1>2, <1>5
      <3>2. Body(packet)[i] = packet[j]
        BY <1>4
      <3> HIDE DEF j
      <3>3. data[p + j - 1] = packet[j]
        BY <1>11, <3>1
      <3> QED
        BY <2>4, <3>1, <3>2, <3>3
    <2> QED
      BY <1>2, <1>4, <2>4, <2>5, SeqEqual
  <1>14. ~ (l < 2) /\ ~ Incomplete(l, n) /\ n # 0 /\ ~ (n < 2)
    BY <1>2, <1>6, <1>8 DEF Incomplete
  <1>15. Turn(f, data, p) = [out |-> <<body>> \o f[p + n].out, left |-> f[p + n].left]
    BY <1>12, <1>14 DEF Turn, body, l
  <1> QED
    BY <1>8, <1>9, <1>10, <1>13, <1>15 DEF e, n, q, GoesOn

\* The loop takes packets from the stream, in their order, and stops at one of
\* which something is missing.
LEMMA DecodedGoes ==
  ASSUME NEW data \in Seq(Nat), NEW rest \in Seq(Nat), NEW F \in Seq(Framed),
         Joined(F, data \o rest)
  PROVE  \E G : Goes(Decoded(data), F, G, rest)
  <1>1. PICK f \in [1..(Len(data) + 1) -> Result] :
           /\ \A p \in 1..(Len(data) + 1) : f[p] = Turn(f, data, p)
           /\ Decoded(data) = f[1]
    BY DecodedIs
  <1> DEFINE From(p) == SubSeq(data, p, Len(data))
             T == {n \in Nat : \A K \in Seq(Framed) : \A p \in 1..(Len(data) + 1) :
                     Len(K) = n /\ Joined(K, From(p) \o rest) => \E G : Goes(f[p], K, G, rest)}
  <1>2. Len(data) \in Nat
    BY LenProperties
  <1>3. ASSUME NEW p \in 1..(Len(data) + 1)
        PROVE  From(p) \in Seq(Nat) /\ Len(From(p)) = Len(data) - p + 1 /\ f[p] \in Result
    BY <1>1, DataFrom
  <1>4. 0 \in T
    <2>1. ASSUME NEW K \in Seq(Framed), NEW p \in 1..(Len(data) + 1),
                 Len(K) = 0, Joined(K, From(p) \o rest)
          PROVE  Goes(f[p], K, K, rest)
      <3> DEFINE d == From(p)
      <3>1. K = <<>>
        BY <2>1, EmptySeq
      <3>2. d \o rest = <<>>
        BY <2>1, <3>1, JoinedNone
      <3>3. d \in Seq(Nat) /\ Len(d) = Len(data) - p + 1
        BY <1>3
      <3> HIDE DEF d
      <3>4. d = <<>> /\ rest = <<>>
        BY <3>2, <3>3, ConcatEqualIffEmpty
      <3>5. Len(data) - p + 1 < 2
        BY <3>3, <3>4, EmptySeq
      <3>6. f[p] = [out |-> <<>>, left |-> d]
        BY <1>1, <3>5 DEF Turn, d
      <3>7. Bodies(K) = <<>> /\ <<>> \in Seq(Seq(Nat)) /\ <<>> \o <<>> = <<>>
        BY <3>1, BodiesOf
      <3>8. f[p].out = <<>> /\ f[p].left = d
        BY <3>6
      <3>9. Joined(K, d \o rest)
        BY <2>1 DEF d
      <3> QED
        BY <3>1, <3>3, <3>7, <3>8, <3>9 DEF Goes
    <2> QED
      BY <2>1
  <1>5. ASSUME NEW n \in Nat, n \in T PROVE n + 1 \in T
    <2>1. ASSUME NEW K \in Seq(Framed), NEW p \in 1..(Len(data) + 1),
                 Len(K) = n + 1, Joined(K, From(p) \o rest)
          PROVE  \E G : Goes(f[p], K, G, rest)
      <3> DEFINE packet == K[1]
                 H == Tail(K)
                 d == From(p)
      <3>1. K # <<>>
        BY <2>1, EmptySeq
      <3>2. H \in Seq(Framed) /\ Len(H) = n /\ packet \in Framed /\ Bodies(K) = <<Body(packet)>> \o Bodies(H)
        <4>1. /\ H \in Seq(Framed) /\ Len(H) = Len(K) - 1 /\ packet \in Framed
              /\ Bodies(K) = <<Body(packet)>> \o Bodies(H)
          BY <3>1, BodiesOfTail
        <4> HIDE DEF H, packet
        <4> QED
          BY <2>1, <4>1
      <3>3. PICK z \in Seq(Nat) : d \o rest = packet \o z /\ Joined(H, z)
        BY <2>1, <3>1, JoinedFirst
      <3>4. d \in Seq(Nat) /\ Len(d) = Len(data) - p + 1
        BY <1>3
      <3>5. packet \in Seq(Nat) /\ Len(packet) \in Nat /\ Body(packet) \in Seq(Nat)
        BY <3>2, BodyOf
      <3>6. CASE Len(data) - p + 1 < Len(packet)
        <4>1. f[p] = [out |-> <<>>, left |-> d]
          BY <1>1, <3>2, <3>3, <3>6, TurnShort
        <4>2. f[p].out = <<>> /\ f[p].left = d
          BY <4>1
        <4>3. Bodies(K) \in Seq(Seq(Nat)) /\ <<>> \o Bodies(K) = Bodies(K) /\ <<>> \in Seq(Seq(Nat))
          BY BodiesOf, ConcatEmptySeq
        <4>4. Goes(f[p], K, K, rest)
          BY <2>1, <3>4, <3>6, <4>2, <4>3 DEF Goes
        <4> QED
          BY <4>4
      <3>7. CASE ~ (Len(data) - p + 1 < Len(packet))
        <4> DEFINE q == p + Len(packet)
        <4>1. Len(data) - p + 1 >= Len(packet)
          BY <1>2, <3>5, <3>7
        <4>2. /\ q \in 1..(Len(data) + 1)
              /\ From(q) \o rest = z
              /\ Turn(f, data, p) = [out |-> <<Body(packet)>> \o f[q].out, left |-> f[q].left]
          <5> HIDE DEF packet
          <5>1. GoesOn(f, data, p, p + Len(packet), packet, rest, z)
            BY <3>2, <3>3, <4>1, TurnWhole
          <5> QED
            BY <5>1 DEF GoesOn
        <4>3. Joined(H, From(q) \o rest)
          BY <3>3, <4>2
        <4>4. PICK G : Goes(f[q], H, G, rest)
          BY <1>5, <3>2, <4>2, <4>3
        <4>5. /\ f[p].out = <<Body(packet)>> \o f[q].out
              /\ f[p].left = f[q].left
          <5> DEFINE u == <<Body(packet)>> \o f[q].out
                     w == f[q].left
          <5>1. f[p] = [out |-> u, left |-> w]
            BY <1>1, <4>2
          <5> HIDE DEF u, w
          <5>2. f[p].out = u /\ f[p].left = w
            BY <5>1
          <5> QED
            BY <5>2 DEF u, w
        <4> HIDE DEF q, packet, H
        <4> DEFINE b == <<Body(packet)>>
                   o == f[q].out
        <4>6. /\ b \in Seq(Seq(Nat)) /\ o \in Seq(Seq(Nat)) /\ Bodies(G) \in Seq(Seq(Nat))
          BY <3>5, <4>4, BodiesOf DEF Goes
        <4>7. Bodies(H) = o \o Bodies(G)
          BY <4>4 DEF Goes
        <4> HIDE DEF b, o
        <4>8. (b \o o) \o Bodies(G) = b \o (o \o Bodies(G)) /\ b \o o \in Seq(Seq(Nat))
          <5> DEFINE g == Bodies(G)
          <5> HIDE DEF g
          <5>1. b \in Seq(Seq(Nat)) /\ o \in Seq(Seq(Nat)) /\ g \in Seq(Seq(Nat))
            BY <4>6 DEF g
          <5>2. b \o o \in Seq(Seq(Nat))
            BY <5>1, ConcatProperties
          <5>3. (b \o o) \o g = b \o (o \o g)
            BY <5>1, AssocOfMany, Zenon
          <5> QED
            BY <5>2, <5>3 DEF g
        <4>9. Bodies(K) = f[p].out \o Bodies(G) /\ f[p].out \in Seq(Seq(Nat))
          BY <3>2, <4>5, <4>7, <4>8 DEF b, o
        <4>10. Goes(f[p], K, G, rest)
          BY <4>4, <4>5, <4>9 DEF Goes
        <4> QED
          BY <4>10
      <3> QED
        BY <3>6, <3>7
    <2> QED
      BY <2>1
  <1>6. Len(F) \in T
    <2> HIDE DEF T
    <2>1. Nat \subseteq T
      BY <1>4, <1>5, SetInduction
    <2>2. Len(F) \in Nat
      BY BodiesOf
    <2> QED
      BY <2>1, <2>2
  <1>7. 1 \in 1..(Len(data) + 1) /\ From(1) = data
    BY <1>2, SubSeqFull
  <1>8. \E G : Goes(f[1], F, G, rest)
    <2>1. Joined(F, From(1) \o rest)
      BY <1>7
    <2> QED
      BY <1>6, <1>7, <2>1
  <1> QED
    BY <1>1, <1>8

USE BlocksAssumption, LinkAssumption

-----------------------------------------------------------------------------
(* The inductive invariant *)

TypeOK ==
  /\ conn \in [Sockets -> {"up", "broken", "closed"}]
  /\ left \in [Sockets -> BOOLEAN]
  /\ kernel \in [Sockets -> Seq(Nat)]
  /\ armed \subseteq Sockets
  /\ packets \in Nat
  /\ late \in BOOLEAN /\ spoilt \in BOOLEAN

\* The lists tell where the blocks are; what waits has its event; and blocks are
\* lost only when a closed socket was sent to.
Intact(lists, lost) ==
  /\ Holding(sb, Owners, lists, lost)
  /\ \A s \in Sockets : conn[s] # "closed" /\ lists[At(s)] # <<>> => s \in armed
  /\ ~late => lost = {}
  /\ ~late => \A s \in Sockets : conn[s] = "closed" => lists[At(s)] = <<>>

IInv ==
  /\ TypeOK
  /\ SpoiltByLeftovers
  /\ ~spoilt => \E lists, lost : Intact(lists, lost)

-----------------------------------------------------------------------------
(* Helpers *)

LEMMA PacketBytes ==
  ASSUME NEW n \in Lengths, NEW k \in Nat
  PROVE  /\ Packet(n, k % Base) \in Seq(Nat)
         /\ Len(Packet(n, k % Base)) = n /\ n \in Nat /\ n > 0
  <1>1. n \in Nat /\ n > 2 /\ Base \in Nat /\ Base > 0 /\ Wrap \in Nat /\ Wrap > 0
    <2>1. n \in Nat /\ n \notin 0..2
      OBVIOUS
    <2>2. Base * Base \in Nat /\ Base * Base > 0
      OBVIOUS
    <2> QED
      BY <2>1, <2>2 DEF Wrap
  <1> DEFINE plen == n % Wrap
             a == <<plen % Base, plen \div Base>>
             c == [i \in 1..(n - 2) |-> k % Base]
  <1>2. plen \in Nat /\ k % Base \in Nat
    BY <1>1
  <1> HIDE DEF plen
  <1>3. plen % Base \in Nat /\ plen \div Base \in Nat
    BY <1>1, <1>2
  <1>4. a \in Seq(Nat) /\ Len(a) = 2
    BY <1>3
  <1>5. c \in Seq(Nat) /\ Len(c) = n - 2
    <2> DEFINE m == n - 2
    <2>1. m \in Nat
      BY <1>1
    <2> HIDE DEF m
    <2> QED
      BY <1>2, <2>1
  <1> HIDE DEF a, c
  <1>6. a \o c \in Seq(Nat) /\ Len(a \o c) = Len(a) + Len(c)
    <2>1. a \in Seq(Nat) /\ c \in Seq(Nat)
      BY <1>4, <1>5
    <2> QED
      BY <2>1, ConcatProperties, Zenon
  <1> QED
    BY <1>1, <1>4, <1>5, <1>6 DEF Packet, plen, a, c

\* The operators that follow the chains find the lists.
LEMMA ChainsAreLists ==
  ASSUME NEW lists, NEW lost, Holding(sb, Owners, lists, lost)
  PROVE  /\ \A s \in Owners : ChainOf(sb, s) = lists[At(s)]
         /\ Pooled(sb) = UNION {ToSet(lists[Pool(n)]) : n \in Sizes}
         /\ sb \in State /\ Layout(sb, Owners, lists, lost)
  <1>1. Layout(sb, Owners, lists, lost) /\ sb \in State /\ Owners \subseteq Sockets
    BY DEF Holding, Layout
  <1>2. ASSUME NEW s \in Owners PROVE ChainOf(sb, s) = lists[At(s)]
    <2>1. At(s) \in Place /\ sb.head[s] = FirstOf(lists[At(s)])
      BY <1>1, Places DEF Layout
    <2>2. Chain(sb, FirstOf(lists[At(s)])) = lists[At(s)]
      BY <1>1, <2>1, LayoutOfList
    <2> QED
      BY <2>1, <2>2 DEF ChainOf
  <1>3. ASSUME NEW n \in Sizes PROVE Chain(sb, sb.table[n]) = lists[Pool(n)]
    <2>1. Pool(n) \in Place /\ sb.table[n] = FirstOf(lists[Pool(n)])
      BY <1>1, Places DEF Layout
    <2>2. Chain(sb, FirstOf(lists[Pool(n)])) = lists[Pool(n)]
      BY <1>1, <2>1, LayoutOfList
    <2> QED
      BY <2>1, <2>2
  <1>4. Pooled(sb) = UNION {ToSet(lists[Pool(n)]) : n \in Sizes}
    BY <1>3 DEF Pooled
  <1> QED
    BY <1>1, <1>2, <1>4

\* The block_tail of an owner is its own.
LEMMA OwnTail ==
  ASSUME NEW lists, NEW lost, Holding(sb, Owners, lists, lost), NEW s \in Owners
  PROVE  sb.tail[s] \notin Foreign(s)
  <1> DEFINE c == lists[At(s)]
  <1>1. /\ \A t \in Owners : ChainOf(sb, t) = lists[At(t)]
        /\ Pooled(sb) = UNION {ToSet(lists[Pool(n)]) : n \in Sizes}
        /\ Layout(sb, Owners, lists, lost)
    BY ChainsAreLists
  <1>2. Owners \subseteq Sockets /\ At(s) \in Place /\ sb.tail[s] = LastOf(c)
    BY <1>1, Places DEF Layout
  <1>3. /\ c \in Seq(Blocks)
        /\ \A q \in Place : q # At(s) => ToSet(lists[q]) \cap ToSet(c) = {}
        /\ \A q \in Place : ToSet(lists[q]) \subseteq Blocks
    <2> DEFINE p == At(s)
    <2>1. p \in Place
      BY <1>2
    <2> HIDE DEF p
    <2>2. lists[p] \in Seq(Blocks)
      BY <1>1, <2>1, LayoutOfList
    <2>3. \A q \in Place : q # p => ToSet(lists[q]) \cap ToSet(lists[p]) = {}
      BY <1>1, <2>1 DEF Layout, Structure
    <2>4. \A q \in Place : ToSet(lists[q]) \subseteq Blocks
      BY <1>1, LayoutOfList
    <2> QED
      BY <2>2, <2>3, <2>4 DEF p
  <1>4. LastOf(c) = Nil \/ LastOf(c) \in ToSet(c)
    <2> HIDE DEF c
    <2> QED
      BY <1>3, Members DEF LastOf
  <1>5. \A q \in Place : q # At(s) => sb.tail[s] \notin ToSet(lists[q])
    BY <1>2, <1>3, <1>4
  <1>6. sb.tail[s] \notin Pooled(sb)
    BY <1>1, <1>2, <1>5, Places
  <1>7. \A t \in Owners \ {s} : sb.tail[s] \notin ToSet(ChainOf(sb, t))
    BY <1>1, <1>2, <1>5, Places
  <1> QED
    BY <1>6, <1>7 DEF Foreign

\* A block_tail that is no block of another is in no list.
LEMMA StrayTail ==
  ASSUME NEW lists, NEW lost, Holding(sb, Owners, lists, lost), NEW s \in Sockets \ Owners,
         sb.tail[s] \notin Foreign(s), sb.tail[s] # Nil
  PROVE  sb.tail[s] \in lost \cup sb.unborn
  <1>1. /\ \A t \in Owners : ChainOf(sb, t) = lists[At(t)]
        /\ Pooled(sb) = UNION {ToSet(lists[Pool(n)]) : n \in Sizes}
        /\ Layout(sb, Owners, lists, lost) /\ sb \in State
    BY ChainsAreLists
  <1>2. sb.tail[s] \in Blocks
    BY <1>1 DEF State
  <1>3. \A n \in Sizes : sb.tail[s] \notin ToSet(lists[Pool(n)])
    BY <1>1 DEF Foreign
  <1>4. \A t \in Owners : sb.tail[s] \notin ToSet(lists[At(t)])
    BY <1>1 DEF Foreign
  <1>5. \A t \in Sockets \ Owners : sb.tail[s] \notin ToSet(lists[At(t)])
    BY <1>1, EmptyList DEF Layout
  <1>6. ASSUME NEW p \in Place PROVE sb.tail[s] \notin ToSet(lists[p])
    BY <1>3, <1>4, <1>5 DEF Place
  <1> QED
    BY <1>1, <1>2, <1>6 DEF Layout, Structure
-----------------------------------------------------------------------------
(* Sending *)

\* One turn of the loop in _ev_writable.
SendStep(acc, s) ==
  IF Datalen(acc.st, s) = 0 THEN acc
  ELSE [st  |-> Skipped(acc.st, s, 1),
        out |-> Append(acc.out, acc.st.buf[acc.st.head[s]][acc.st.rptr[acc.st.head[s]] + 1])]

\* Other sockets do not notice.
Others(st, s, lists, lists2) ==
  \A t \in Sockets : t # s =>
    lists2[At(t)] = lists[At(t)] /\ Pieces(st, lists[At(t)]) = Pieces(sb, lists[At(t)])

\* Of what s has left to read the first bytes have gone out.
Passes(st, out, s, lists, lists2) ==
  \A x : Reads(sb, lists[At(s)], x) =>
    \E z : z \in Seq(Nat) /\ x = out \o z /\ Reads(st, lists2[At(s)], z)

\* The loop from a sound state ends in one.
Sound(acc, s, own, lists, lost) ==
  /\ acc.out \in Seq(Nat)
  /\ \E lists2 :
       /\ Holding(acc.st, own, lists2, lost)
       /\ Others(acc.st, s, lists, lists2)
       /\ Passes(acc.st, acc.out, s, lists, lists2)

\* One more byte goes out.
LEMMA PassesOne ==
  ASSUME NEW st, NEW out \in Seq(Nat), NEW own, NEW s \in own, NEW lists, NEW lost, NEW lists1,
         Holding(st, own, lists1, lost), Passes(st, out, s, lists, lists1),
         NEW new, NEW lists2, Holding(new, own, lists2, lost), ReadOne(st, new, s, lists1, lists2),
         NEW v, v = st.buf[st.head[s]][st.rptr[st.head[s]] + 1]
  PROVE  Passes(new, Append(out, v), s, lists, lists2)
  <1> SUFFICES ASSUME NEW x, Reads(sb, lists[At(s)], x)
               PROVE  \E z : z \in Seq(Nat) /\ x = Append(out, v) \o z /\ Reads(new, lists2[At(s)], z)
    BY DEF Passes
  <1>1. PICK y : y \in Seq(Nat) /\ x = out \o y /\ Reads(st, lists1[At(s)], y)
    BY DEF Passes
  <1>2. BeginsWith(y, v, new, lists2[At(s)])
    BY <1>1, ReadOneReads
  <1>3. PICK z : z \in Seq(Nat) /\ y = <<v>> \o z /\ Reads(new, lists2[At(s)], z)
    BY <1>2 DEF BeginsWith
  <1>4. Append(out, v) = out \o <<v>> /\ <<v>> \in Seq(Nat)
    <2>1. v \in Nat
      BY <1>2 DEF BeginsWith
    <2>2. Append(out, v) = out \o <<v>>
      BY <2>1, AppendIsConcat
    <2>3. <<v>> \in Seq(Nat)
      BY <2>1
    <2> QED
      BY <2>2, <2>3, Zenon
  <1>5. (out \o <<v>>) \o z = out \o (<<v>> \o z)
    <2> DEFINE w == <<v>>
    <2> HIDE DEF w
    <2>1. out \in Seq(Nat) /\ w \in Seq(Nat) /\ z \in Seq(Nat)
      BY <1>3, <1>4 DEF w
    <2>2. (out \o w) \o z = out \o (w \o z)
      BY <2>1, Assoc, Zenon
    <2> QED
      BY <2>2 DEF w
  <1>6. x = Append(out, v) \o z
    BY <1>1, <1>3, <1>4, <1>5
  <1> QED
    BY <1>3, <1>6

LEMMA SendStepSound ==
  ASSUME NEW acc, NEW own, NEW s \in own, NEW lists, NEW lost, Sound(acc, s, own, lists, lost)
  PROVE  Sound(SendStep(acc, s), s, own, lists, lost)
  <1> DEFINE st == acc.st
             b == st.head[s]
             new == Skipped(st, s, 1)
             x == st.buf[b][st.rptr[b] + 1]
  <1>1. PICK lists1 : /\ Holding(st, own, lists1, lost)
                      /\ Others(st, s, lists, lists1)
                      /\ Passes(st, acc.out, s, lists, lists1)
    BY DEF Sound
  <1>2. CASE Datalen(st, s) = 0
    BY <1>2 DEF SendStep
  <1>3. CASE Datalen(st, s) # 0
    <2>1. PICK lists2 : /\ Holding(new, own, lists2, lost)
                        /\ ReadOne(st, new, s, lists1, lists2)
      BY <1>1, <1>3, SkippedHolding
    <2>2. Others(new, s, lists, lists2)
      <3> SUFFICES ASSUME NEW t \in Sockets, t # s
                   PROVE  /\ lists2[At(t)] = lists[At(t)]
                          /\ Pieces(new, lists[At(t)]) = Pieces(sb, lists[At(t)])
        BY DEF Others
      <3>1. lists1[At(t)] = lists[At(t)] /\ Pieces(st, lists[At(t)]) = Pieces(sb, lists[At(t)])
        BY <1>1 DEF Others
      <3> HIDE DEF new, st
      <3>2. lists2[At(t)] = lists1[At(t)] /\ Pieces(new, lists1[At(t)]) = Pieces(st, lists1[At(t)])
        BY <1>1, <2>1, ReadOneReadsElsewhere
      <3> QED
        BY <3>1, <3>2
    <2>3. /\ b \in Blocks /\ st.rptr[b] \in Nat /\ Len(st.buf[b]) \in Nat
          /\ st.rptr[b] < Len(st.buf[b])
      BY <1>1, <1>3, DatalenOfList
    <2>4. x \in Nat
      <3>1. st.buf[b] \in Seq(Nat)
        BY <1>1, <2>3 DEF Holding, Layout, State
      <3>2. st.rptr[b] + 1 \in 1..Len(st.buf[b])
        <4>1. \A i, j \in Nat : i < j => i + 1 \in 1..j
          OBVIOUS
        <4> HIDE DEF b, st
        <4> QED
          BY <2>3, <4>1
      <3> HIDE DEF b, st
      <3> QED
        BY <3>1, <3>2, ElementOfSeq
    <2> DEFINE out == acc.out
    <2>5. out \in Seq(Nat)
      BY DEF Sound
    <2>6. SendStep(acc, s) = [st |-> new, out |-> Append(out, x)]
      BY <1>3 DEF SendStep
    <2>7. Passes(new, Append(out, x), s, lists, lists2)
      <3>1. x = st.buf[st.head[s]][st.rptr[st.head[s]] + 1]
        OBVIOUS
      <3>2. Holding(st, own, lists1, lost) /\ Passes(st, out, s, lists, lists1)
        BY <1>1
      <3> HIDE DEF x, new, st, out
      <3> QED
        BY <2>1, <2>5, <3>1, <3>2, PassesOne
    <2> HIDE DEF x, new, out
    <2>8. Append(out, x) \in Seq(Nat)
      BY <2>4, <2>5, AppendProperties
    <2> QED
      BY <2>1, <2>2, <2>6, <2>7, <2>8 DEF Sound
  <1> QED
    BY <1>2, <1>3

LEMMA SendingSound ==
  ASSUME NEW s, NEW n \in Nat, NEW own, s \in own, NEW lists, NEW lost,
         Holding(sb, own, lists, lost)
  PROVE  Sound(Sending(s, n), s, own, lists, lost)
  <1> DEFINE D == {acc \in [st : State, out : Seq(Nat)] : Sound(acc, s, own, lists, lost)}
             base == [st |-> sb, out |-> <<>>]
             Turns(f) == [k \in 0..n |-> IF k = 0 THEN base ELSE SendStep(f[k - 1], s)]
             after == CHOOSE f : f = Turns(f)
             step == [q \in (1..n) \X D |-> SendStep(q[2], s)]
  <1>1. Sending(s, n) = after[n]
    BY DEF Sending, SendStep
  <1>2. base \in D
    <2>1. sb \in State
      BY DEF Holding, Layout
    <2>2. base.st = sb /\ base.out = <<>> /\ <<>> \in Seq(Nat)
      OBVIOUS
    <2>3. base \in [st : State, out : Seq(Nat)]
      BY <2>1, <2>2
    <2> HIDE DEF base
    <2>4. Others(sb, s, lists, lists)
      BY DEF Others
    <2>5. Passes(sb, <<>>, s, lists, lists)
      <3> SUFFICES ASSUME NEW x, Reads(sb, lists[At(s)], x)
                   PROVE  x \in Seq(Nat) /\ x = <<>> \o x
        BY DEF Passes
      <3>1. x \in Seq(Nat)
        BY JoinedType DEF Reads
      <3> QED
        BY <3>1, ConcatEmptySeq
    <2>6. Sound(base, s, own, lists, lost)
      BY <2>2, <2>4, <2>5 DEF Sound
    <2> QED
      BY <2>3, <2>6
  <1>3. ASSUME NEW acc \in D PROVE SendStep(acc, s) \in D
    <2>1. Sound(SendStep(acc, s), s, own, lists, lost)
      BY <1>3, SendStepSound
    <2>2. SendStep(acc, s) = acc \/ \E a, o : SendStep(acc, s) = [st |-> a, out |-> o]
      BY DEF SendStep
    <2>3. SendStep(acc, s).st \in State /\ SendStep(acc, s).out \in Seq(Nat)
      BY <2>1 DEF Sound, Holding, Layout
    <2>4. SendStep(acc, s) \in [st : State, out : Seq(Nat)]
      BY <1>3, <2>2, <2>3
    <2> QED
      BY <2>1, <2>4
  <1> HIDE DEF D, base
  <1>4. IsStep(step, n, D)
    BY <1>3 DEF IsStep
  <1>5. PICK g : Follows(g, base, step, n, D)
    <2> HIDE DEF step
    <2> QED
      BY <1>2, <1>4, RecursionExists
  <1>6. g = Turns(g)
    <2>1. g \in [0..n -> D] /\ g[0] = base
      BY <1>5 DEF Follows
    <2>2. ASSUME NEW k \in 0..n, k # 0 PROVE g[k] = SendStep(g[k - 1], s)
      <3>1. k \in 1..n /\ k - 1 \in 0..n
        BY <2>2
      <3>2. g[k] = step[<<k, g[k - 1]>>] /\ g[k - 1] \in D
        BY <1>5, <3>1 DEF Follows
      <3>3. <<k, g[k - 1]>> \in (1..n) \X D
        BY <3>1, <3>2
      <3> QED
        BY <3>2, <3>3
    <2> QED
      BY <2>1, <2>2
  <1>7. after = Turns(after)
    <2> HIDE DEF Turns
    <2> QED
      BY <1>6
  <1> DEFINE T == {k \in 0..n : after[k] \in D}
  <1>8. \A k \in 0..n : after[k] = IF k = 0 THEN base ELSE SendStep(after[k - 1], s)
    <2> HIDE DEF after
    <2> QED
      BY <1>7
  <1> HIDE DEF after
  <1>9. 0 \in T
    BY <1>2, <1>8
  <1>10. ASSUME NEW k \in 0..n, k \in T, k < n PROVE k + 1 \in T
    <2>1. k + 1 \in 0..n /\ k + 1 # 0 /\ (k + 1) - 1 = k
      BY <1>10
    <2>2. after[k + 1] = SendStep(after[k], s)
      BY <1>8, <2>1
    <2> QED
      BY <1>3, <1>10, <2>1, <2>2
  <1>11. n \in T
    <2> HIDE DEF T
    <2>1. 0..n \subseteq T
      BY <1>9, <1>10, BoundedInduction
    <2> QED
      BY <2>1
  <1> QED
    BY <1>1, <1>11 DEF D

-----------------------------------------------------------------------------
(* The actions keep the invariant *)

\* Nothing that the invariant is about changes.
LEMMA IntactUnchanged ==
  ASSUME NEW lists, NEW lost, Intact(lists, lost), sb' = sb, conn' = conn, left' = left,
         armed' = armed, late' = late
  PROVE  Intact(lists, lost)'
  BY DEF Intact, Owners

\* A send on a socket whose block_head and block_tail are its own.
LEMMA EnqueueAsOwner ==
  ASSUME TypeOK, NEW lists, NEW lost, Intact(lists, lost), ~spoilt,
         NEW s \in Owners, NEW n \in Lengths, Enqueue(s, n), CanAlloc(sb, s, n)
  PROVE  ~spoilt' /\ \E l, m : Intact(l, m)'
  <1> DEFINE packet == Packet(n, packets % Base)
             new == Stored(sb, s, packet)
  <1>1. /\ Holding(sb, Owners, lists, lost) /\ Owners \subseteq Sockets
        /\ \A t \in Sockets : conn[t] # "closed" /\ lists[At(t)] # <<>> => t \in armed
        /\ ~late => lost = {}
        /\ ~late => \A t \in Sockets : conn[t] = "closed" => lists[At(t)] = <<>>
    BY DEF Intact, Owners
  <1>2. packet \in Seq(Nat) /\ Len(packet) = n /\ n \in Nat /\ n > 0
    BY PacketBytes DEF TypeOK
  <1>3. /\ sb' = new /\ armed' = IF conn[s] = "closed" THEN armed ELSE armed \cup {s}
        /\ late' = (late \/ conn[s] = "closed") /\ spoilt' = (spoilt \/ sb.tail[s] \in Foreign(s))
        /\ conn' = conn /\ left' = left
    BY DEF Enqueue
  <1>4. ~spoilt'
    BY <1>1, <1>3, OwnTail
  <1> HIDE DEF packet
  <1>5. PICK lists2 : /\ Holding(new, Owners, lists2, lost)
                      /\ StoredIn(sb, new, s, packet, lists, lists2)
                      /\ lists2[At(s)] # <<>>
    BY <1>1, <1>2, StoredLayout, SMTT(60)
  <1> HIDE DEF new
  <1>6. \A t \in Sockets : t # s => lists2[At(t)] = lists[At(t)]
    BY <1>5 DEF StoredIn
  <1>7. Owners' = Owners
    BY <1>3 DEF Owners
  <1>8. Intact(lists2, lost)'
    BY <1>1, <1>3, <1>5, <1>6, <1>7 DEF Intact
  <1> QED
    BY <1>4, <1>8

\* A send on a socket that was closed with something left to send.
LEMMA EnqueueAsStranger ==
  ASSUME TypeOK, NEW lists, NEW lost, Intact(lists, lost), ~spoilt,
         NEW s \in Sockets \ Owners, NEW n \in Lengths, Enqueue(s, n), CanAlloc(sb, s, n)
  PROVE  spoilt' \/ \E l, m : Intact(l, m)'
  <1> DEFINE packet == Packet(n, packets % Base)
             new == Stored(sb, s, packet)
  <1>1. /\ Holding(sb, Owners, lists, lost)
        /\ \A t \in Sockets : conn[t] # "closed" /\ lists[At(t)] # <<>> => t \in armed
    BY DEF Intact
  <1>2. packet \in Seq(Nat) /\ Len(packet) = n
    BY PacketBytes DEF TypeOK
  <1>3. /\ sb' = new /\ conn[s] = "closed" /\ armed' = armed /\ late' = TRUE
        /\ spoilt' = (spoilt \/ sb.tail[s] \in Foreign(s))
        /\ conn' = conn /\ left' = left
    BY DEF Enqueue, Owners
  <1> HIDE DEF packet
  <1>4. SUFFICES ASSUME sb.tail[s] \notin Foreign(s) PROVE \E l, m : Intact(l, m)'
    BY <1>3
  <1>5. sb.tail[s] # Nil => sb.tail[s] \in lost \cup sb.unborn
    BY <1>1, <1>4, StrayTail
  <1>6. PICK lists2, lost2 :
          \E b \in Blocks : /\ Holding(new, Owners, lists2, lost2)
                            /\ \A t \in Sockets : lists2[At(t)] = lists[At(t)] /\ b \notin ToSet(lists[At(t)])
    BY <1>1, <1>2, <1>5, StoredElsewhere
  <1> HIDE DEF new
  <1>7. Owners' = Owners
    BY <1>3 DEF Owners
  <1>8. Intact(lists2, lost2)'
    BY <1>1, <1>3, <1>6, <1>7 DEF Intact
  <1> QED
    BY <1>8

LEMMA EnqueueKeeps ==
  ASSUME IInv, ~spoilt, NEW s \in Sockets, NEW n \in Lengths, Enqueue(s, n),
         s \in Careless \/ conn[s] # "closed"
  PROVE  IInv'
  <1>1. PICK lists, lost : Intact(lists, lost)
    BY DEF IInv
  <1>2. TypeOK'
    <2>1. CASE CanAlloc(sb, s, n)
      BY <2>1 DEF IInv, TypeOK, Enqueue, wire
    <2>2. CASE ~CanAlloc(sb, s, n)
      BY <2>2 DEF IInv, TypeOK, Enqueue, wire
    <2> QED
      BY <2>1, <2>2
  <1>3. CASE ~CanAlloc(sb, s, n)
    <2>1. UNCHANGED <<sb, conn, left, armed, late, spoilt>>
      BY <1>3 DEF Enqueue
    <2>2. Intact(lists, lost)'
      BY <1>1, <2>1, IntactUnchanged
    <2> QED
      BY <1>2, <2>1, <2>2 DEF IInv, SpoiltByLeftovers
  <1>4. CASE CanAlloc(sb, s, n) /\ s \in Owners
    <2>1. ~spoilt' /\ \E l, m : Intact(l, m)'
      BY <1>1, <1>4, EnqueueAsOwner DEF IInv
    <2> QED
      BY <1>2, <2>1 DEF IInv, SpoiltByLeftovers
  <1>5. CASE CanAlloc(sb, s, n) /\ s \notin Owners
    <2>1. spoilt' \/ \E l, m : Intact(l, m)'
      BY <1>1, <1>5, EnqueueAsStranger DEF IInv
    <2>2. conn[s] = "closed" /\ left[s] /\ s \in Careless /\ conn' = conn /\ left' = left
      BY <1>5 DEF Owners, Enqueue
    <2> QED
      BY <1>2, <2>1, <2>2 DEF IInv, SpoiltByLeftovers
  <1> QED
    BY <1>3, <1>4, <1>5

LEMMA RealCloseKeeps ==
  ASSUME IInv, ~spoilt, NEW s \in Sockets, conn[s] # "closed", RealClose(s),
         UNCHANGED <<packets, late, spoilt>>, kernel' \in [Sockets -> Seq(Nat)]
  PROVE  IInv'
  <1>1. PICK lists, lost : Intact(lists, lost)
    BY DEF IInv
  <1>2. /\ Holding(sb, Owners, lists, lost) /\ s \in Owners
        /\ \A t \in Sockets : conn[t] # "closed" /\ lists[At(t)] # <<>> => t \in armed
        /\ ~late => lost = {}
        /\ ~late => \A t \in Sockets : conn[t] = "closed" => lists[At(t)] = <<>>
    BY <1>1 DEF Intact, Owners
  <1>3. /\ sb' = Freed(sb, s) /\ left' = [left EXCEPT ![s] = sb.head[s] # Nil]
        /\ conn' = [conn EXCEPT ![s] = "closed"] /\ armed' = armed \ {s}
    BY DEF RealClose
  <1>4. TypeOK'
    BY <1>3 DEF IInv, TypeOK
  <1>5. PICK lists2 : /\ Holding(sb', Owners \ {s}, lists2, lost)
                      /\ SameBytes(sb', sb)
                      /\ \A t \in Sockets : lists2[At(t)] = IF t = s THEN <<>> ELSE lists[At(t)]
    <2>1. HoldsBut(Freed(sb, s), Owners \ {s}, lists, lost, s)
      BY <1>2, FreedHolding
    <2>2. SameBytes(Freed(sb, s), sb)
      BY <1>2, <2>1, FreedHolding
    <2> QED
      BY <1>3, <2>1, <2>2 DEF HoldsBut
  <1>6. /\ conn'[s] = "closed" /\ left'[s] = (sb.head[s] # Nil)
        /\ \A t \in Sockets : t # s => conn'[t] = conn[t] /\ left'[t] = left[t]
    BY <1>3 DEF IInv, TypeOK
  <1>7. Holding(sb', Owners', lists2, lost)
    <2>1. CASE sb.head[s] # Nil
      <3>1. Owners' = Owners \ {s}
        BY <1>6, <2>1 DEF Owners
      <3> QED
        BY <1>5, <3>1
    <2>2. CASE sb.head[s] = Nil
      <3>1. Owners' = Owners
        BY <1>2, <1>6, <2>2 DEF Owners
      <3>2. Layout(sb, Owners, lists, lost) /\ At(s) \in Place
        BY <1>2, Places DEF Holding
      <3>3. lists[At(s)] = <<>>
        <4>1. lists[At(s)] \in Seq(Blocks) /\ FirstOf(lists[At(s)]) = Nil
          <5>1. lists[At(s)] \in Seq(Blocks)
            BY <3>2, LayoutOfList
          <5> QED
            BY <1>2, <2>2, <3>2, <5>1 DEF Layout
        <4> DEFINE c == lists[At(s)]
        <4> HIDE DEF c
        <4>2. c \in Seq(Blocks) /\ FirstOf(c) = Nil
          BY <4>1 DEF c
        <4>3. c = <<>>
          BY <4>2, Members DEF FirstOf
        <4> QED
          BY <4>3 DEF c
      <3>4. sb.tail[s] = Nil
        BY <1>2, <3>2, <3>3, EmptyList DEF Layout
      <3>5. sb'.head = sb.head /\ sb'.tail = sb.tail
        BY <1>5 DEF SameBytes
      <3>6. Layout(sb', Owners, lists2, lost)
        <4>1. Layout(sb', Owners \ {s}, lists2, lost)
          BY <1>5 DEF Holding
        <4>2. sb'.head[s] = FirstOf(lists2[At(s)]) /\ sb'.tail[s] = LastOf(lists2[At(s)])
          BY <1>5, <2>2, <3>4, <3>5, EmptyList
        <4>3. Owners \subseteq Sockets
          BY DEF Owners
        <4> QED
          BY <4>1, <4>2, <4>3 DEF Layout
      <3> QED
        BY <1>5, <3>1, <3>6 DEF Holding
    <2> QED
      BY <2>1, <2>2
  <1>8. Intact(lists2, lost)'
    BY <1>2, <1>3, <1>5, <1>6, <1>7 DEF Intact
  <1> QED
    BY <1>4, <1>8 DEF IInv, SpoiltByLeftovers

LEMMA ConnectKeeps ==
  ASSUME IInv, ~spoilt, NEW s \in Sockets, Connect(s)
  PROVE  IInv'
  <1>1. PICK lists, lost : Intact(lists, lost)
    BY DEF IInv
  <1>2. /\ Holding(sb, Owners, lists, lost)
        /\ \A t \in Sockets : conn[t] # "closed" /\ lists[At(t)] # <<>> => t \in armed
        /\ ~late => lost = {}
        /\ ~late => \A t \in Sockets : conn[t] = "closed" => lists[At(t)] = <<>>
    BY <1>1 DEF Intact
  <1>3. /\ sb' = Created(sb, s) /\ left' = [left EXCEPT ![s] = FALSE]
        /\ conn' = [conn EXCEPT ![s] = "up"] /\ armed' = armed /\ conn[s] = "closed"
        /\ UNCHANGED <<packets, late, spoilt, kernel>>
    BY DEF Connect
  <1>4. TypeOK'
    BY <1>3 DEF IInv, TypeOK
  <1>5. PICK lists2 : /\ Holding(sb', Owners \cup {s}, lists2, lost \cup ToSet(lists[At(s)]))
                      /\ \A t \in Sockets : lists2[At(t)] = IF t = s THEN <<>> ELSE lists[At(t)]
    <2>1. HoldsBut(Created(sb, s), Owners \cup {s}, lists, lost \cup ToSet(lists[At(s)]), s)
      BY <1>2, CreatedHolding
    <2> QED
      BY <1>3, <2>1 DEF HoldsBut
  <1>6. /\ conn'[s] = "up"
        /\ \A t \in Sockets : t # s => conn'[t] = conn[t] /\ left'[t] = left[t]
    BY <1>3 DEF IInv, TypeOK
  <1>7. Owners' = Owners \cup {s}
    BY <1>6 DEF Owners
  <1>8. ~late => lost \cup ToSet(lists[At(s)]) = {}
    BY <1>2, <1>3, EmptyList
  <1> DEFINE lost2 == lost \cup ToSet(lists[At(s)])
  <1>9. Holding(sb', Owners', lists2, lost2) /\ (~late => lost2 = {})
    BY <1>5, <1>7, <1>8
  <1> HIDE DEF lost2
  <1>10. Intact(lists2, lost2)'
    BY <1>2, <1>3, <1>5, <1>6, <1>9 DEF Intact
  <1> QED
    BY <1>3, <1>4, <1>10 DEF IInv, SpoiltByLeftovers

LEMMA WritableKeeps ==
  ASSUME IInv, ~spoilt, NEW s \in Sockets, Writable(s)
  PROVE  IInv'
  <1>1. PICK lists, lost : Intact(lists, lost)
    BY DEF IInv
  <1>2. /\ Holding(sb, Owners, lists, lost)
        /\ \A t \in Sockets : conn[t] # "closed" /\ lists[At(t)] # <<>> => t \in armed
        /\ ~late => lost = {}
        /\ ~late => \A t \in Sockets : conn[t] = "closed" => lists[At(t)] = <<>>
    BY <1>1 DEF Intact
  <1>3. UNCHANGED <<packets, late, spoilt>>
    BY DEF Writable
  <1>4. CASE conn[s] = "up" /\ Len(kernel[s]) < KernelSize
    <2>1. PICK n \in 0..(KernelSize - Len(kernel[s])) :
            /\ sb' = Sending(s, n).st
            /\ kernel' = [kernel EXCEPT ![s] = @ \o Sending(s, n).out]
            /\ armed' = IF Drained(Sending(s, n).st, s) THEN armed \ {s} ELSE armed
            /\ UNCHANGED <<conn, left>>
      BY <1>4 DEF Writable
    <2>2. n \in Nat /\ s \in Owners
      BY <1>4 DEF Owners
    <2>3. Sound(Sending(s, n), s, Owners, lists, lost)
      BY <1>2, <2>2, SendingSound
    <2>4. PICK lists2 : /\ Holding(sb', Owners, lists2, lost)
                        /\ \A t \in Sockets : t # s => lists2[At(t)] = lists[At(t)]
      BY <2>1, <2>3 DEF Sound, Others
    <2>5. TypeOK'
      <3>1. kernel[s] \in Seq(Nat) /\ Sending(s, n).out \in Seq(Nat)
        BY <2>3 DEF Sound, IInv, TypeOK
      <3>2. kernel[s] \o Sending(s, n).out \in Seq(Nat)
        BY <3>1, ConcatProperties
      <3> QED
        BY <1>3, <2>1, <3>2 DEF IInv, TypeOK
    <2>6. Drained(sb', s) <=> lists2[At(s)] = <<>>
      BY <2>2, <2>4, DatalenOfList DEF Drained
    <2>7. Owners' = Owners
      BY <2>1 DEF Owners
    <2>8. \A t \in Sockets : conn'[t] # "closed" /\ lists2[At(t)] # <<>> => t \in armed'
      <3>1. lists2[At(s)] # <<>> => armed' = armed
        BY <2>1, <2>6
      <3>2. s \in armed
        BY DEF Writable
      <3>3. \A t \in Sockets : t # s => (t \in armed <=> t \in armed')
        BY <2>1
      <3> QED
        BY <1>2, <2>1, <2>4, <3>1, <3>2, <3>3
    <2>9. Intact(lists2, lost)'
      <3>1. s \in Sockets /\ conn[s] # "closed" /\ conn' = conn
        BY <1>4, <2>1
      <3> QED
        BY <1>2, <1>3, <2>4, <2>7, <2>8, <3>1 DEF Intact
    <2> QED
      BY <1>3, <2>5, <2>9 DEF IInv, SpoiltByLeftovers
  <1>5. CASE conn[s] = "broken" /\ Datalen(sb, s) > 0
    <2>1. Datalen(sb, s) # 0
      BY <1>5
    <2>2. RealClose(s) /\ UNCHANGED kernel
      BY <1>5, <2>1 DEF Writable
    <2> QED
      BY <1>3, <1>5, <2>2, RealCloseKeeps DEF IInv, TypeOK
  <1>6. CASE conn[s] = "broken" /\ ~(Datalen(sb, s) > 0)
    <2>1. s \in Owners
      BY <1>6 DEF Owners
    <2>2. lists[At(s)] = <<>>
      <3>1. Datalen(sb, s) \in Nat /\ (Datalen(sb, s) = 0 <=> lists[At(s)] = <<>>)
        BY <1>2, <2>1, DatalenOfList
      <3> QED
        BY <1>6, <3>1
    <2>3. armed' = armed \ {s} /\ UNCHANGED <<sb, conn, kernel, left>>
      BY <1>6 DEF Writable
    <2>4. TypeOK'
      BY <1>3, <2>3 DEF IInv, TypeOK
    <2>5. Owners' = Owners
      BY <2>3 DEF Owners
    <2>6. Intact(lists, lost)'
      BY <1>2, <1>3, <2>2, <2>3, <2>5 DEF Intact
    <2> QED
      BY <1>3, <2>4, <2>6 DEF IInv, SpoiltByLeftovers
  <1> QED
    BY <1>4, <1>5, <1>6 DEF Writable

LEMMA ReadableKeeps ==
  ASSUME IInv, ~spoilt, NEW s \in Sockets, Readable(s)
  PROVE  IInv'
  <1>1. PICK lists, lost : Intact(lists, lost)
    BY DEF IInv
  <1>2. UNCHANGED <<sb, armed, packets, left, late, spoilt>> /\ conn[s] = "up"
    BY DEF Readable, ghosts
  <1>3. kernel[s] \in Seq(Nat) /\ Len(kernel[s]) \in Nat
    BY LenProperties DEF IInv, TypeOK
  <1>4. TypeOK' /\ \A t \in Sockets : conn'[t] # "closed" <=> conn[t] # "closed"
    <2>1. CASE RecvSize[s] - Len(rbuf[s]) = 0
      <3>1. Torn(s)
        BY <2>1 DEF Readable
      <3> QED
        BY <1>2, <3>1 DEF Torn, IInv, TypeOK
    <2>2. CASE RecvSize[s] - Len(rbuf[s]) # 0
      <3>1. PICK n \in 1..Min({RecvSize[s] - Len(rbuf[s]), Len(kernel[s])}) :
              kernel' = [kernel EXCEPT ![s] = SubSeq(@, n + 1, Len(@))] /\ conn' = conn
        BY <2>2 DEF Readable
      <3>2. SubSeq(kernel[s], n + 1, Len(kernel[s])) \in Seq(Nat)
        <4>1. n + 1 \in Nat /\ n + 1 >= 1
          OBVIOUS
        <4>2. \A i \in (n + 1)..Len(kernel[s]) : i \in 1..Len(kernel[s])
          BY <1>3, <4>1
        <4>3. \A i \in 1..Len(kernel[s]) : kernel[s][i] \in Nat
          BY <1>3, ElementOfSeq
        <4> QED
          BY <1>3, <4>1, <4>2, <4>3, SubSeqProperties
      <3> QED
        BY <1>2, <3>1, <3>2 DEF IInv, TypeOK
    <2> QED
      BY <2>1, <2>2
  <1>5. Intact(lists, lost)'
    <2>1. Owners' = Owners
      BY <1>2, <1>4 DEF Owners
    <2>2. \A t \in Sockets : conn'[t] = "closed" <=> conn[t] = "closed"
      BY <1>4
    <2> QED
      BY <1>1, <1>2, <2>1, <2>2 DEF Intact
  <1> QED
    BY <1>2, <1>4, <1>5 DEF IInv, SpoiltByLeftovers

LEMMA BreakKeeps ==
  ASSUME IInv, ~spoilt, NEW s \in Sockets, Break(s)
  PROVE  IInv'
  <1>1. PICK lists, lost : Intact(lists, lost)
    BY DEF IInv
  <1>2. UNCHANGED <<sb, armed, packets, left, late, spoilt>> /\ conn[s] = "up" /\ Torn(s)
    BY DEF Break, ghosts
  <1>3. TypeOK' /\ \A t \in Sockets : conn'[t] = "closed" <=> conn[t] = "closed"
    BY <1>2 DEF Torn, IInv, TypeOK
  <1>4. Owners' = Owners
    BY <1>2, <1>3 DEF Owners
  <1>5. Intact(lists, lost)'
    BY <1>1, <1>2, <1>3, <1>4 DEF Intact
  <1> QED
    BY <1>2, <1>3, <1>5 DEF IInv, SpoiltByLeftovers
-----------------------------------------------------------------------------
(* The invariant and what follows from it *)

LEMMA InitGivesIInv == Init => IInv
  <1> SUFFICES ASSUME Init PROVE IInv
    OBVIOUS
  <1>1. TypeOK
    <2>1. <<>> \in Seq(Nat)
      OBVIOUS
    <2> QED
      BY <2>1 DEF Init, TypeOK
  <1>2. Owners = Sockets
    BY DEF Init, Owners
  <1>3. Holding(sb, Owners, [p \in Place |-> <<>>], {})
    BY <1>2, NoBuffersHolding DEF Init
  <1>4. Intact([p \in Place |-> <<>>], {})
    BY <1>3, Places DEF Init, Intact
  <1> QED
    BY <1>1, <1>4 DEF Init, IInv, SpoiltByLeftovers

LEMMA StepKeepsIInv == IInv /\ [Next]_vars => IInv'
  <1> SUFFICES ASSUME IInv, [Next]_vars PROVE IInv'
    OBVIOUS
  <1>1. CASE UNCHANGED vars
    <2>1. UNCHANGED <<sb, conn, left, armed, late, spoilt, kernel, packets>>
      BY <1>1 DEF vars, wire, ghosts
    <2>2. TypeOK' /\ SpoiltByLeftovers'
      BY <2>1 DEF IInv, TypeOK, SpoiltByLeftovers
    <2>3. ASSUME ~spoilt PROVE \E lists, lost : Intact(lists, lost)'
      BY <2>1, <2>3, IntactUnchanged DEF IInv
    <2> QED
      BY <2>1, <2>2, <2>3 DEF IInv
  <1>2. ASSUME NEW s \in Sockets, NEW n \in Lengths, ~spoilt, SendToGate(s, n) PROVE IInv'
    BY <1>2, EnqueueKeeps DEF SendToGate
  <1>3. ASSUME NEW s \in Sockets, NEW n \in Lengths, ~spoilt, Post(s, n) PROVE IInv'
    BY <1>3, EnqueueKeeps DEF Post
  <1>4. ASSUME NEW s \in Sockets, ~spoilt, Writable(s) PROVE IInv'
    BY <1>4, WritableKeeps
  <1>5. ASSUME NEW s \in Sockets, ~spoilt, Lost(s) PROVE IInv'
    <2>1. RealClose(s) /\ conn[s] # "closed" /\ UNCHANGED <<packets, late, spoilt, kernel>>
      BY <1>5 DEF Lost, wire
    <2> QED
      BY <1>5, <2>1, RealCloseKeeps DEF IInv, TypeOK
  <1>6. ASSUME NEW s \in Sockets, ~spoilt, Connect(s) PROVE IInv'
    BY <1>6, ConnectKeeps
  <1>7. ASSUME NEW s \in Sockets, ~spoilt, Readable(s) PROVE IInv'
    BY <1>7, ReadableKeeps
  <1>8. ASSUME NEW s \in Sockets, ~spoilt, Break(s) PROVE IInv'
    BY <1>8, BreakKeeps
  <1> QED
    BY <1>1, <1>2, <1>3, <1>4, <1>5, <1>6, <1>7, <1>8 DEF Next

\* The inductive invariant of the links.
THEOREM LinkInvariantHolds == Spec => []IInv
  <1>1. Init => IInv
    BY InitGivesIInv
  <1>2. IInv /\ [Next]_vars => IInv'
    BY StepKeepsIInv
  <1> QED
    BY <1>1, <1>2, PTL DEF Spec

LEMMA IInvGivesOneOwner == IInv => OneOwner
  <1> SUFFICES ASSUME IInv, ~spoilt PROVE OneOwner
    BY DEF OneOwner
  <1>1. PICK lists, lost : Intact(lists, lost)
    BY DEF IInv
  <1>2. Holding(sb, Owners, lists, lost) /\ InBounds(sb)
    BY <1>1 DEF Intact, Holding
  <1>3. /\ \A s \in Owners : ChainOf(sb, s) = lists[At(s)]
        /\ Pooled(sb) = UNION {ToSet(lists[Pool(n)]) : n \in Sizes}
        /\ Layout(sb, Owners, lists, lost)
    BY <1>2, ChainsAreLists
  <1>4. Owners \subseteq Sockets
    BY DEF Owners
  <1>5. Pooled(sb) \cap sb.unborn = {}
    <2>1. \A n \in Sizes : ToSet(lists[Pool(n)]) \cap sb.unborn = {}
      BY <1>3, Places, LayoutOfList
    <2> QED
      BY <1>3, <2>1
  <1>6. ASSUME NEW s \in Owners
        PROVE  /\ IsInjective(ChainOf(sb, s))
               /\ sb.tail[s] = IF ChainOf(sb, s) = <<>> THEN Nil ELSE Last(ChainOf(sb, s))
               /\ ToSet(ChainOf(sb, s)) \cap (Pooled(sb) \cup sb.unborn) = {}
               /\ \A t \in Owners \ {s} : ToSet(ChainOf(sb, s)) \cap ToSet(ChainOf(sb, t)) = {}
    <2> DEFINE c == lists[At(s)]
    <2>1. ChainOf(sb, s) = c /\ At(s) \in Place
      BY <1>3, <1>4, Places
    <2>2. /\ List(sb.next, c) /\ c \in Seq(Blocks)
          /\ ToSet(c) \cap (sb.unborn \cup lost) = {}
          /\ \A q \in Place : q # At(s) => ToSet(lists[q]) \cap ToSet(c) = {}
      <3> DEFINE p == At(s)
      <3>1. p \in Place
        BY <2>1
      <3> HIDE DEF p
      <3>2. /\ List(sb.next, lists[p]) /\ lists[p] \in Seq(Blocks)
            /\ ToSet(lists[p]) \cap (sb.unborn \cup lost) = {}
            /\ \A q \in Place : q # p => ToSet(lists[q]) \cap ToSet(lists[p]) = {}
        BY <1>3, <3>1, LayoutOfList, ZenonT(60)
      <3> QED
        BY <3>2 DEF p
    <2>3. IsInjective(c)
      <3>1. DOMAIN c = 1..Len(c)
        BY <2>2, LenProperties
      <3> QED
        BY <2>2, <3>1 DEF List, IsInjective
    <2>4. sb.tail[s] = IF c = <<>> THEN Nil ELSE Last(c)
      BY <1>3 DEF Layout, LastOf, Last
    <2>5. \A n \in Sizes : ToSet(lists[Pool(n)]) \cap ToSet(c) = {}
      BY <1>4, <2>2, Places
    <2>6. ToSet(c) \cap (Pooled(sb) \cup sb.unborn) = {}
      BY <1>3, <2>2, <2>5
    <2>7. \A t \in Owners \ {s} : ToSet(c) \cap ToSet(ChainOf(sb, t)) = {}
      <3>1. \A t \in Owners \ {s} : At(t) \in Place /\ At(t) # At(s)
        BY <1>4, Places
      <3> QED
        BY <1>3, <2>2, <3>1
    <2> QED
      BY <2>1, <2>3, <2>4, <2>6, <2>7
  <1> QED
    BY <1>2, <1>5, <1>6 DEF OneOwner, InBounds

LEMMA IInvGivesNoLeak == IInv => NoLeak
  <1> SUFFICES ASSUME IInv, ~spoilt, ~late
               PROVE  Blocks = (UNION {ToSet(ChainOf(sb, s)) : s \in Owners}) \cup Pooled(sb) \cup sb.unborn
    BY DEF NoLeak
  <1>1. PICK lists, lost : Intact(lists, lost)
    BY DEF IInv
  <1>2. Holding(sb, Owners, lists, lost) /\ lost = {}
    BY <1>1 DEF Intact
  <1>3. /\ \A s \in Owners : ChainOf(sb, s) = lists[At(s)]
        /\ Pooled(sb) = UNION {ToSet(lists[Pool(n)]) : n \in Sizes}
        /\ Layout(sb, Owners, lists, lost)
    BY <1>2, ChainsAreLists
  <1>4. Owners \subseteq Sockets /\ \A s \in Sockets \ Owners : ToSet(lists[At(s)]) = {}
    BY <1>3, EmptyList DEF Layout
  <1>5. /\ \A b \in Blocks : b \in sb.unborn \/ \E p \in Place : b \in ToSet(lists[p])
        /\ sb.unborn \subseteq Blocks
    BY <1>2, <1>3 DEF Layout, Structure
  <1>6. \A p \in Place : ToSet(lists[p]) \subseteq Blocks
    BY <1>3, LayoutOfList
  <1> DEFINE Chained == UNION {ToSet(ChainOf(sb, s)) : s \in Owners}
  <1>7. ASSUME NEW b \in Blocks, b \notin sb.unborn PROVE b \in Chained \cup Pooled(sb)
    <2>1. PICK p \in Place : b \in ToSet(lists[p])
      BY <1>5, <1>7
    <2>2. CASE \E s \in Sockets : p = At(s)
      BY <2>1, <2>2, <1>3, <1>4
    <2>3. CASE \E n \in Sizes : p = Pool(n)
      BY <2>1, <2>3, <1>3
    <2> QED
      BY <2>2, <2>3 DEF Place
  <1>8. Chained \subseteq Blocks
    BY <1>3, <1>4, <1>6, Places
  <1>9. Pooled(sb) \subseteq Blocks
    BY <1>3, <1>6, Places
  <1> HIDE DEF Chained
  <1>11. Blocks = Chained \cup Pooled(sb) \cup sb.unborn
    BY <1>5, <1>7, <1>8, <1>9
  <1> QED
    BY <1>11 DEF Chained

LEMMA IInvGivesPendingIsArmed == IInv => PendingIsArmed
  <1> SUFFICES ASSUME IInv, ~spoilt, NEW s \in Sockets, conn[s] # "closed", Unsent(sb, s) # <<>>
               PROVE  s \in armed /\ Datalen(sb, s) > 0
    BY DEF PendingIsArmed
  <1>1. PICK lists, lost : Intact(lists, lost)
    BY DEF IInv
  <1>2. Holding(sb, Owners, lists, lost) /\ s \in Owners
    BY <1>1 DEF Intact, Owners
  <1>3. ChainOf(sb, s) = lists[At(s)]
    BY <1>2, ChainsAreLists
  <1>4. lists[At(s)] # <<>>
    <2> SUFFICES ASSUME ChainOf(sb, s) = <<>> PROVE Unsent(sb, s) = <<>>
      BY <1>3
    <2> DEFINE pieces == [i \in DOMAIN ChainOf(sb, s) |->
                           LET b == ChainOf(sb, s)[i]
                           IN  SubSeq(sb.buf[b], sb.rptr[b] + 1, Len(sb.buf[b]))]
    <2>1. pieces = <<>>
      OBVIOUS
    <2>2. Unsent(sb, s) = FlattenSeq(pieces)
      BY DEF Unsent
    <2>3. FlattenSeq(<<>>) = <<>>
      BY DEF FlattenSeq
    <2> HIDE DEF pieces
    <2> QED
      BY <2>1, <2>2, <2>3
  <1>5. s \in armed
    BY <1>1, <1>4 DEF Intact
  <1>6. Datalen(sb, s) \in Nat /\ Datalen(sb, s) # 0
    BY <1>2, <1>4, DatalenOfList
  <1> QED
    BY <1>5, <1>6

\* A block is in one place, a chain ends at block_tail, and nothing is written
\* behind buf_size or read behind buf_len, whatever is closed, reopened or sent to.
THEOREM OneOwnerCorrect == Spec => []OneOwner
  <1>1. IInv => OneOwner
    BY IInvGivesOneOwner
  <1> QED
    BY <1>1, LinkInvariantHolds, PTL

\* No block is lost while no closed socket is sent to.
THEOREM NoLeakCorrect == Spec => []NoLeak
  <1>1. IInv => NoLeak
    BY IInvGivesNoLeak
  <1> QED
    BY <1>1, LinkInvariantHolds, PTL

\* Only a socket that was closed with something left to send can make gamesrv
\* write into a block that is not its own.
THEOREM SpoiltByLeftoversCorrect == Spec => []SpoiltByLeftovers
  <1>1. IInv => SpoiltByLeftovers
    BY DEF IInv
  <1> QED
    BY <1>1, LinkInvariantHolds, PTL

\* What waits to be sent on an open socket has its writable event.
THEOREM PendingIsArmedCorrect == Spec => []PendingIsArmed
  <1>1. IInv => PendingIsArmed
    BY IInvGivesPendingIsArmed
  <1> QED
    BY <1>1, LinkInvariantHolds, PTL

-----------------------------------------------------------------------------
(* What is on the way *)

FlowTypes ==
  /\ rbuf \in [Sockets -> Seq(Nat)]
  /\ sent \in [Sockets -> Seq(Seq(Nat))]
  /\ got \in [Sockets -> Seq(Seq(Nat))]
  /\ wide \in [Sockets -> BOOLEAN]
  /\ \A s \in Sockets : conn[s] # "up" => kernel[s] = <<>>

\* The packets F of s are sent and not dispatched: their bytes are in the receive
\* buffer, in the kernel and, x, in the blocks c, one behind the other, and the
\* first packet is not complete in the receive buffer.
Way(s, c, F, x) ==
  /\ F \in Seq(Framed)
  /\ sent[s] = got[s] \o Bodies(F)
  /\ Reads(sb, c, x)
  /\ Joined(F, (rbuf[s] \o kernel[s]) \o x)
  /\ F # <<>> => Len(rbuf[s]) < Len(F[1])

OnTheWay(s, c) == \E F, x : Way(s, c, F, x)

Flows ==
  ~spoilt => \A s \in Sockets :
    conn[s] = "up" /\ ~wide[s] => OnTheWay(s, ChainOf(sb, s))

FInv == IInv /\ FlowTypes /\ Flows

-----------------------------------------------------------------------------
(* Helpers *)

LEMMA ChainIsList ==
  ASSUME NEW st, NEW own, NEW lists, NEW lost, Holding(st, own, lists, lost), NEW s \in own
  PROVE  ChainOf(st, s) = lists[At(s)]
  <1>1. /\ Layout(st, own, lists, lost) /\ At(s) \in Place
        /\ st.head[s] = FirstOf(lists[At(s)])
    BY Places DEF Holding, Layout
  <1>2. Chain(st, FirstOf(lists[At(s)])) = lists[At(s)]
    <2> DEFINE p == At(s)
    <2> HIDE DEF p
    <2>1. Chain(st, FirstOf(lists[p])) = lists[p]
      BY <1>1, LayoutOfList DEF p
    <2> QED
      BY <2>1 DEF p
  <1> QED
    BY <1>1, <1>2 DEF ChainOf

LEMMA BodiesOfAppend ==
  ASSUME NEW F \in Seq(Framed), NEW packet \in Framed
  PROVE  /\ Append(F, packet) \in Seq(Framed)
         /\ Bodies(Append(F, packet)) = Append(Bodies(F), Body(packet))
  <1> DEFINE n == Len(F)
             G == Append(F, packet)
             b == Body(packet)
             o == Bodies(F)
  <1>1. n \in Nat /\ b \in Seq(Nat)
    BY LenProperties, BodyOf
  <1>2. G \in Seq(Framed) /\ Len(G) = n + 1 /\ G[n + 1] = packet /\ \A i \in 1..n : G[i] = F[i]
    BY AppendProperties
  <1>3. /\ o \in Seq(Seq(Nat)) /\ Len(o) = n
        /\ \A i \in 1..n : o[i] = Body(F[i])
    BY BodiesOf
  <1> HIDE DEF G, n, o
  <1>4. /\ Bodies(G) \in Seq(Seq(Nat)) /\ Len(Bodies(G)) = n + 1
        /\ \A i \in 1..(n + 1) : Bodies(G)[i] = Body(G[i])
    <2>1. /\ Bodies(G) \in Seq(Seq(Nat)) /\ Len(Bodies(G)) = Len(G)
          /\ \A i \in 1..Len(G) : Bodies(G)[i] = Body(G[i])
      BY <1>2, BodiesOf
    <2> QED
      BY <1>2, <2>1
  <1> HIDE DEF b
  <1>5. /\ Append(o, b) \in Seq(Seq(Nat)) /\ Len(Append(o, b)) = n + 1
        /\ \A i \in 1..n : Append(o, b)[i] = o[i]
        /\ Append(o, b)[n + 1] = b
    BY <1>1, <1>3, AppendProperties
  <1>6. ASSUME NEW i \in 1..(n + 1) PROVE Bodies(G)[i] = Append(o, b)[i]
    <2>1. CASE i = n + 1
      BY <1>2, <1>4, <1>5, <2>1 DEF b
    <2>2. CASE i # n + 1
      <3>1. i \in 1..n
        BY <1>1, <2>2
      <3> QED
        BY <1>2, <1>3, <1>4, <1>5, <3>1
    <2> QED
      BY <2>1, <2>2
  <1>7. Bodies(G) = Append(o, b)
    BY <1>4, <1>5, <1>6, SeqEqual
  <1> QED
    BY <1>2, <1>7 DEF G, b, o

\* A packet whose length fits is framed as the receiver expects.
LEMMA PacketIsFramed ==
  ASSUME NEW n \in Lengths, NEW k \in Nat, n < Wrap
  PROVE  Packet(n, k % Base) \in Framed
  <1> DEFINE plen == n % Wrap
             a == <<plen % Base, plen \div Base>>
             c == [i \in 1..(n - 2) |-> k % Base]
             packet == Packet(n, k % Base)
  <1>1. packet \in Seq(Nat) /\ Len(packet) = n /\ n \in Nat
    BY PacketBytes
  <1>2. n > 2
    <2>1. n \in Nat /\ n \notin 0..2
      OBVIOUS
    <2> QED
      BY <2>1
  <1>3. Wrap \in Nat /\ Wrap > 0
    <2>1. Base * Base \in Nat /\ Base * Base > 0
      OBVIOUS
    <2> QED
      BY <2>1 DEF Wrap
  <1>4. plen = n
    <2> DEFINE w == Wrap
    <2> HIDE DEF w
    <2>1. w \in Nat /\ w > 0 /\ n \in Nat /\ n < w
      BY <1>1, <1>3 DEF w
    <2>2. n % w = n
      BY <2>1
    <2> QED
      BY <2>2 DEF w
  <1>5. n % Base \in Nat /\ n \div Base \in Nat /\ n = (n % Base) + Base * (n \div Base)
    BY <1>1
  <1>6. a = <<n % Base, n \div Base>>
    BY <1>4
  <1>7. packet = a \o c
    BY DEF Packet
  <1> HIDE DEF plen
  <1>8. a \in Seq(Nat) /\ Len(a) = 2 /\ a[1] = n % Base /\ a[2] = n \div Base
    BY <1>5, <1>6
  <1>9. c \in Seq(Nat)
    <2>1. n - 2 \in Nat /\ k % Base \in Nat
      BY <1>1, <1>2
    <2> QED
      BY <2>1
  <1> HIDE DEF a, c, packet
  <1>10. packet[1] = n % Base /\ packet[2] = n \div Base
    <2>1. /\ Len(a \o c) = Len(a) + Len(c)
          /\ \A i \in 1..(Len(a) + Len(c)) : (a \o c)[i] = IF i <= Len(a) THEN a[i] ELSE c[i - Len(a)]
      <3> HIDE BlocksAssumption, LinkAssumption, BaseAssumption
      <3>1. a \in Seq(Nat) /\ c \in Seq(Nat)
        BY <1>8, <1>9
      <3> QED
        BY <3>1, ConcatProperties
    <2>2. 1 \in 1..(Len(a) + Len(c)) /\ 2 \in 1..(Len(a) + Len(c)) /\ 1 <= Len(a) /\ 2 <= Len(a)
      BY <1>8, <1>9, LenProperties
    <2> QED
      BY <1>7, <1>8, <2>1, <2>2
  <1>11. Len(packet) >= 3 /\ Len(packet) = packet[1] + Base * packet[2]
    <2>1. Len(packet) >= 3
      BY <1>1, <1>2
    <2> QED
      BY <1>1, <1>5, <1>10, <2>1
  <1> QED
    BY <1>1, <1>11 DEF Framed, packet

-----------------------------------------------------------------------------
(* The actions keep what is on the way *)

\* A socket that a step leaves alone.
LEMMA WayKept ==
  ASSUME NEW t, NEW c, NEW F, NEW x, Way(t, c, F, x), Pieces(sb', c) = Pieces(sb, c),
         sent'[t] = sent[t], got'[t] = got[t], rbuf'[t] = rbuf[t], kernel'[t] = kernel[t]
  PROVE  Way(t, c, F, x)'
  BY DEF Way, Reads, Pieces, Piece

\* A step of the socket s keeps what is on the way on the others.
LEMMA FlowsElsewhere ==
  ASSUME FInv, ~spoilt, NEW s \in Sockets,
         NEW lists, NEW lost, Holding(sb, Owners, lists, lost),
         NEW own, NEW lists2, NEW lost2, Holding(sb', own, lists2, lost2),
         \A t \in Sockets : conn'[t] = "up" => t \in own,
         \A t \in Sockets : t # s =>
           /\ lists2[At(t)] = lists[At(t)] /\ Pieces(sb', lists[At(t)]) = Pieces(sb, lists[At(t)])
           /\ conn'[t] = conn[t] /\ wide'[t] = wide[t]
           /\ sent'[t] = sent[t] /\ got'[t] = got[t] /\ rbuf'[t] = rbuf[t] /\ kernel'[t] = kernel[t],
         conn'[s] = "up" /\ ~wide'[s] => OnTheWay(s, lists2[At(s)])'
  PROVE  Flows'
  <1> SUFFICES ASSUME NEW t \in Sockets, conn'[t] = "up", ~wide'[t]
               PROVE  OnTheWay(t, ChainOf(sb, t))'
    BY DEF Flows
  <1>1. ChainOf(sb', t) = lists2[At(t)]
    BY ChainIsList
  <1>2. CASE t = s
    BY <1>1, <1>2 DEF Way
  <1>3. CASE t # s
    <2>1. conn[t] = "up" /\ ~wide[t] /\ t \in Owners
      BY <1>3 DEF Owners
    <2>2. PICK F, x : Way(t, ChainOf(sb, t), F, x)
      BY <2>1 DEF FInv, Flows, OnTheWay
    <2> DEFINE c == lists[At(t)]
    <2>3. ChainOf(sb, t) = c
      BY <2>1, ChainIsList
    <2> HIDE DEF c
    <2>4. Way(t, c, F, x)
      BY <2>2, <2>3
    <2>5. Pieces(sb', c) = Pieces(sb, c) /\ ChainOf(sb', t) = c
      BY <1>1, <1>3 DEF c
    <2>6. Way(t, c, F, x)'
      BY <1>3, <2>4, <2>5, WayKept
    <2> QED
      BY <2>5, <2>6 DEF OnTheWay, Way
  <1> QED
    BY <1>2, <1>3

\* A step that changes none of the bytes and none of the bodies.
LEMMA FlowsUnchanged ==
  ASSUME FInv, UNCHANGED <<sb, conn, kernel, rbuf, sent, got, wide, spoilt>>
  PROVE  FlowTypes' /\ Flows'
  <1>1. FlowTypes'
    BY DEF FInv, FlowTypes
  <1>2. ASSUME ~spoilt, NEW t \in Sockets, conn[t] = "up", ~wide[t]
        PROVE  OnTheWay(t, ChainOf(sb, t))'
    <2>1. PICK F, x : Way(t, ChainOf(sb, t), F, x)
      BY <1>2 DEF FInv, Flows, OnTheWay
    <2>2. PICK c : c = ChainOf(sb, t) /\ c = ChainOf(sb', t)
      OBVIOUS
    <2>3. Way(t, c, F, x) /\ Pieces(sb', c) = Pieces(sb, c)
      BY <2>1, <2>2
    <2>4. Way(t, c, F, x)'
      BY <2>2, <2>3, WayKept
    <2> QED
      BY <2>2, <2>4 DEF OnTheWay, Way
  <1>3. Flows'
    BY <1>2 DEF Flows
  <1> QED
    BY <1>1, <1>3

\* A packet sent on a connection that is up goes behind all others.
LEMMA WayOfEnqueue ==
  ASSUME FInv, NEW s \in Sockets, conn[s] = "up",
         NEW lists, NEW lost, Holding(sb, Owners, lists, lost), NEW lists2, NEW lost2, NEW own,
         Holding(sb', own, lists2, lost2),
         NEW packet \in Framed, StoredIn(sb, sb', s, packet, lists, lists2),
         NEW F, NEW x, Way(s, lists[At(s)], F, x),
         sent'[s] = Append(sent[s], Body(packet)), UNCHANGED <<got, rbuf, kernel>>
  PROVE  Way(s, lists2[At(s)], Append(F, packet), x \o packet)'
  <1> DEFINE c == lists[At(s)]
             d == lists2[At(s)]
             G == Append(F, packet)
             r == rbuf[s] \o kernel[s]
             b == Body(packet)
  <1>1. packet \in Seq(Nat) /\ b \in Seq(Nat) /\ Len(packet) >= 3
    BY BodyOf
  <1>2. /\ F \in Seq(Framed) /\ sent[s] = got[s] \o Bodies(F) /\ Joined(F, r \o x)
        /\ F # <<>> => Len(rbuf[s]) < Len(F[1])
        /\ Reads(sb, c, x)
    BY DEF Way
  <1>3. /\ rbuf[s] \in Seq(Nat) /\ kernel[s] \in Seq(Nat) /\ got[s] \in Seq(Seq(Nat))
        /\ r \in Seq(Nat) /\ x \in Seq(Nat)
    <2>1. rbuf[s] \in Seq(Nat) /\ kernel[s] \in Seq(Nat) /\ got[s] \in Seq(Seq(Nat))
      BY DEF FInv, FlowTypes, IInv, TypeOK
    <2>2. r \in Seq(Nat)
      BY <2>1, ConcatProperties
    <2>3. x \in Seq(Nat)
      BY <1>2, JoinedType DEF Reads
    <2> QED
      BY <2>1, <2>2, <2>3
  <1>4. G \in Seq(Framed) /\ Bodies(G) = Append(Bodies(F), b)
    BY <1>2, BodiesOfAppend
  <1>5. Reads(sb', d, x \o packet)
    BY <1>1, <1>2, StoredReads
  <1> HIDE DEF G, r, b
  <1>6. Joined(G, r \o (x \o packet))
    <2>1. Joined(G, (r \o x) \o packet)
      BY <1>1, <1>2, JoinedAppend DEF G
    <2>2. r \in Seq(Nat) /\ x \in Seq(Nat) /\ packet \in Seq(Nat)
      BY <1>1, <1>3
    <2>3. (r \o x) \o packet = r \o (x \o packet)
      <3> HIDE BlocksAssumption, BaseAssumption, LinkAssumption
      <3> QED
        BY <2>2, Assoc, Zenon
    <2> QED
      BY <2>1, <2>3
  <1>7. Append(sent[s], b) = got[s] \o Bodies(G)
    <2> DEFINE g == got[s]
               o == Bodies(F)
               w == <<b>>
    <2>1. g \in Seq(Seq(Nat)) /\ o \in Seq(Seq(Nat)) /\ w \in Seq(Seq(Nat)) /\ sent[s] = g \o o
      BY <1>1, <1>2, <1>3, BodiesOf
    <2>2. g \o o \in Seq(Seq(Nat))
      BY <2>1, ConcatProperties
    <2> HIDE DEF g, o
    <2>3. Append(g \o o, b) = (g \o o) \o w /\ Append(o, b) = o \o w
      <3>1. Append(g \o o, b) = (g \o o) \o w
        BY <1>1, <2>2, AppendIsConcat
      <3>2. Append(o, b) = o \o w
        BY <1>1, <2>1, AppendIsConcat
      <3> QED
        BY <3>1, <3>2
    <2> HIDE DEF w
    <2>4. (g \o o) \o w = g \o (o \o w)
      <3>1. g \in Seq(Seq(Nat)) /\ o \in Seq(Seq(Nat)) /\ w \in Seq(Seq(Nat))
        BY <2>1
      <3> HIDE BlocksAssumption, BaseAssumption, LinkAssumption
      <3> QED
        BY <3>1, AssocOfMany, Zenon
    <2> QED
      BY <1>4, <2>1, <2>3, <2>4 DEF g, o
  <1>8. Len(rbuf[s]) < Len(G[1])
    <2>1. CASE F = <<>>
      <3>1. r \o x = <<>>
        BY <1>2, <2>1, JoinedNone
      <3>2. r = <<>>
        BY <1>3, <3>1, ConcatEqualIffEmpty
      <3>3. rbuf[s] = <<>>
        BY <1>3, <3>2, ConcatEqualIffEmpty DEF r
      <3>4. G[1] = packet
        <4>1. Len(F) = 0 /\ G[Len(F) + 1] = packet
          BY <1>2, <2>1, AppendProperties DEF G
        <4> QED
          BY <4>1
      <3>5. Len(rbuf[s]) = 0 /\ Len(packet) \in Nat
        BY <1>1, <3>3, LenProperties
      <3> QED
        BY <1>1, <3>4, <3>5
    <2>2. CASE F # <<>>
      <3>1. 1 \in 1..Len(F)
        <4>1. Len(F) \in Nat /\ Len(F) # 0
          BY <1>2, <2>2, LenProperties, EmptySeq
        <4> QED
          BY <4>1
      <3>2. G[1] = F[1]
        BY <1>2, <3>1, AppendProperties DEF G
      <3> QED
        BY <1>2, <2>2, <3>2
    <2> QED
      BY <2>1, <2>2
  <1> HIDE DEF c, d
  <1> QED
    BY <1>4, <1>5, <1>6, <1>7, <1>8 DEF Way, r, G, b, d

LEMMA EnqueueFlows ==
  ASSUME FInv, ~spoilt, NEW s \in Sockets, NEW n \in Lengths, Enqueue(s, n)
  PROVE  FlowTypes' /\ Flows'
  <1>0. PICK packet : packet = Packet(n, packets % Base)
    OBVIOUS
  <1> DEFINE new == Stored(sb, s, packet)
  <1>1. packet \in Seq(Nat) /\ Len(packet) = n /\ n \in Nat /\ n > 0 /\ packets \in Nat
    BY <1>0, PacketBytes DEF FInv, IInv, TypeOK
  <1>2. UNCHANGED <<conn, kernel, rbuf, got>>
    BY DEF Enqueue, wire
  <1>3. CASE ~CanAlloc(sb, s, n)
    <2>1. UNCHANGED <<sb, conn, kernel, rbuf, sent, got, wide, spoilt>>
      BY <1>2, <1>3 DEF Enqueue
    <2> QED
      BY <2>1, FlowsUnchanged
  <1>4. CASE CanAlloc(sb, s, n)
    <2>1. /\ sb' = new /\ spoilt' = (spoilt \/ sb.tail[s] \in Foreign(s))
          /\ IF conn[s] = "up"
             THEN /\ sent' = [sent EXCEPT ![s] = Append(sent[s], Body(packet))]
                  /\ wide' = [wide EXCEPT ![s] = wide[s] \/ n >= Wrap]
             ELSE UNCHANGED <<sent, wide>>
      BY <1>0, <1>4 DEF Enqueue
    <2>2. Body(packet) \in Seq(Nat)
      <3> DEFINE p == packet
      <3> HIDE DEF p
      <3>1. p \in Seq(Nat) /\ Len(p) \in Nat
        BY <1>1 DEF p
      <3>2. \A i \in 3..Len(p) : i \in 1..Len(p)
        BY <3>1
      <3>3. \A i \in 3..Len(p) : p[i] \in Nat
        BY <3>1, <3>2, ElementOfSeq
      <3>4. SubSeq(p, 3, Len(p)) \in Seq(Nat)
        BY <3>1, <3>3, SubSeqProperties
      <3> QED
        BY <3>4 DEF Body, p
    <2>3. FlowTypes'
      <3>1. CASE conn[s] = "up"
        <4>1. Append(sent[s], Body(packet)) \in Seq(Seq(Nat))
          BY <2>2, AppendProperties DEF FInv, FlowTypes
        <4> QED
          BY <1>2, <2>1, <3>1, <4>1, ZenonT(60) DEF FInv, FlowTypes
      <3>2. CASE conn[s] # "up"
        BY <1>2, <2>1, <3>2 DEF FInv, FlowTypes
      <3> QED
        BY <3>1, <3>2
    <2>4. \A t \in Sockets : t # s => sent'[t] = sent[t] /\ wide'[t] = wide[t]
      BY <2>1 DEF FInv, FlowTypes
    <2>5. PICK lists, lost : Intact(lists, lost)
      BY DEF FInv, IInv
    <2>6. Holding(sb, Owners, lists, lost)
      BY <2>5 DEF Intact
    <2>7. \A t \in Sockets : conn'[t] = "up" => t \in Owners
      BY <1>2 DEF Owners
    <2> HIDE DEF new
    <2>8. CASE s \in Owners
      <3>1. PICK lists2 : /\ Holding(new, Owners, lists2, lost)
                          /\ StoredIn(sb, new, s, packet, lists, lists2)
        BY <1>1, <1>4, <2>6, <2>8, StoredLayout DEF new
      <3>2. ASSUME NEW t \in Sockets, t # s
            PROVE  /\ lists2[At(t)] = lists[At(t)]
                   /\ Pieces(sb', lists[At(t)]) = Pieces(sb, lists[At(t)])
        BY <1>1, <2>1, <2>6, <3>1, <3>2, StoredReadsElsewhere
      <3>3. ASSUME conn'[s] = "up", ~wide'[s] PROVE OnTheWay(s, lists2[At(s)])'
        <4>1. /\ conn[s] = "up" /\ ~wide[s] /\ ~(n >= Wrap)
              /\ sent'[s] = Append(sent[s], Body(packet))
          BY <1>2, <2>1, <3>3 DEF FInv, FlowTypes
        <4>2. n < Wrap
          <5>1. Wrap \in Nat
            BY DEF Wrap
          <5> QED
            BY <1>1, <4>1, <5>1
        <4>3. packet \in Framed
          BY <1>0, <1>1, <4>2, PacketIsFramed
        <4>4. PICK F, x : Way(s, ChainOf(sb, s), F, x)
          BY <4>1 DEF FInv, Flows, OnTheWay
        <4>5. Way(s, lists[At(s)], F, x)
          BY <2>6, <2>8, <4>4, ChainIsList
        <4>6. Holding(sb', Owners, lists2, lost) /\ StoredIn(sb, sb', s, packet, lists, lists2)
          BY <2>1, <3>1
        <4>7. Way(s, lists2[At(s)], Append(F, packet), x \o packet)'
          BY <1>2, <2>6, <4>1, <4>3, <4>5, <4>6, WayOfEnqueue
        <4> QED
          BY <4>7 DEF OnTheWay
      <3>4. Flows'
        <4>1. Holding(sb', Owners, lists2, lost)
          BY <2>1, <3>1
        <4>2. \A t \in Sockets : t # s =>
                /\ lists2[At(t)] = lists[At(t)] /\ Pieces(sb', lists[At(t)]) = Pieces(sb, lists[At(t)])
                /\ conn'[t] = conn[t] /\ wide'[t] = wide[t]
                /\ sent'[t] = sent[t] /\ got'[t] = got[t] /\ rbuf'[t] = rbuf[t] /\ kernel'[t] = kernel[t]
          BY <1>2, <2>4, <3>2
        <4> QED
          BY <2>6, <2>7, <3>3, <4>1, <4>2, FlowsElsewhere
      <3> QED
        BY <2>3, <3>4
    <2>9. CASE s \notin Owners
      <3>1. conn[s] = "closed"
        BY <2>9 DEF Owners
      <3>2. CASE sb.tail[s] \in Foreign(s)
        BY <2>1, <2>3, <3>2 DEF Flows
      <3>3. CASE sb.tail[s] \notin Foreign(s)
        <4>1. sb.tail[s] # Nil => sb.tail[s] \in lost \cup sb.unborn
          BY <2>6, <2>9, <3>3, StrayTail
        <4>2. PICK lists2, lost2 : \E b \in Blocks :
                /\ Holding(new, Owners, lists2, lost2)
                /\ \A t \in Sockets : lists2[At(t)] = lists[At(t)] /\ b \notin ToSet(lists[At(t)])
                /\ TouchesOnly(sb, new, b)
          BY <1>1, <1>4, <2>6, <2>9, <4>1, StoredElsewhere DEF new
        <4>3. PICK b \in Blocks :
                /\ Holding(new, Owners, lists2, lost2)
                /\ \A t \in Sockets : lists2[At(t)] = lists[At(t)] /\ b \notin ToSet(lists[At(t)])
                /\ TouchesOnly(sb, new, b)
          BY <4>2
        <4>4. ASSUME NEW t \in Sockets PROVE Pieces(sb', lists[At(t)]) = Pieces(sb, lists[At(t)])
          <5> DEFINE c == lists[At(t)]
          <5>1. c \in Seq(Blocks) /\ ToSet(c) \subseteq Blocks
            <6> DEFINE p == At(t)
            <6>1. p \in Place /\ Layout(sb, Owners, lists, lost)
              BY <2>6, Places DEF Holding
            <6> HIDE DEF p
            <6>2. lists[p] \in Seq(Blocks) /\ ToSet(lists[p]) \subseteq Blocks
              BY <6>1, LayoutOfList
            <6> QED
              BY <6>2 DEF p
          <5>2. b \notin ToSet(c)
            BY <4>3
          <5> HIDE DEF c
          <5>3. \A e \in ToSet(c) : sb'.rptr[e] = sb.rptr[e] /\ sb'.buf[e] = sb.buf[e]
            BY <2>1, <4>3, <5>1, <5>2 DEF TouchesOnly
          <5> QED
            BY <5>1, <5>3, PiecesSame DEF c
        <4>5. Flows'
          <5>1. Holding(sb', Owners, lists2, lost2)
            BY <2>1, <4>3
          <5>2. \A t \in Sockets : t # s =>
                  /\ lists2[At(t)] = lists[At(t)] /\ Pieces(sb', lists[At(t)]) = Pieces(sb, lists[At(t)])
                  /\ conn'[t] = conn[t] /\ wide'[t] = wide[t]
                  /\ sent'[t] = sent[t] /\ got'[t] = got[t] /\ rbuf'[t] = rbuf[t] /\ kernel'[t] = kernel[t]
            BY <1>2, <2>4, <4>3, <4>4
          <5>3. conn'[s] # "up"
            BY <1>2, <3>1
          <5> QED
            BY <2>6, <2>7, <5>1, <5>2, <5>3, FlowsElsewhere
        <4> QED
          BY <2>3, <4>5
      <3> QED
        BY <3>2, <3>3
    <2> QED
      BY <2>8, <2>9
  <1> QED
    BY <1>3, <1>4

\* The blocks of the other sockets read as before when no bytes change.
LEMMA ListReadsSame ==
  ASSUME NEW st, NEW own, NEW lists, NEW lost, Holding(st, own, lists, lost), NEW t \in Sockets,
         NEW new, new.rptr = st.rptr, new.buf = st.buf
  PROVE  Pieces(new, lists[At(t)]) = Pieces(st, lists[At(t)])
  <1>1. PICK c : c = lists[At(t)]
    OBVIOUS
  <1>2. c \in Seq(Blocks)
    <2>1. PICK p : p = At(t)
      OBVIOUS
    <2>2. p \in Place /\ Layout(st, own, lists, lost)
      BY <2>1, Places DEF Holding
    <2>3. lists[p] \in Seq(Blocks)
      BY <2>2, LayoutOfList
    <2> QED
      BY <1>1, <2>1, <2>3
  <1>3. Pieces(new, c) = Pieces(st, c)
    BY <1>2, PiecesSame
  <1> QED
    BY <1>1, <1>3

LEMMA RealCloseFlows ==
  ASSUME FInv, ~spoilt, NEW s \in Sockets, conn[s] = "broken", RealClose(s),
         UNCHANGED <<wire, sent, wide>>
  PROVE  FlowTypes' /\ Flows'
  <1>1. /\ sb' = Freed(sb, s) /\ conn' = [conn EXCEPT ![s] = "closed"] /\ s \in Owners
        /\ UNCHANGED <<kernel, rbuf, got, sent, wide>>
    BY DEF RealClose, Owners, wire
  <1>2. conn'[s] = "closed" /\ \A t \in Sockets : t # s => conn'[t] = conn[t]
    BY <1>1 DEF FInv, IInv, TypeOK
  <1>3. FlowTypes'
    BY <1>1, <1>2 DEF FInv, FlowTypes
  <1>4. PICK lists, lost : Intact(lists, lost)
    BY DEF FInv, IInv
  <1>5. Holding(sb, Owners, lists, lost)
    BY <1>4 DEF Intact
  <1>6. PICK own : own = Owners \ {s}
    OBVIOUS
  <1>7. HoldsBut(Freed(sb, s), Owners \ {s}, lists, lost, s)
    BY <1>1, <1>5, FreedHolding
  <1>8. SameBytes(Freed(sb, s), sb)
    BY <1>1, <1>5, FreedHolding
  <1>9. PICK lists2 : /\ Holding(sb', own, lists2, lost)
                      /\ \A t \in Sockets : lists2[At(t)] = IF t = s THEN <<>> ELSE lists[At(t)]
    BY <1>1, <1>6, <1>7 DEF HoldsBut
  <1>10. \A t \in Sockets : conn'[t] = "up" => t \in own
    BY <1>2, <1>6 DEF Owners
  <1>11. sb'.rptr = sb.rptr /\ sb'.buf = sb.buf
    BY <1>1, <1>8 DEF SameBytes
  <1>12. \A t \in Sockets : Pieces(sb', lists[At(t)]) = Pieces(sb, lists[At(t)])
    BY <1>5, <1>11, ListReadsSame
  <1>13. \A t \in Sockets : t # s =>
           /\ lists2[At(t)] = lists[At(t)] /\ Pieces(sb', lists[At(t)]) = Pieces(sb, lists[At(t)])
           /\ conn'[t] = conn[t] /\ wide'[t] = wide[t]
           /\ sent'[t] = sent[t] /\ got'[t] = got[t] /\ rbuf'[t] = rbuf[t] /\ kernel'[t] = kernel[t]
    BY <1>1, <1>2, <1>9, <1>12
  <1>14. conn'[s] # "up"
    BY <1>2
  <1>15. Flows'
    BY <1>5, <1>9, <1>10, <1>13, <1>14, FlowsElsewhere
  <1> QED
    BY <1>3, <1>15

LEMMA ConnectFlows ==
  ASSUME FInv, ~spoilt, NEW s \in Sockets, Connect(s)
  PROVE  FlowTypes' /\ Flows'
  <1>1. /\ sb' = Created(sb, s) /\ conn' = [conn EXCEPT ![s] = "up"] /\ conn[s] = "closed"
        /\ rbuf' = [rbuf EXCEPT ![s] = <<>>] /\ sent' = [sent EXCEPT ![s] = <<>>]
        /\ got' = [got EXCEPT ![s] = <<>>] /\ wide' = [wide EXCEPT ![s] = FALSE] /\ kernel' = kernel
    BY DEF Connect
  <1>2. <<>> \in Seq(Nat) /\ <<>> \in Seq(Seq(Nat))
    OBVIOUS
  <1>3. /\ conn'[s] = "up" /\ rbuf'[s] = <<>> /\ sent'[s] = <<>> /\ got'[s] = <<>> /\ kernel'[s] = <<>>
        /\ \A t \in Sockets : t # s =>
             /\ conn'[t] = conn[t] /\ wide'[t] = wide[t] /\ sent'[t] = sent[t]
             /\ got'[t] = got[t] /\ rbuf'[t] = rbuf[t] /\ kernel'[t] = kernel[t]
    BY <1>1 DEF FInv, FlowTypes, IInv, TypeOK
  <1>4. FlowTypes'
    BY <1>1, <1>2, <1>3 DEF FInv, FlowTypes
  <1>5. PICK lists, lost : Intact(lists, lost)
    BY DEF FInv, IInv
  <1>6. Holding(sb, Owners, lists, lost)
    BY <1>5 DEF Intact
  <1>7. PICK own : own = Owners \cup {s}
    OBVIOUS
  <1>8. PICK lost2 : lost2 = lost \cup ToSet(lists[At(s)])
    OBVIOUS
  <1>9. PICK lists2 : /\ Holding(sb', own, lists2, lost2)
                      /\ \A t \in Sockets : lists2[At(t)] = IF t = s THEN <<>> ELSE lists[At(t)]
    <2>1. HoldsBut(Created(sb, s), Owners \cup {s}, lists, lost \cup ToSet(lists[At(s)]), s)
      BY <1>6, CreatedHolding
    <2> QED
      BY <1>1, <1>7, <1>8, <2>1 DEF HoldsBut
  <1>10. \A t \in Sockets : conn'[t] = "up" => t \in own
    BY <1>3, <1>7 DEF Owners
  <1>11. sb'.rptr = sb.rptr /\ sb'.buf = sb.buf
    <2>1. sb \in State
      BY <1>6 DEF Holding, Layout
    <2> QED
      BY <1>1, <2>1 DEF Created, State
  <1>12. \A t \in Sockets : Pieces(sb', lists[At(t)]) = Pieces(sb, lists[At(t)])
    BY <1>6, <1>11, ListReadsSame
  <1>13. \A t \in Sockets : t # s =>
           /\ lists2[At(t)] = lists[At(t)] /\ Pieces(sb', lists[At(t)]) = Pieces(sb, lists[At(t)])
           /\ conn'[t] = conn[t] /\ wide'[t] = wide[t]
           /\ sent'[t] = sent[t] /\ got'[t] = got[t] /\ rbuf'[t] = rbuf[t] /\ kernel'[t] = kernel[t]
    BY <1>3, <1>9, <1>12
  <1>14. Way(s, lists2[At(s)], <<>>, <<>>)'
    <2>1. lists2[At(s)] = <<>> /\ Reads(sb', <<>>, <<>>)
      BY <1>9, NoBlocksRead
    <2>2. <<>> \o <<>> = <<>> /\ (<<>> \o <<>>) \o <<>> = <<>> /\ <<>> \in Seq(Framed)
      OBVIOUS
    <2>3. Bodies(<<>>) = <<>>
      BY <2>2, BodiesOf
    <2> QED
      BY <1>3, <2>1, <2>2, <2>3, JoinedNone DEF Way
  <1>15. Flows'
    <2>1. OnTheWay(s, lists2[At(s)])'
      BY <1>14 DEF OnTheWay
    <2> QED
      BY <1>6, <1>9, <1>10, <1>13, <2>1, FlowsElsewhere
  <1> QED
    BY <1>4, <1>15

LEMMA TornFlows ==
  ASSUME FInv, ~spoilt, NEW s \in Sockets, Torn(s), UNCHANGED <<sb, rbuf, sent, got, wide>>
  PROVE  FlowTypes' /\ Flows'
  <1>1. /\ conn' = [conn EXCEPT ![s] = "broken"] /\ kernel' = [kernel EXCEPT ![s] = <<>>]
    BY DEF Torn
  <1>2. /\ conn'[s] = "broken" /\ kernel'[s] = <<>>
        /\ \A t \in Sockets : t # s => conn'[t] = conn[t] /\ kernel'[t] = kernel[t]
    BY <1>1 DEF FInv, IInv, TypeOK
  <1>3. FlowTypes'
    BY <1>2 DEF FInv, FlowTypes
  <1>4. PICK lists, lost : Intact(lists, lost)
    BY DEF FInv, IInv
  <1>5. PICK own : own = Owners
    OBVIOUS
  <1>6. Holding(sb, Owners, lists, lost) /\ Holding(sb', own, lists, lost)
    BY <1>4, <1>5 DEF Intact
  <1>7. \A t \in Sockets : conn'[t] = "up" => t \in own
    BY <1>2, <1>5 DEF Owners
  <1>8. \A t \in Sockets : t # s =>
           /\ lists[At(t)] = lists[At(t)] /\ Pieces(sb', lists[At(t)]) = Pieces(sb, lists[At(t)])
           /\ conn'[t] = conn[t] /\ wide'[t] = wide[t]
           /\ sent'[t] = sent[t] /\ got'[t] = got[t] /\ rbuf'[t] = rbuf[t] /\ kernel'[t] = kernel[t]
    BY <1>2
  <1>9. conn'[s] # "up"
    BY <1>2
  <1>10. Flows'
    BY <1>6, <1>7, <1>8, <1>9, FlowsElsewhere
  <1> QED
    BY <1>3, <1>10

\* What the kernel takes are the first bytes that waited.
LEMMA WritableFlows ==
  ASSUME FInv, ~spoilt, NEW s \in Sockets, Writable(s)
  PROVE  FlowTypes' /\ Flows'
  <1>1. UNCHANGED <<rbuf, sent, got, wide>>
    BY DEF Writable
  <1>2. CASE conn[s] = "up" /\ Len(kernel[s]) < KernelSize
    <2>1. PICK n \in 0..(KernelSize - Len(kernel[s])) :
            /\ sb' = Sending(s, n).st
            /\ kernel' = [kernel EXCEPT ![s] = @ \o Sending(s, n).out]
            /\ UNCHANGED <<conn, left>>
      BY <1>2 DEF Writable
    <2>2. n \in Nat /\ s \in Owners
      BY <1>2 DEF Owners
    <2>3. PICK lists, lost : Intact(lists, lost)
      BY DEF FInv, IInv
    <2>4. Holding(sb, Owners, lists, lost)
      BY <2>3 DEF Intact
    <2>5. Sound(Sending(s, n), s, Owners, lists, lost)
      BY <2>2, <2>4, SendingSound
    <2>6. PICK out : out = Sending(s, n).out
      OBVIOUS
    <2>7. PICK lists2 : /\ Holding(sb', Owners, lists2, lost)
                        /\ Others(sb', s, lists, lists2)
                        /\ Passes(sb', out, s, lists, lists2)
      BY <2>1, <2>5, <2>6 DEF Sound
    <2>8. out \in Seq(Nat) /\ kernel[s] \in Seq(Nat) /\ rbuf[s] \in Seq(Nat)
      BY <2>5, <2>6 DEF Sound, FInv, FlowTypes, IInv, TypeOK
    <2>9. /\ kernel'[s] = kernel[s] \o out
          /\ \A t \in Sockets : t # s => kernel'[t] = kernel[t]
      BY <2>1, <2>6 DEF FInv, IInv, TypeOK
    <2>10. FlowTypes'
      BY <1>1, <1>2, <2>1, <2>9 DEF FInv, FlowTypes
    <2>11. ASSUME conn'[s] = "up", ~wide'[s] PROVE OnTheWay(s, lists2[At(s)])'
      <3>1. ~wide[s] /\ ChainOf(sb, s) = lists[At(s)]
        BY <1>1, <2>2, <2>4, <2>11, ChainIsList
      <3>2. PICK F, x : Way(s, lists[At(s)], F, x)
        BY <1>2, <3>1 DEF FInv, Flows, OnTheWay
      <3>3. PICK z : z \in Seq(Nat) /\ x = out \o z /\ Reads(sb', lists2[At(s)], z)
        BY <2>7, <3>2 DEF Passes, Way
      <3>4. (rbuf[s] \o kernel[s]) \o x = (rbuf[s] \o (kernel[s] \o out)) \o z
        <4>1. PICK a, b : a = rbuf[s] /\ b = kernel[s]
          OBVIOUS
        <4>2. a \in Seq(Nat) /\ b \in Seq(Nat) /\ out \in Seq(Nat) /\ z \in Seq(Nat)
          BY <2>8, <3>3, <4>1
        <4> HIDE BlocksAssumption, BaseAssumption, LinkAssumption
        <4>3. a \o b \in Seq(Nat)
          BY <4>2, ConcatProperties
        <4>4. ((a \o b) \o out) \o z = (a \o b) \o (out \o z)
          BY <4>2, <4>3, Assoc, Zenon
        <4>5. (a \o b) \o out = a \o (b \o out)
          BY <4>2, Assoc, Zenon
        <4> QED
          BY <3>3, <4>1, <4>4, <4>5
      <3>5. Way(s, lists2[At(s)], F, z)'
        BY <1>1, <2>9, <3>2, <3>3, <3>4 DEF Way
      <3> QED
        BY <3>5 DEF OnTheWay
    <2>12. Flows'
      <3>1. PICK own : own = Owners
        OBVIOUS
      <3>2. Holding(sb, Owners, lists, lost) /\ Holding(sb', own, lists2, lost)
        BY <2>4, <2>7, <3>1
      <3>3. \A t \in Sockets : conn'[t] = "up" => t \in own
        BY <2>1, <3>1 DEF Owners
      <3>4. \A t \in Sockets : t # s =>
              /\ lists2[At(t)] = lists[At(t)] /\ Pieces(sb', lists[At(t)]) = Pieces(sb, lists[At(t)])
              /\ conn'[t] = conn[t] /\ wide'[t] = wide[t]
              /\ sent'[t] = sent[t] /\ got'[t] = got[t] /\ rbuf'[t] = rbuf[t] /\ kernel'[t] = kernel[t]
        BY <1>1, <2>1, <2>7, <2>9 DEF Others
      <3> QED
        BY <2>11, <3>2, <3>3, <3>4, FlowsElsewhere
    <2> QED
      BY <2>10, <2>12
  <1>3. CASE conn[s] = "broken" /\ Datalen(sb, s) > 0
    <2>1. RealClose(s) /\ UNCHANGED <<wire, sent, wide>>
      BY <1>1, <1>3 DEF Writable, wire
    <2> QED
      BY <1>3, <2>1, RealCloseFlows
  <1>4. CASE conn[s] = "broken" /\ ~(Datalen(sb, s) > 0)
    <2>1. UNCHANGED <<sb, conn, kernel, rbuf, sent, got, wide, spoilt>>
      BY <1>1, <1>4 DEF Writable
    <2> QED
      BY <2>1, FlowsUnchanged
  <1> QED
    BY <1>2, <1>3, <1>4 DEF Writable

LEMMA LostFlows ==
  ASSUME FInv, ~spoilt, NEW s \in Sockets, Lost(s)
  PROVE  FlowTypes' /\ Flows'
  <1>1. conn[s] = "broken" /\ RealClose(s) /\ UNCHANGED <<wire, sent, wide>>
    BY DEF Lost
  <1> QED
    BY <1>1, RealCloseFlows

LEMMA BreakFlows ==
  ASSUME FInv, ~spoilt, NEW s \in Sockets, Break(s)
  PROVE  FlowTypes' /\ Flows'
  <1>1. Torn(s) /\ UNCHANGED <<sb, rbuf, sent, got, wide>>
    BY DEF Break, ghosts
  <1> QED
    BY <1>1, TornFlows

\* The first n bytes of a sequence, and the rest.
LEMMA SplitAt ==
  ASSUME NEW u \in Seq(Nat), NEW n \in 0..Len(u)
  PROVE  /\ SubSeq(u, 1, n) \in Seq(Nat) /\ SubSeq(u, n + 1, Len(u)) \in Seq(Nat)
         /\ u = SubSeq(u, 1, n) \o SubSeq(u, n + 1, Len(u))
  <1> HIDE BlocksAssumption, BaseAssumption, LinkAssumption
  <1> DEFINE a == SubSeq(u, 1, n)
             b == SubSeq(u, n + 1, Len(u))
  <1>1. Len(u) \in Nat /\ n \in Nat /\ n <= Len(u)
    BY LenProperties
  <1>2. \A i \in 1..Len(u) : u[i] \in Nat
    BY ElementOfSeq
  <1>3. b \in Seq(Nat) /\ Len(b) = Len(u) - n /\ \A i \in 1..(Len(u) - n) : b[i] = u[n + i]
    BY <1>1, SuffixOf
  <1>4. a \in Seq(Nat) /\ Len(a) = n /\ \A i \in 1..n : a[i] = u[i]
    <2>1. \A i \in 1..n : u[i] \in Nat
      BY <1>1, <1>2
    <2>2. /\ a \in Seq(Nat) /\ Len(a) = IF 1 <= n THEN n - 1 + 1 ELSE 0
          /\ \A i \in 1..(n - 1 + 1) : a[i] = u[1 + i - 1]
      <3>1. 1 \in Int /\ n \in Int
        BY <1>1
      <3> QED
        BY <2>1, <3>1, SubSeqProperties
    <2> HIDE DEF a
    <2>3. Len(a) = n
      BY <1>1, <2>2
    <2>4. \A i \in 1..n : i \in 1..(n - 1 + 1) /\ 1 + i - 1 = i
      BY <1>1
    <2>5. \A i \in 1..n : a[i] = u[i]
      BY <2>2, <2>4
    <2> QED
      BY <2>2, <2>3, <2>5
  <1> HIDE DEF a, b
  <1>5. /\ a \o b \in Seq(Nat) /\ Len(a \o b) = Len(a) + Len(b)
        /\ \A i \in 1..(Len(a) + Len(b)) : (a \o b)[i] = IF i <= Len(a) THEN a[i] ELSE b[i - Len(a)]
    BY <1>3, <1>4, ConcatProperties
  <1>6. Len(a \o b) = Len(u)
    BY <1>1, <1>3, <1>4, <1>5
  <1>7. ASSUME NEW i \in 1..Len(u) PROVE (a \o b)[i] = u[i]
    <2>1. i \in 1..(Len(a) + Len(b))
      BY <1>1, <1>3, <1>4
    <2>2. CASE i <= n
      <3>1. i \in 1..n
        BY <1>1, <2>2
      <3> QED
        BY <1>4, <1>5, <2>1, <2>2, <3>1
    <2>3. CASE ~(i <= n)
      <3>1. i - n \in 1..(Len(u) - n) /\ n + (i - n) = i
        BY <1>1, <2>3
      <3>2. (a \o b)[i] = b[i - n]
        BY <1>4, <1>5, <2>1, <2>3
      <3>3. b[i - n] = u[n + (i - n)]
        BY <1>3, <3>1
      <3> QED
        BY <3>1, <3>2, <3>3
    <2> QED
      BY <2>2, <2>3
  <1>8. u = a \o b
    BY <1>5, <1>6, <1>7, SeqEqual
  <1> QED
    BY <1>3, <1>4, <1>8 DEF a, b

LEMMA LeastOfTwo ==
  ASSUME NEW i \in Int, NEW j \in Int
  PROVE  Min({i, j}) <= i /\ Min({i, j}) <= j /\ Min({i, j}) \in Int
  <1>1. \E x \in {i, j} : \A y \in {i, j} : x <= y
    <2>1. CASE i <= j
      BY <2>1
    <2>2. CASE ~(i <= j)
      BY <2>2
    <2> QED
      BY <2>1, <2>2
  <1>2. Min({i, j}) \in {i, j} /\ \A y \in {i, j} : Min({i, j}) <= y
    BY <1>1 DEF Min
  <1> QED
    BY <1>2

\* The bodies that are dispatched are the first of those that were not.
LEMMA WayOfReadable ==
  ASSUME FInv, NEW s \in Sockets, NEW c, NEW F, NEW x, Way(s, c, F, x),
         NEW a \in Seq(Nat), NEW b \in Seq(Nat), kernel[s] = a \o b,
         NEW r, r = Decoded(rbuf[s] \o a),
         UNCHANGED <<sb, sent>>, kernel'[s] = b, rbuf'[s] = r.left, got'[s] = got[s] \o r.out
  PROVE  OnTheWay(s, c)'
  <1>1. PICK v, g : v = rbuf[s] /\ g = got[s]
    OBVIOUS
  <1>2. v \in Seq(Nat) /\ g \in Seq(Seq(Nat))
    BY <1>1 DEF FInv, FlowTypes
  <1>3. /\ F \in Seq(Framed) /\ sent[s] = g \o Bodies(F) /\ Joined(F, (v \o (a \o b)) \o x)
        /\ Reads(sb, c, x)
    BY <1>1 DEF Way
  <1>4. x \in Seq(Nat)
    BY <1>3, JoinedType DEF Reads
  <1>5. v \o a \in Seq(Nat) /\ b \o x \in Seq(Nat)
    <2> HIDE BlocksAssumption, BaseAssumption, LinkAssumption
    <2> QED
      BY <1>2, <1>4, ConcatProperties
  <1>6. (v \o (a \o b)) \o x = (v \o a) \o (b \o x)
    <2> HIDE BlocksAssumption, BaseAssumption, LinkAssumption
    <2>1. v \o (a \o b) = (v \o a) \o b
      BY <1>2, Assoc, Zenon
    <2>2. ((v \o a) \o b) \o x = (v \o a) \o (b \o x)
      BY <1>4, <1>5, Assoc, ZenonT(60)
    <2> QED
      BY <2>1, <2>2
  <1>7. PICK data, rest : data = v \o a /\ rest = b \o x
    OBVIOUS
  <1>8. r = Decoded(data) /\ Joined(F, data \o rest) /\ data \in Seq(Nat) /\ rest \in Seq(Nat)
    BY <1>1, <1>3, <1>5, <1>6, <1>7
  <1>9. PICK G : Goes(r, F, G, rest)
    BY <1>3, <1>8, DecodedGoes
  <1>10. PICK o, l : o = r.out /\ l = r.left
    OBVIOUS
  <1>11. /\ G \in Seq(Framed) /\ o \in Seq(Seq(Nat)) /\ l \in Seq(Nat)
         /\ Bodies(F) = o \o Bodies(G) /\ Joined(G, l \o rest)
         /\ G # <<>> => Len(l) < Len(G[1])
    BY <1>9, <1>10 DEF Goes
  <1>12. sent[s] = (g \o o) \o Bodies(G)
    <2>1. PICK q : q = Bodies(G)
      OBVIOUS
    <2>2. q \in Seq(Seq(Nat))
      BY <1>11, <2>1, BodiesOf
    <2>3. g \o (o \o q) = (g \o o) \o q
      <3> HIDE BlocksAssumption, BaseAssumption, LinkAssumption
      <3> QED
        BY <1>2, <1>11, <2>2, AssocOfMany, Zenon
    <2> QED
      BY <1>3, <1>11, <2>1, <2>3
  <1>13. (l \o b) \o x = l \o rest
    <2> HIDE BlocksAssumption, BaseAssumption, LinkAssumption
    <2>1. (l \o b) \o x = l \o (b \o x)
      BY <1>4, <1>11, Assoc, Zenon
    <2> QED
      BY <1>7, <2>1
  <1>14. Way(s, c, G, x)'
    BY <1>1, <1>3, <1>10, <1>11, <1>12, <1>13 DEF Way, Reads, Pieces, Piece
  <1> QED
    BY <1>14 DEF OnTheWay

LEMMA DecodedType ==
  ASSUME NEW data \in Seq(Nat)
  PROVE  Decoded(data).out \in Seq(Seq(Nat)) /\ Decoded(data).left \in Seq(Nat)
  <1>1. PICK f \in [1..(Len(data) + 1) -> Result] : Decoded(data) = f[1]
    BY DecodedIs
  <1>2. 1 \in 1..(Len(data) + 1)
    BY LenProperties
  <1>3. Decoded(data) \in Result
    BY <1>1, <1>2
  <1> QED
    BY <1>3 DEF Result

LEMMA ReadableFlows ==
  ASSUME FInv, ~spoilt, NEW s \in Sockets, Readable(s)
  PROVE  FlowTypes' /\ Flows'
  <1>1. UNCHANGED <<sb, sent, wide>> /\ conn[s] = "up"
    BY DEF Readable, ghosts
  <1>2. CASE RecvSize[s] - Len(rbuf[s]) = 0
    <2>1. Torn(s) /\ UNCHANGED <<sb, rbuf, sent, got, wide>>
      BY <1>1, <1>2 DEF Readable
    <2> QED
      BY <2>1, TornFlows
  <1>3. CASE RecvSize[s] - Len(rbuf[s]) # 0
    <2>1. PICK n \in 1..Min({RecvSize[s] - Len(rbuf[s]), Len(kernel[s])}) :
            /\ kernel' = [kernel EXCEPT ![s] = SubSeq(@, n + 1, Len(@))]
            /\ rbuf' = [rbuf EXCEPT ![s] = Decoded(rbuf[s] \o SubSeq(kernel[s], 1, n)).left]
            /\ got' = [got EXCEPT ![s] = @ \o Decoded(rbuf[s] \o SubSeq(kernel[s], 1, n)).out]
            /\ UNCHANGED conn
      BY <1>3 DEF Readable
    <2>2. kernel[s] \in Seq(Nat) /\ rbuf[s] \in Seq(Nat) /\ got[s] \in Seq(Seq(Nat))
      BY DEF FInv, FlowTypes, IInv, TypeOK
    <2>3. n \in 0..Len(kernel[s])
      <3>1. Len(kernel[s]) \in Int /\ RecvSize[s] - Len(rbuf[s]) \in Int
        BY <2>2, LenProperties
      <3>2. /\ Min({RecvSize[s] - Len(rbuf[s]), Len(kernel[s])}) <= Len(kernel[s])
            /\ Min({RecvSize[s] - Len(rbuf[s]), Len(kernel[s])}) \in Int
        BY <3>1, LeastOfTwo
      <3> QED
        BY <2>1, <3>1, <3>2
    <2>4. PICK a, b : a = SubSeq(kernel[s], 1, n) /\ b = SubSeq(kernel[s], n + 1, Len(kernel[s]))
      OBVIOUS
    <2>5. a \in Seq(Nat) /\ b \in Seq(Nat) /\ kernel[s] = a \o b
      BY <2>2, <2>3, <2>4, SplitAt
    <2>6. PICK r : r = Decoded(rbuf[s] \o a)
      OBVIOUS
    <2>7. r.out \in Seq(Seq(Nat)) /\ r.left \in Seq(Nat)
      <3>1. rbuf[s] \o a \in Seq(Nat)
        BY <2>2, <2>5, ConcatProperties
      <3> QED
        BY <2>6, <3>1, DecodedType
    <2>8. /\ kernel' = [kernel EXCEPT ![s] = b] /\ rbuf' = [rbuf EXCEPT ![s] = r.left]
          /\ got' = [got EXCEPT ![s] = got[s] \o r.out] /\ conn' = conn
      BY <2>1, <2>4, <2>6
    <2>9. /\ kernel'[s] = b /\ rbuf'[s] = r.left /\ got'[s] = got[s] \o r.out
          /\ \A t \in Sockets : t # s => kernel'[t] = kernel[t] /\ rbuf'[t] = rbuf[t] /\ got'[t] = got[t]
      BY <2>8 DEF FInv, FlowTypes, IInv, TypeOK
    <2>10. FlowTypes'
      <3>1. got[s] \o r.out \in Seq(Seq(Nat))
        BY <2>2, <2>7, ConcatProperties
      <3> QED
        BY <1>1, <2>7, <2>8, <2>9, <3>1 DEF FInv, FlowTypes
    <2>11. PICK lists, lost : Intact(lists, lost)
      BY DEF FInv, IInv
    <2>12. PICK own : own = Owners
      OBVIOUS
    <2>13. Holding(sb, Owners, lists, lost) /\ Holding(sb', own, lists, lost)
      BY <1>1, <2>11, <2>12 DEF Intact
    <2>14. ASSUME conn'[s] = "up", ~wide'[s] PROVE OnTheWay(s, lists[At(s)])'
      <3>1. ~wide[s] /\ s \in Owners
        BY <1>1, <2>14 DEF Owners
      <3>2. ChainOf(sb, s) = lists[At(s)]
        BY <2>13, <3>1, ChainIsList
      <3>3. PICK c : c = lists[At(s)]
        OBVIOUS
      <3>4. PICK F, x : Way(s, c, F, x)
        BY <1>1, <3>1, <3>2, <3>3 DEF FInv, Flows, OnTheWay
      <3>5. UNCHANGED <<sb, sent>>
        BY <1>1
      <3>6. kernel'[s] = b /\ rbuf'[s] = r.left /\ got'[s] = got[s] \o r.out
        BY <2>9
      <3>7. OnTheWay(s, c)'
        BY <2>5, <2>6, <3>4, <3>5, <3>6, WayOfReadable
      <3> QED
        BY <3>3, <3>7
    <2>15. \A t \in Sockets : conn'[t] = "up" => t \in own
      BY <2>8, <2>12 DEF Owners
    <2>16. \A t \in Sockets : t # s =>
             /\ lists[At(t)] = lists[At(t)] /\ Pieces(sb', lists[At(t)]) = Pieces(sb, lists[At(t)])
             /\ conn'[t] = conn[t] /\ wide'[t] = wide[t]
             /\ sent'[t] = sent[t] /\ got'[t] = got[t] /\ rbuf'[t] = rbuf[t] /\ kernel'[t] = kernel[t]
      BY <1>1, <2>8, <2>9
    <2>17. Flows'
      BY <2>13, <2>14, <2>15, <2>16, FlowsElsewhere
    <2> QED
      BY <2>10, <2>17
  <1> QED
    BY <1>2, <1>3

-----------------------------------------------------------------------------
(* The flow invariant *)

LEMMA InitGivesFInv == Init => FInv
  <1> SUFFICES ASSUME Init PROVE FInv
    OBVIOUS
  <1>1. IInv
    BY InitGivesIInv
  <1>2. <<>> \in Seq(Nat) /\ <<>> \in Seq(Seq(Nat))
    OBVIOUS
  <1>3. FlowTypes
    BY <1>2 DEF Init, FlowTypes
  <1>4. ASSUME NEW s \in Sockets PROVE OnTheWay(s, ChainOf(sb, s))
    <2>1. Holding(sb, Sockets, [p \in Place |-> <<>>], {})
      BY NoBuffersHolding DEF Init
    <2>2. ChainOf(sb, s) = <<>>
      <3>1. PICK lists : lists = [p \in Place |-> <<>>]
        OBVIOUS
      <3>2. At(s) \in Place
        BY Places
      <3>3. ChainOf(sb, s) = lists[At(s)]
        BY <2>1, <3>1, ChainIsList
      <3> QED
        BY <3>1, <3>2, <3>3
    <2>3. <<>> \o <<>> = <<>> /\ (<<>> \o <<>>) \o <<>> = <<>> /\ <<>> \in Seq(Framed)
      OBVIOUS
    <2>4. Bodies(<<>>) = <<>>
      BY <2>3, BodiesOf
    <2>5. Reads(sb, <<>>, <<>>) /\ Joined(<<>>, <<>>)
      BY NoBlocksRead, JoinedNone
    <2>6. rbuf[s] = <<>> /\ kernel[s] = <<>> /\ sent[s] = <<>> /\ got[s] = <<>>
      BY DEF Init
    <2>7. Way(s, <<>>, <<>>, <<>>)
      BY <2>3, <2>4, <2>5, <2>6 DEF Way
    <2> QED
      BY <2>2, <2>7 DEF OnTheWay
  <1> QED
    BY <1>1, <1>3, <1>4 DEF FInv, Flows

LEMMA StepKeepsFInv == FInv /\ [Next]_vars => FInv'
  <1> SUFFICES ASSUME FInv, [Next]_vars PROVE FInv'
    OBVIOUS
  <1>1. IInv'
    BY StepKeepsIInv DEF FInv
  <1>2. CASE UNCHANGED vars
    <2>1. UNCHANGED <<sb, conn, kernel, rbuf, sent, got, wide, spoilt>>
      BY <1>2 DEF vars, wire, ghosts
    <2> QED
      BY <1>1, <2>1, FlowsUnchanged DEF FInv
  <1>3. ASSUME ~spoilt, NEW s \in Sockets,
               \/ \E n \in Lengths : SendToGate(s, n) \/ Post(s, n)
               \/ Writable(s) \/ Lost(s) \/ Connect(s) \/ Readable(s) \/ Break(s)
        PROVE  FlowTypes' /\ Flows'
    <2>1. ASSUME NEW n \in Lengths, SendToGate(s, n) \/ Post(s, n) PROVE FlowTypes' /\ Flows'
      <3>1. \E t \in Sockets : Enqueue(t, n)
        BY <2>1 DEF SendToGate, Post
      <3> QED
        BY <1>3, <3>1, EnqueueFlows
    <2>2. CASE Writable(s)
      BY <1>3, <2>2, WritableFlows
    <2>3. CASE Lost(s)
      BY <1>3, <2>3, LostFlows
    <2>4. CASE Connect(s)
      BY <1>3, <2>4, ConnectFlows
    <2>5. CASE Readable(s)
      BY <1>3, <2>5, ReadableFlows
    <2>6. CASE Break(s)
      BY <1>3, <2>6, BreakFlows
    <2> QED
      BY <1>3, <2>1, <2>2, <2>3, <2>4, <2>5, <2>6
  <1> QED
    BY <1>1, <1>2, <1>3 DEF FInv, Next

\* While a connection lasts, the bytes of the packets sent and not dispatched
\* are in the receive buffer, in the kernel and in the blocks, none missing and
\* in their order (sendbuf.cc, recvbuf.cc, _ev_writable, _ev_readable).
THEOREM FlowInvariantHolds == Spec => []FInv
  <1>1. Init => FInv
    BY InitGivesFInv
  <1>2. FInv /\ [Next]_vars => FInv'
    BY StepKeepsFInv
  <1> QED
    BY <1>1, <1>2, PTL DEF Spec

-----------------------------------------------------------------------------
(* Nothing is stuck *)

LEMMA FInvGivesQuiet == FInv => QuietIsDelivered
  <1> SUFFICES ASSUME FInv, NEW s \in Sockets, conn[s] = "up", s \notin armed, kernel[s] = <<>>,
                      ~wide[s], ~spoilt
               PROVE  got[s] = sent[s]
    BY DEF QuietIsDelivered
  <1>1. PICK lists, lost : Intact(lists, lost)
    BY DEF FInv, IInv
  <1>2. Holding(sb, Owners, lists, lost) /\ s \in Owners /\ lists[At(s)] = <<>>
    BY <1>1 DEF Intact, Owners
  <1>3. ChainOf(sb, s) = <<>>
    BY <1>2, ChainIsList
  <1>4. PICK F, x : Way(s, <<>>, F, x)
    BY <1>3 DEF FInv, Flows, OnTheWay
  <1>5. x = <<>>
    BY <1>4, NoBlocksRead DEF Way
  <1>6. PICK v, g : v = rbuf[s] /\ g = got[s]
    OBVIOUS
  <1>7. v \in Seq(Nat) /\ g \in Seq(Seq(Nat)) /\ Len(v) \in Nat
    BY <1>6, LenProperties DEF FInv, FlowTypes
  <1>8. (v \o <<>>) \o <<>> = v
    BY <1>7
  <1>9. /\ F \in Seq(Framed) /\ sent[s] = g \o Bodies(F) /\ Joined(F, v)
        /\ F # <<>> => Len(v) < Len(F[1])
    BY <1>4, <1>5, <1>6, <1>8 DEF Way
  <1>10. F = <<>>
    <2> SUFFICES ASSUME F # <<>> PROVE FALSE
      OBVIOUS
    <2>1. PICK z \in Seq(Nat) : v = F[1] \o z /\ F[1] \in Seq(Nat)
      BY <1>9, JoinedFirst
    <2>2. PICK w : w = F[1]
      OBVIOUS
    <2>3. w \in Seq(Nat) /\ v = w \o z
      BY <2>1, <2>2
    <2>4. Len(v) = Len(w) + Len(z) /\ Len(w) \in Nat /\ Len(z) \in Nat
      BY <2>3, ConcatProperties, LenProperties
    <2>5. Len(v) < Len(w)
      BY <1>9, <2>2
    <2> QED
      BY <2>4, <2>5
  <1>11. Bodies(F) = <<>>
    BY <1>9, <1>10, BodiesOf
  <1> QED
    BY <1>6, <1>7, <1>9, <1>11

\* On an open connection with no event to come, all that was sent has been
\* dispatched.
THEOREM QuietIsDeliveredCorrect == Spec => []QuietIsDelivered
  <1>1. FInv => QuietIsDelivered
    BY FInvGivesQuiet
  <1> QED
    BY <1>1, FlowInvariantHolds, PTL

-----------------------------------------------------------------------------
(* The links implement PacketQueue *)

QueueStep == [Queues!Next]_(Queues!vars)

\* The bodies of a sequence lead all that follow it.
LEMMA PrefixOfConcat ==
  ASSUME NEW a \in Seq(Seq(Nat)), NEW b \in Seq(Seq(Nat))
  PROVE  Queues!IsPrefix(a, a \o b)
  <1> DEFINE c == a \o b
             m == Len(a)
  <1>1. m \in Nat /\ Len(b) \in Nat
    BY LenProperties
  <1>2. /\ c \in Seq(Seq(Nat)) /\ Len(c) = m + Len(b)
        /\ \A i \in 1..(m + Len(b)) : c[i] = IF i <= m THEN a[i] ELSE b[i - m]
    BY ConcatProperties
  <1> HIDE DEF c, m
  <1>3. m <= Len(c)
    BY <1>1, <1>2
  <1>4. \A i \in 1..m : a[i] \in Seq(Nat) /\ c[i] \in Seq(Nat) /\ c[i] = a[i]
    <2>1. \A i \in 1..m : i \in 1..(m + Len(b)) /\ i <= m
      BY <1>1
    <2>2. \A i \in 1..m : a[i] \in Seq(Nat)
      BY DEF m
    <2> QED
      BY <1>2, <2>1, <2>2
  <1>5. SubSeq(a, 1, m) = [i \in 1..m |-> a[i]]
    BY <1>1 DEF m
  <1>6. SubSeq(c, 1, m) = [i \in 1..m |-> c[i]]
    BY <1>1, <1>2, <1>3
  <1>7. SubSeq(a, 1, m) = SubSeq(c, 1, m)
    BY <1>4, <1>5, <1>6
  <1> QED
    BY <1>3, <1>7 DEF Queues!IsPrefix, m, c

\* What one socket may do in a step, seen from the outside.
Outside(s) ==
  \/ wide'[s] \/ spoilt'
  \/ /\ ~wide[s] /\ ~spoilt
     /\ \/ (conn'[s] = "up" <=> conn[s] = "up") /\ sent'[s] = sent[s] /\ got'[s] = got[s]
        \/ /\ conn[s] = "up" /\ conn'[s] = "up" /\ got'[s] = got[s]
           /\ \E n \in Lengths, d \in Bytes : sent'[s] = Append(sent[s], Body(Packet(n, d)))
        \/ /\ conn[s] = "up" /\ conn'[s] = "up" /\ sent'[s] = sent[s]
           /\ Queues!IsPrefix(got[s], got'[s]) /\ Queues!IsPrefix(got'[s], sent[s])
        \/ conn[s] = "up" /\ conn'[s] # "up" /\ sent'[s] = sent[s] /\ got'[s] = got[s]
  \/ conn[s] # "up" /\ conn'[s] = "up" /\ sent'[s] = <<>> /\ got'[s] = <<>>

LEMMA OutsideIsStep ==
  ASSUME NEW s \in Sockets, Outside(s)
  PROVE  Queues!Step(s)
  <1> DEFINE up   == [t \in Sockets |-> conn[t] = "up"]
             void == [t \in Sockets |-> wide[t] \/ spoilt]
  <1>1. (up[s] <=> conn[s] = "up") /\ (up'[s] <=> conn'[s] = "up")
    OBVIOUS
  <1>2. (void[s] <=> wide[s] \/ spoilt) /\ (void'[s] <=> wide'[s] \/ spoilt')
    OBVIOUS
  <1>3. (conn'[s] = "up" <=> conn[s] = "up") => up'[s] = up[s]
    OBVIOUS
  <1>4. CASE wide'[s] \/ spoilt'
    <2>1. void'[s]
      BY <1>2, <1>4
    <2> QED
      BY <2>1 DEF Queues!Step
  <1>5. CASE conn[s] # "up" /\ conn'[s] = "up" /\ sent'[s] = <<>> /\ got'[s] = <<>>
    <2>1. ~up[s] /\ up'[s]
      BY <1>1, <1>5
    <2>2. Queues!Connect(s)
      BY <1>5, <2>1 DEF Queues!Connect
    <2> QED
      BY <2>2 DEF Queues!Step
  <1>6. ASSUME ~wide[s], ~spoilt, Queues!Keep(s) \/ Queues!Send(s) \/ Queues!Deliver(s) \/ Queues!Break(s)
        PROVE  Queues!Step(s)
    <2>1. ~void[s]
      BY <1>2, <1>6
    <2> QED
      BY <1>6, <2>1 DEF Queues!Step
  <1>7. CASE ~wide[s] /\ ~spoilt /\ (conn'[s] = "up" <=> conn[s] = "up")
             /\ sent'[s] = sent[s] /\ got'[s] = got[s]
    <2>1. Queues!Keep(s)
      BY <1>3, <1>7 DEF Queues!Keep
    <2> QED
      BY <1>6, <1>7, <2>1
  <1>8. CASE /\ ~wide[s] /\ ~spoilt /\ conn[s] = "up" /\ conn'[s] = "up" /\ got'[s] = got[s]
             /\ \E n \in Lengths, d \in Bytes : sent'[s] = Append(sent[s], Body(Packet(n, d)))
    <2>1. up[s] /\ up'[s]
      BY <1>1, <1>8
    <2>2. \E body \in {Body(Packet(n, d)) : n \in Lengths, d \in Bytes} :
            sent'[s] = Append(sent[s], body)
      BY <1>8
    <2>3. Queues!Send(s)
      BY <1>8, <2>1, <2>2 DEF Queues!Send
    <2> QED
      BY <1>6, <1>8, <2>3
  <1>9. CASE /\ ~wide[s] /\ ~spoilt /\ conn[s] = "up" /\ conn'[s] = "up" /\ sent'[s] = sent[s]
             /\ Queues!IsPrefix(got[s], got'[s]) /\ Queues!IsPrefix(got'[s], sent[s])
    <2>1. up[s] /\ up'[s]
      BY <1>1, <1>9
    <2>2. Queues!Deliver(s)
      BY <1>9, <2>1 DEF Queues!Deliver
    <2> QED
      BY <1>6, <1>9, <2>2
  <1>10. CASE /\ ~wide[s] /\ ~spoilt /\ conn[s] = "up" /\ conn'[s] # "up"
              /\ sent'[s] = sent[s] /\ got'[s] = got[s]
    <2>1. up[s] /\ ~up'[s]
      BY <1>1, <1>10
    <2>2. Queues!Break(s)
      BY <1>10, <2>1 DEF Queues!Break
    <2> QED
      BY <1>6, <1>10, <2>2
  <1> QED
    BY <1>4, <1>5, <1>7, <1>8, <1>9, <1>10 DEF Outside

LEMMA EnqueueOutside ==
  ASSUME FInv, ~spoilt, NEW s \in Sockets, NEW n \in Lengths, Enqueue(s, n), NEW t \in Sockets
  PROVE  Outside(t)
  <1>1. UNCHANGED <<conn, got>>
    BY DEF Enqueue, wire
  <1>2. CASE UNCHANGED <<sent, wide>>
    BY <1>1, <1>2 DEF Outside
  <1>3. CASE /\ conn[s] = "up"
             /\ sent' = [sent EXCEPT ![s] = Append(@, Body(Packet(n, packets % Base)))]
             /\ wide' = [wide EXCEPT ![s] = @ \/ n >= Wrap]
    <2>1. packets % Base \in Bytes
      <3>1. packets \in Nat
        BY DEF FInv, IInv, TypeOK
      <3>2. packets % Base \in 0..(Base - 1)
        BY <3>1
      <3> QED
        BY <3>2 DEF Bytes
    <2>2. PICK d \in Bytes : d = packets % Base
      BY <2>1
    <2>3. PICK packet : packet = Packet(n, d)
      OBVIOUS
    <2>4. sent' = [sent EXCEPT ![s] = Append(@, Body(packet))]
      BY <1>3, <2>2, <2>3
    <2>5. CASE t = s
      <3>1. sent'[s] = Append(sent[s], Body(Packet(n, d)))
        BY <2>3, <2>4 DEF FInv, FlowTypes
      <3>2. wide[s] => wide'[s]
        BY <1>3 DEF FInv, FlowTypes
      <3> QED
        BY <1>1, <1>3, <2>5, <3>1, <3>2 DEF Outside
    <2>6. CASE t # s
      <3>1. sent'[t] = sent[t] /\ wide'[t] = wide[t]
        BY <1>3, <2>4, <2>6 DEF FInv, FlowTypes
      <3> QED
        BY <1>1, <3>1 DEF Outside
    <2> QED
      BY <2>5, <2>6
  <1> QED
    BY <1>2, <1>3 DEF Enqueue

\* The packets that a readable event dispatches come next.
LEMMA ReadableOutside ==
  ASSUME FInv, FInv', ~spoilt, NEW s \in Sockets, Readable(s), NEW t \in Sockets
  PROVE  Outside(t)
  <1>1. UNCHANGED <<sent, wide, spoilt>> /\ conn[s] = "up"
    BY DEF Readable, ghosts
  <1>2. CASE t # s
    <2>1. conn'[t] = conn[t] /\ got'[t] = got[t]
      BY <1>2 DEF Readable, Torn, FInv, FlowTypes, IInv, TypeOK
    <2> QED
      BY <1>1, <2>1 DEF Outside
  <1>3. CASE t = s /\ wide[s]
    BY <1>1, <1>3 DEF Outside
  <1>4. CASE t = s /\ ~wide[s] /\ Torn(s) /\ UNCHANGED got
    <2>1. conn'[s] = "broken"
      BY <1>4 DEF Torn, FInv, IInv, TypeOK
    <2> QED
      BY <1>1, <1>4, <2>1 DEF Outside
  <1>5. CASE /\ t = s /\ ~wide[s] /\ UNCHANGED conn
             /\ \E data : got' = [got EXCEPT ![s] = @ \o Decoded(rbuf[s] \o data).out]
                          /\ data \in Seq(Nat)
    <2>1. PICK data \in Seq(Nat) : got' = [got EXCEPT ![s] = @ \o Decoded(rbuf[s] \o data).out]
      BY <1>5
    <2>2. PICK o : o = Decoded(rbuf[s] \o data).out
      OBVIOUS
    <2>3. rbuf[s] \o data \in Seq(Nat) /\ got[s] \in Seq(Seq(Nat))
      BY ConcatProperties DEF FInv, FlowTypes
    <2>4. o \in Seq(Seq(Nat))
      BY <2>2, <2>3, DecodedType
    <2>5. got'[s] = got[s] \o o
      BY <2>1, <2>2 DEF FInv, FlowTypes
    <2>6. Queues!IsPrefix(got[s], got'[s])
      BY <2>3, <2>4, <2>5, PrefixOfConcat
    <2>7. \E F \in Seq(Framed) : sent'[s] = got'[s] \o Bodies(F)
      <3>1. ~spoilt' /\ conn'[s] = "up" /\ ~wide'[s]
        BY <1>1, <1>5
      <3> QED
        BY <3>1 DEF FInv, Flows, OnTheWay, Way
    <2>8. PICK F \in Seq(Framed) : sent[s] = got'[s] \o Bodies(F)
      BY <1>1, <2>7
    <2>9. PICK g, q : g = got'[s] /\ q = Bodies(F)
      OBVIOUS
    <2>10. g \in Seq(Seq(Nat)) /\ q \in Seq(Seq(Nat))
      BY <2>8, <2>9, BodiesOf DEF FInv, FlowTypes
    <2>11. Queues!IsPrefix(g, g \o q)
      BY <2>10, PrefixOfConcat
    <2>12. Queues!IsPrefix(got'[s], sent[s])
      BY <2>8, <2>9, <2>11
    <2> QED
      BY <1>1, <1>5, <2>6, <2>12 DEF Outside
  <1>6. \/ Torn(s) /\ UNCHANGED got
        \/ /\ UNCHANGED conn
           /\ \E data : got' = [got EXCEPT ![s] = @ \o Decoded(rbuf[s] \o data).out]
                        /\ data \in Seq(Nat)
    <2>1. CASE RecvSize[s] - Len(rbuf[s]) = 0
      BY <2>1 DEF Readable
    <2>2. CASE RecvSize[s] - Len(rbuf[s]) # 0
      <3>1. PICK n \in 1..Min({RecvSize[s] - Len(rbuf[s]), Len(kernel[s])}) :
              /\ got' = [got EXCEPT ![s] = @ \o Decoded(rbuf[s] \o SubSeq(kernel[s], 1, n)).out]
              /\ UNCHANGED conn
        BY <2>2 DEF Readable
      <3>2. kernel[s] \in Seq(Nat) /\ Len(kernel[s]) \in Nat
        BY LenProperties DEF FInv, IInv, TypeOK
      <3>3. n \in 0..Len(kernel[s])
        <4>1. Len(kernel[s]) \in Int /\ RecvSize[s] - Len(rbuf[s]) \in Int
          BY LenProperties, SMTT(60) DEF FInv, FlowTypes, IInv, TypeOK
        <4>2. /\ Min({RecvSize[s] - Len(rbuf[s]), Len(kernel[s])}) <= Len(kernel[s])
              /\ Min({RecvSize[s] - Len(rbuf[s]), Len(kernel[s])}) \in Int
          BY <4>1, LeastOfTwo
        <4> QED
          BY <3>1, <4>1, <4>2
      <3>4. SubSeq(kernel[s], 1, n) \in Seq(Nat)
        BY <3>2, <3>3, SplitAt
      <3> QED
        BY <3>1, <3>4
    <2> QED
      BY <2>1, <2>2
  <1> QED
    BY <1>2, <1>3, <1>4, <1>5, <1>6

LEMMA NextIsQueueStep == FInv /\ FInv' /\ [Next]_vars => QueueStep
  <1> SUFFICES ASSUME FInv, FInv', [Next]_vars PROVE QueueStep
    OBVIOUS
  <1>1. CASE UNCHANGED vars
    <2>1. UNCHANGED <<conn, sent, got, wide, spoilt>>
      BY <1>1 DEF vars, wire, ghosts
    <2> QED
      BY <2>1 DEF QueueStep, Queues!vars
  <1>2. CASE Next
    <2>1. ~spoilt
      BY <1>2 DEF Next
    <2>2. PICK s \in Sockets :
            \/ \E n \in Lengths : SendToGate(s, n) \/ Post(s, n)
            \/ Writable(s) \/ Lost(s) \/ Connect(s) \/ Readable(s) \/ Break(s)
      BY <1>2 DEF Next
    <2>3. ASSUME NEW t \in Sockets PROVE Outside(t)
      <3>1. ASSUME NEW n \in Lengths, SendToGate(s, n) \/ Post(s, n) PROVE Outside(t)
        <4>1. \E r \in Sockets : Enqueue(r, n)
          BY <3>1 DEF SendToGate, Post
        <4> QED
          BY <2>1, <4>1, EnqueueOutside
      <3>2. CASE Writable(s) \/ Lost(s)
        <4>1. UNCHANGED <<sent, got, wide, spoilt>>
          BY <3>2 DEF Writable, Lost, wire
        <4>2. conn[t] = "up" <=> conn'[t] = "up"
          BY <3>2 DEF Writable, Lost, RealClose, FInv, IInv, TypeOK
        <4> QED
          BY <2>1, <4>1, <4>2 DEF Outside
      <3>3. CASE Connect(s)
        <4>1. /\ conn[s] = "closed" /\ conn'[s] = "up" /\ sent'[s] = <<>> /\ got'[s] = <<>>
              /\ t # s => /\ conn'[t] = conn[t] /\ sent'[t] = sent[t] /\ got'[t] = got[t]
                          /\ wide'[t] = wide[t]
          BY <3>3 DEF Connect, FInv, FlowTypes, IInv, TypeOK
        <4> QED
          BY <2>1, <4>1 DEF Outside
      <3>4. CASE Readable(s)
        BY <2>1, <3>4, ReadableOutside
      <3>5. CASE Break(s)
        <4>1. UNCHANGED <<sent, got, wide, spoilt>>
          BY <3>5 DEF Break, ghosts
        <4>2. /\ conn[s] = "up" /\ conn'[s] = "broken"
              /\ t # s => conn'[t] = conn[t]
          BY <3>5 DEF Break, Torn, FInv, IInv, TypeOK
        <4> QED
          BY <2>1, <4>1, <4>2 DEF Outside
      <3> QED
        BY <2>2, <3>1, <3>2, <3>3, <3>4, <3>5
    <2>4. \A t \in Sockets : Queues!Step(t)
      BY <2>3, OutsideIsStep
    <2> QED
      BY <2>4 DEF QueueStep, Queues!Next
  <1> QED
    BY <1>1, <1>2

LEMMA InitIsQueueInit == Init => Queues!Init
  <1> SUFFICES ASSUME Init PROVE Queues!Init
    OBVIOUS
  <1>1. /\ [s \in Sockets |-> conn[s] = "up"] = [s \in Sockets |-> TRUE]
        /\ [s \in Sockets |-> wide[s] \/ spoilt] = [s \in Sockets |-> FALSE]
    BY DEF Init
  <1> QED
    BY <1>1 DEF Init, Queues!Init

\* For any packets, sizes of blocks, buffers and kernels, however the bytes are
\* cut on their way, and whatever breaks, closes and opens again: what is
\* dispatched on a connection is what was sent on it, in its order, each once
\* (sendbuf.cc, recvbuf.cc, gatesrv.cc, gameclient.cc, dbclient.cc).
THEOREM PacketQueueImplemented == Spec => ImplementsPacketQueue
  BY FlowInvariantHolds, InitIsQueueInit, NextIsQueueStep, PTL
  DEF Spec, ImplementsPacketQueue, Queues!Spec, QueueStep

=============================================================================
