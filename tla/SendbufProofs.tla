--------------------------- MODULE SendbufProofs ---------------------------
(***************************************************************************)
(* Proofs about the operators of Sendbuf, for any sockets, any finite set  *)
(* of blocks and any sizes of blocks.                                      *)
(*                                                                         *)
(* The blocks are chained by `next`.  Where they are is told by sequences: *)
(* one for each socket, and one for the pool of each size.                 *)
(***************************************************************************)
EXTENDS Sendbuf, Recursion, FiniteSetTheorems, SequenceTheorems

USE BlocksAssumption

\* The ends of a list of blocks.
FirstOf(c) == IF c = <<>> THEN Nil ELSE c[1]
LastOf(c) == IF c = <<>> THEN Nil ELSE c[Len(c)]

\* c are different blocks, each pointing to the one behind it.
List(next, c) ==
  /\ c \in Seq(Blocks)
  /\ \A i, j \in 1..Len(c) : c[i] = c[j] => i = j
  /\ \A i \in 1..Len(c) : next[c[i]] = IF i < Len(c) THEN c[i + 1] ELSE Nil

-----------------------------------------------------------------------------
(* Lists *)

LEMMA Members ==
  ASSUME NEW c \in Seq(Blocks)
  PROVE  /\ Len(c) \in Nat /\ DOMAIN c = 1..Len(c)
         /\ ToSet(c) = {c[i] : i \in 1..Len(c)}
         /\ ToSet(c) \subseteq Blocks
         /\ \A i \in 1..Len(c) : c[i] \in Blocks /\ c[i] \in ToSet(c) /\ c[i] # Nil
         /\ c = <<>> <=> Len(c) = 0
         /\ c # <<>> => 1 \in 1..Len(c) /\ Len(c) \in 1..Len(c)
  <1>1. Len(c) \in Nat /\ DOMAIN c = 1..Len(c)
    BY LenProperties
  <1>2. \A i \in 1..Len(c) : c[i] \in Blocks
    BY ElementOfSeq
  <1>3. c = <<>> <=> Len(c) = 0
    BY EmptySeq
  <1> QED
    BY <1>1, <1>2, <1>3 DEF ToSet

LEMMA EmptyList ==
  ASSUME NEW next
  PROVE  List(next, <<>>) /\ ToSet(<<>>) = {} /\ FirstOf(<<>>) = Nil /\ LastOf(<<>>) = Nil
  BY DEF List, ToSet, FirstOf, LastOf

\* A list does not notice what happens to other blocks.
LEMMA ListElsewhere ==
  ASSUME NEW f, NEW g, NEW c, List(f, c), \A b \in ToSet(c) : g[b] = f[b]
  PROVE  List(g, c)
  BY Members DEF List

LEMMA TailOfList ==
  ASSUME NEW next, NEW c, List(next, c), c # <<>>
  PROVE  /\ c[1] \in Blocks
         /\ List(next, Tail(c))
         /\ next[c[1]] = FirstOf(Tail(c))
         /\ LastOf(Tail(c)) = IF next[c[1]] = Nil THEN Nil ELSE LastOf(c)
         /\ c[1] \notin ToSet(Tail(c)) /\ ToSet(c) = ToSet(Tail(c)) \cup {c[1]}
  <1> DEFINE t == Tail(c)
  <1>1. c \in Seq(Blocks) /\ Len(c) \in Nat /\ Len(c) >= 1
    BY Members DEF List
  <1>2. t \in Seq(Blocks) /\ Len(t) = Len(c) - 1 /\ \A i \in 1..Len(t) : t[i] = c[i + 1]
    BY <1>1, HeadTailProperties
  <1> HIDE DEF t
  <1>3. List(next, t)
    <2>1. ASSUME NEW i \in 1..Len(t) PROVE next[t[i]] = IF i < Len(t) THEN t[i + 1] ELSE Nil
      <3>1. i + 1 \in 1..Len(c) /\ (i < Len(t) <=> i + 1 < Len(c))
        BY <1>1, <1>2
      <3>2. i < Len(t) => t[i + 1] = c[i + 2]
        <4>1. i < Len(t) => i + 1 \in 1..Len(t) /\ (i + 1) + 1 = i + 2
          BY <1>1, <1>2
        <4> QED
          BY <1>2, <4>1
      <3>3. next[c[i + 1]] = IF i + 1 < Len(c) THEN c[i + 2] ELSE Nil
        BY <3>1, <1>1 DEF List
      <3> QED
        BY <1>2, <3>1, <3>2, <3>3
    <2>2. ASSUME NEW i \in 1..Len(t), NEW j \in 1..Len(t), t[i] = t[j] PROVE i = j
      <3>1. i + 1 \in 1..Len(c) /\ j + 1 \in 1..Len(c) /\ c[i + 1] = c[j + 1]
        BY <1>1, <1>2, <2>2, SMTT(60)
      <3>2. i + 1 = j + 1
        BY <3>1 DEF List
      <3> QED
        BY <3>2
    <2> QED
      BY <1>2, <2>1, <2>2 DEF List
  <1>4. 1 \in 1..Len(c) /\ c[1] \in Blocks
    BY <1>1, Members
  <1>5. next[c[1]] = IF 1 < Len(c) THEN c[2] ELSE Nil
    BY <1>4 DEF List
  <1>6. CASE Len(c) = 1
    <2>1. t = <<>>
      BY <1>2, <1>6, Members
    <2>2. ToSet(c) = {c[1]}
      BY <1>1, <1>6, Members
    <2>3. next[c[1]] = Nil /\ FirstOf(t) = Nil /\ LastOf(t) = Nil /\ ToSet(t) = {}
      BY <1>5, <1>6, <2>1, EmptyList
    <2> QED
      BY <1>3, <1>4, <2>2, <2>3 DEF t
  <1>7. CASE Len(c) > 1
    <2>1. t # <<>> /\ t[1] = c[2] /\ Len(t) \in 1..Len(t) /\ t[Len(t)] = c[Len(c)]
      <3>1. Len(t) \in 1..Len(t) /\ 1 \in 1..Len(t) /\ Len(t) + 1 = Len(c) /\ 1 + 1 = 2
        BY <1>1, <1>2, <1>7
      <3> QED
        BY <1>2, <3>1, Members
    <2>2. c[2] \in Blocks /\ c[2] # Nil
      BY <1>1, <1>7, Members
    <2>3. next[c[1]] = FirstOf(t) /\ LastOf(t) = IF next[c[1]] = Nil THEN Nil ELSE LastOf(c)
      BY <1>5, <1>7, <2>1, <2>2 DEF FirstOf, LastOf
    <2>4. c[1] \notin ToSet(t)
      <3>1. SUFFICES ASSUME NEW i \in 1..Len(t), t[i] = c[1] PROVE FALSE
        BY <1>2, Members
      <3>2. i + 1 \in 1..Len(c) /\ c[i + 1] = c[1]
        BY <1>1, <1>2, <3>1
      <3>3. i + 1 = 1
        BY <1>4, <3>2 DEF List
      <3> QED
        BY <3>3
    <2>5. ToSet(c) = ToSet(t) \cup {c[1]}
      <3>1. ASSUME NEW b \in ToSet(c) PROVE b \in ToSet(t) \cup {c[1]}
        <4>1. PICK i \in 1..Len(c) : b = c[i]
          BY <1>1, <3>1, Members
        <4>2. CASE i # 1
          <5>1. i - 1 \in 1..Len(t) /\ t[i - 1] = c[i]
            BY <1>1, <1>2, <4>2
          <5> QED
            BY <4>1, <5>1, <1>2, Members
        <4> QED
          BY <4>1, <4>2
      <3>2. ASSUME NEW b \in ToSet(t) PROVE b \in ToSet(c)
        <4>1. PICK i \in 1..Len(t) : b = t[i]
          BY <1>2, <3>2, Members
        <4>2. i + 1 \in 1..Len(c) /\ b = c[i + 1]
          BY <1>1, <1>2, <4>1
        <4> QED
          BY <1>1, <4>2, Members
      <3> QED
        BY <1>1, <1>4, <3>1, <3>2, Members
    <2> QED
      BY <1>3, <1>4, <2>3, <2>4, <2>5 DEF t
  <1>8. Len(c) = 1 \/ Len(c) > 1
    <2>1. \A n \in Nat : n >= 1 => n = 1 \/ n > 1
      OBVIOUS
    <2> QED
      BY <1>1, <2>1, Zenon
  <1> QED
    BY <1>6, <1>7, <1>8

LEMMA ConsList ==
  ASSUME NEW next \in [Blocks -> Blocks \cup {Nil}], NEW c, List(next, c),
         NEW b \in Blocks, b \notin ToSet(c)
  PROVE  /\ List([next EXCEPT ![b] = FirstOf(c)], <<b>> \o c)
         /\ FirstOf(<<b>> \o c) = b
         /\ ToSet(<<b>> \o c) = ToSet(c) \cup {b}
  <1> DEFINE d == <<b>> \o c
             f == [next EXCEPT ![b] = FirstOf(c)]
  <1>1. c \in Seq(Blocks) /\ Len(c) \in Nat
    BY Members DEF List
  <1>2. <<b>> \in Seq(Blocks) /\ Len(<<b>>) = 1 /\ <<b>>[1] = b
    OBVIOUS
  <1>3. /\ d \in Seq(Blocks) /\ Len(d) = Len(c) + 1 /\ d[1] = b
        /\ \A i \in 1..Len(c) : d[i + 1] = c[i]
    <2>1. d \in Seq(Blocks) /\ Len(d) = 1 + Len(c) /\ d # <<>>
      BY <1>1, <1>2, ConcatProperties
    <2>2. \A i \in 1..(1 + Len(c)) : d[i] = IF i <= 1 THEN <<b>>[i] ELSE c[i - 1]
      BY <1>1, <1>2, ConcatProperties
    <2> HIDE DEF d
    <2>3. \A i \in 1..Len(c) : i + 1 \in 1..(1 + Len(c)) /\ ~(i + 1 <= 1) /\ (i + 1) - 1 = i
      BY <1>1
    <2>4. 1 \in 1..(1 + Len(c)) /\ 1 <= 1
      BY <1>1
    <2> QED
      BY <1>1, <1>2, <2>1, <2>2, <2>3, <2>4
  <1>4. f[b] = FirstOf(c) /\ \A e \in ToSet(c) : f[e] = next[e]
    BY <1>1, Members
  <1> HIDE DEF d, f
  <1>5. \A i \in 1..Len(d) : i = 1 \/ (i - 1 \in 1..Len(c) /\ d[i] = c[i - 1])
    <2> SUFFICES ASSUME NEW i \in 1..Len(d), i # 1
                 PROVE  i - 1 \in 1..Len(c) /\ d[i] = c[i - 1]
      OBVIOUS
    <2>1. i - 1 \in 1..Len(c) /\ (i - 1) + 1 = i
      BY <1>1, <1>3
    <2> QED
      BY <1>3, <2>1
  <1>6. List(f, c)
    BY <1>4, ListElsewhere
  <1>7. ASSUME NEW i \in 1..Len(d), NEW j \in 1..Len(d), d[i] = d[j] PROVE i = j
    <2>1. CASE i = 1 /\ j # 1
      BY <1>1, <1>3, <1>5, <1>7, <2>1, Members, ZenonT(60)
    <2>2. CASE i # 1 /\ j = 1
      BY <1>1, <1>3, <1>5, <1>7, <2>2, Members
    <2>3. CASE i # 1 /\ j # 1
      <3>1. i - 1 \in 1..Len(c) /\ j - 1 \in 1..Len(c) /\ c[i - 1] = c[j - 1]
        BY <1>5, <1>7, <2>3
      <3>2. i - 1 = j - 1
        BY <1>6, <3>1 DEF List
      <3> QED
        BY <1>1, <1>3, <3>2
    <2> QED
      BY <2>1, <2>2, <2>3
  <1>8. ASSUME NEW i \in 1..Len(d) PROVE f[d[i]] = IF i < Len(d) THEN d[i + 1] ELSE Nil
    <2>1. CASE i = 1
      <3>1. CASE c = <<>>
        BY <1>1, <1>3, <1>4, <2>1, <3>1, Members DEF FirstOf
      <3>2. CASE c # <<>>
        <4>1. 1 \in 1..Len(c) /\ 1 < Len(d) /\ 1 + 1 = 2
          BY <1>1, <1>3, <3>2, Members
        <4>2. d[1 + 1] = c[1]
          BY <1>3, <4>1
        <4> QED
          BY <1>3, <1>4, <2>1, <3>2, <4>1, <4>2 DEF FirstOf
      <3> QED
        BY <3>1, <3>2
    <2>2. CASE i # 1
      <3>1. i - 1 \in 1..Len(c) /\ d[i] = c[i - 1]
        BY <1>5, <2>2
      <3>2. f[c[i - 1]] = IF i - 1 < Len(c) THEN c[(i - 1) + 1] ELSE Nil
        BY <1>6, <3>1 DEF List
      <3>3. (i - 1 < Len(c) <=> i < Len(d)) /\ (i - 1) + 1 = i
        BY <1>1, <1>3
      <3>4. i - 1 < Len(c) => d[i + 1] = c[i]
        <4>1. i - 1 < Len(c) => i \in 1..Len(c)
          BY <1>1, <1>3
        <4> QED
          BY <1>3, <4>1
      <3> QED
        BY <3>1, <3>2, <3>3, <3>4
    <2> QED
      BY <2>1, <2>2
  <1>9. ToSet(d) = ToSet(c) \cup {b}
    <2>1. ASSUME NEW e \in ToSet(d) PROVE e \in ToSet(c) \cup {b}
      <3>1. PICK i \in 1..Len(d) : e = d[i]
        BY <1>3, <2>1, Members
      <3> QED
        BY <1>1, <1>3, <1>5, <3>1, Members
    <2>2. ASSUME NEW e \in ToSet(c) PROVE e \in ToSet(d)
      <3>1. PICK i \in 1..Len(c) : e = c[i]
        BY <1>1, <2>2, Members
      <3>2. i + 1 \in 1..Len(d) /\ e = d[i + 1]
        BY <1>1, <1>3, <3>1
      <3> QED
        BY <1>3, <3>2, Members
    <2>3. b \in ToSet(d)
      <3>1. 1 \in 1..Len(d)
        BY <1>1, <1>3
      <3> QED
        BY <1>3, <3>1, Members
    <2> QED
      BY <2>1, <2>2, <2>3
  <1>10. FirstOf(d) = b
    <2>1. d # <<>>
      BY <1>1, <1>3, Members
    <2> QED
      BY <1>3, <2>1 DEF FirstOf
  <1>11. List(f, d)
    BY <1>3, <1>7, <1>8 DEF List
  <1> QED
    BY <1>9, <1>10, <1>11 DEF d, f

LEMMA AppendList ==
  ASSUME NEW next \in [Blocks -> Blocks \cup {Nil}], NEW c, List(next, c), c # <<>>,
         NEW b \in Blocks, b \notin ToSet(c)
  PROVE  /\ List([[next EXCEPT ![LastOf(c)] = b] EXCEPT ![b] = Nil], Append(c, b))
         /\ FirstOf(Append(c, b)) = FirstOf(c) /\ LastOf(Append(c, b)) = b
         /\ ToSet(Append(c, b)) = ToSet(c) \cup {b}
  <1> DEFINE d == Append(c, b)
             f == [[next EXCEPT ![LastOf(c)] = b] EXCEPT ![b] = Nil]
             n == Len(c)
  <1>1. c \in Seq(Blocks) /\ n \in Nat /\ n \in 1..n /\ 1 \in 1..n /\ LastOf(c) = c[n] /\ c[n] \in Blocks
    BY Members DEF List, LastOf
  <1>2. /\ d \in Seq(Blocks) /\ Len(d) = n + 1 /\ d[n + 1] = b
        /\ \A i \in 1..n : d[i] = c[i]
    BY <1>1, AppendProperties
  <1>3. f[b] = Nil /\ f[c[n]] = b /\ \A e \in ToSet(c) : e # c[n] => f[e] = next[e]
    <2>1. c[n] # b /\ c[n] \in ToSet(c) /\ \A e \in ToSet(c) : e \in Blocks /\ e # b
      BY <1>1, Members
    <2> QED
      BY <1>1, <2>1
  <1> HIDE DEF d, f
  <1>4. \A i \in 1..Len(d) : (i = n + 1 /\ d[i] = b) \/ (i \in 1..n /\ d[i] = c[i])
    <2> SUFFICES ASSUME NEW i \in 1..Len(d), i # n + 1 PROVE i \in 1..n
      BY <1>2
    <2> QED
      BY <1>1, <1>2
  <1>5. \A i \in 1..n : c[i] \in ToSet(c)
    BY <1>1, Members
  <1>6. ASSUME NEW i \in 1..Len(d), NEW j \in 1..Len(d), d[i] = d[j] PROVE i = j
    <2>1. CASE i = n + 1 /\ j \in 1..n
      BY <1>2, <1>4, <1>5, <1>6, <2>1
    <2>2. CASE j = n + 1 /\ i \in 1..n
      BY <1>2, <1>4, <1>5, <1>6, <2>2
    <2>3. CASE i \in 1..n /\ j \in 1..n
      <3>1. c[i] = c[j]
        BY <1>2, <1>6, <2>3
      <3> QED
        BY <2>3, <3>1 DEF List
    <2> QED
      BY <1>4, <2>1, <2>2, <2>3
  <1>7. ASSUME NEW i \in 1..Len(d) PROVE f[d[i]] = IF i < Len(d) THEN d[i + 1] ELSE Nil
    <2>1. CASE i = n + 1
      BY <1>1, <1>2, <1>3, <2>1
    <2>2. CASE i = n
      <3>1. d[i] = c[n] /\ i < Len(d) /\ d[i + 1] = b
        BY <1>1, <1>2, <2>2
      <3> QED
        BY <1>3, <3>1
    <2>3. CASE i \in 1..n /\ i # n
      <3>1. i < n /\ i + 1 \in 1..n /\ i < Len(d)
        BY <1>1, <1>2, <2>3
      <3>2. c[i] # c[n] /\ next[c[i]] = c[i + 1]
        BY <1>1, <2>3, <3>1 DEF List
      <3>3. d[i] = c[i] /\ d[i + 1] = c[i + 1]
        BY <1>2, <2>3, <3>1
      <3> QED
        BY <1>3, <1>5, <2>3, <3>1, <3>2, <3>3
    <2> QED
      BY <1>4, <2>1, <2>2, <2>3
  <1>8. List(f, d)
    BY <1>2, <1>6, <1>7 DEF List
  <1>9. d # <<>> /\ 1 \in 1..n /\ Len(d) \in 1..Len(d)
    BY <1>1, <1>2, Members
  <1>10. FirstOf(d) = FirstOf(c) /\ LastOf(d) = b
    BY <1>2, <1>9 DEF FirstOf, LastOf
  <1>11. ToSet(d) = ToSet(c) \cup {b}
    <2>1. ASSUME NEW e \in ToSet(d) PROVE e \in ToSet(c) \cup {b}
      <3>1. PICK i \in 1..Len(d) : e = d[i]
        BY <1>2, <2>1, Members
      <3> QED
        BY <1>4, <1>5, <3>1
    <2>2. ASSUME NEW e \in ToSet(c) PROVE e \in ToSet(d)
      <3>1. PICK i \in 1..n : e = c[i]
        BY <1>1, <2>2, Members
      <3>2. i \in 1..Len(d) /\ e = d[i]
        BY <1>1, <1>2, <3>1
      <3> QED
        BY <1>2, <3>2, Members
    <2>3. b \in ToSet(d)
      BY <1>2, <1>9, Members
    <2> QED
      BY <2>1, <2>2, <2>3
  <1> QED
    BY <1>8, <1>10, <1>11 DEF d, f

LEMMA SingleList ==
  ASSUME NEW next, NEW b \in Blocks, next[b] = Nil
  PROVE  /\ List(next, <<b>>) /\ FirstOf(<<b>>) = b /\ LastOf(<<b>>) = b
         /\ ToSet(<<b>>) = {b}
  <1>1. <<b>> \in Seq(Blocks) /\ Len(<<b>>) = 1 /\ <<b>>[1] = b /\ <<b>> # <<>>
    OBVIOUS
  <1>2. List(next, <<b>>)
    <2>1. \A i \in 1..1 : i = 1
      OBVIOUS
    <2> QED
      BY <1>1, <2>1 DEF List
  <1>3. ToSet(<<b>>) = {b}
    <2>1. \A i \in 1..1 : i = 1
      OBVIOUS
    <2>2. DOMAIN <<b>> = 1..1
      BY <1>1
    <2> QED
      BY <1>1, <2>1, <2>2 DEF ToSet
  <1> QED
    BY <1>1, <1>2, <1>3 DEF FirstOf, LastOf

\* No list is longer than there are blocks.
LEMMA ListFits ==
  ASSUME NEW next, NEW c, List(next, c)
  PROVE  Cardinality(Blocks) \in Nat /\ Len(c) <= Cardinality(Blocks)
  <1> DEFINE S == 1..Len(c)
  <1>1. c \in Seq(Blocks) /\ Len(c) \in Nat /\ c \in [S -> Blocks]
    BY Members, LenProperties DEF List
  <1>2. Cardinality(Blocks) \in Nat
    BY FS_CardinalityType
  <1>3. IsFiniteSet(S) /\ Cardinality(S) = Len(c)
    <2>1. IsFiniteSet(1..Len(c)) /\ Cardinality(1..Len(c)) = IF 1 > Len(c) THEN 0 ELSE Len(c) - 1 + 1
      BY <1>1, FS_Interval
    <2> QED
      BY <1>1, <2>1
  <1>4. SUFFICES ASSUME Cardinality(S) > Cardinality(Blocks) PROVE FALSE
    BY <1>1, <1>2, <1>3
  <1>5. \E i, j \in S : i # j /\ c[i] = c[j]
    <2> HIDE DEF S
    <2> QED
      BY <1>1, <1>3, <1>4, FS_PigeonHole
  <1> QED
    BY <1>5 DEF List

\* Chain follows a list to its end.
LEMMA ChainOfList ==
  ASSUME NEW st, st.next \in [Blocks -> Blocks \cup {Nil}],
         NEW c, List(st.next, c)
  PROVE  Chain(st, FirstOf(c)) = c
  <1> DEFINE N == Cardinality(Blocks)
             V == Blocks \cup {Nil}
             b == FirstOf(c)
             Body(f) == [k \in 0..N |->
                           IF k = 0 THEN b
                           ELSE LET e == f[k - 1] IN IF e = Nil THEN Nil ELSE st.next[e]]
             at == CHOOSE f : f = Body(f)
             step == [p \in (1..N) \X V |-> IF p[2] = Nil THEN Nil ELSE st.next[p[2]]]
             list == [k \in 0..N |-> IF k < Len(c) THEN c[k + 1] ELSE Nil]
  <1>1. c \in Seq(Blocks) /\ Len(c) \in Nat /\ N \in Nat /\ Len(c) <= N
    BY ListFits, Members DEF List
  <1>2. list = Body(list)
    <2>1. list[0] = b
      BY <1>1, Members DEF FirstOf
    <2>2. ASSUME NEW k \in 0..N, k # 0
          PROVE  list[k] = IF list[k - 1] = Nil THEN Nil ELSE st.next[list[k - 1]]
      <3>1. k - 1 \in 0..N /\ (k - 1) + 1 = k
        BY <1>1, <2>2
      <3>2. CASE k - 1 < Len(c)
        <4>1. k \in 1..Len(c)
          BY <1>1, <2>2, <3>2
        <4>2. list[k - 1] = c[k] /\ c[k] # Nil
          BY <1>1, <3>1, <3>2, <4>1, Members
        <4>3. st.next[c[k]] = IF k < Len(c) THEN c[k + 1] ELSE Nil
          BY <4>1 DEF List
        <4> QED
          BY <4>2, <4>3
      <3>3. CASE ~(k - 1 < Len(c))
        <4>1. ~(k < Len(c))
          BY <1>1, <2>2, <3>3
        <4> QED
          BY <3>1, <3>3, <4>1
      <3> QED
        BY <3>2, <3>3
    <2> QED
      BY <2>1, <2>2
  <1>3. at = Body(at)
    <2> HIDE DEF Body, list
    <2> QED
      BY <1>2
  <1>4. at = list
    <2> DEFINE T == {k \in 0..N : at[k] = list[k]}
    <2>1. ASSUME NEW f, f = Body(f)
          PROVE  /\ DOMAIN f = 0..N
                 /\ f[0] = b
                 /\ \A k \in 0..N : k < N =>
                      f[k + 1] = IF f[k] = Nil THEN Nil ELSE st.next[f[k]]
      <3>1. 0 \in 0..N /\ \A k \in 0..N : k < N => k + 1 \in 0..N /\ k + 1 # 0 /\ (k + 1) - 1 = k
        BY <1>1
      <3> HIDE DEF N, b
      <3> QED
        BY <3>1, <2>1
    <2> HIDE DEF Body, at, list
    <2>2. 0 \in T
      BY <1>1, <1>2, <1>3, <2>1
    <2>3. ASSUME NEW k \in 0..N, k \in T, k < N PROVE k + 1 \in T
      <3>1. at[k + 1] = list[k + 1]
        BY <1>2, <1>3, <2>1, <2>3
      <3> QED
        BY <1>1, <2>3, <3>1
    <2> HIDE DEF T
    <2>4. 0..N \subseteq T
      BY <1>1, <2>2, <2>3, BoundedInduction
    <2>5. \A k \in 0..N : at[k] = list[k]
      BY <2>4 DEF T
    <2> QED
      BY <1>2, <1>3, <2>1, <2>5 DEF Body
  <1>5. Chain(st, b) = [i \in 1..Cardinality({k \in DOMAIN list : k < N /\ list[k] # Nil}) |-> list[i - 1]]
    <2>1. Chain(st, b) = [i \in 1..Cardinality({k \in DOMAIN at : k < N /\ at[k] # Nil}) |-> at[i - 1]]
      BY DEF Chain
    <2> HIDE DEF at, list, b
    <2> QED
      BY <2>1, <1>4
  <1>6. {k \in DOMAIN list : k < N /\ list[k] # Nil} = 0..(Len(c) - 1)
    <2>1. ASSUME NEW k \in 0..N PROVE list[k] # Nil <=> k < Len(c)
      <3>1. k < Len(c) => k + 1 \in 1..Len(c)
        BY <1>1
      <3> QED
        BY <1>1, <3>1, Members
    <2> QED
      BY <1>1, <2>1
  <1>7. Cardinality(0..(Len(c) - 1)) = Len(c)
    <2> DEFINE m == Len(c) - 1
    <2>1. 0 \in Int /\ m \in Int /\ (0 > m <=> Len(c) = 0) /\ m - 0 + 1 = Len(c)
      BY <1>1
    <2> HIDE DEF m
    <2>2. Cardinality(0..m) = IF 0 > m THEN 0 ELSE m - 0 + 1
      BY <2>1, FS_Interval
    <2> QED
      BY <2>1, <2>2 DEF m
  <1>8. Chain(st, b) = [i \in 1..Len(c) |-> list[i - 1]]
    BY <1>5, <1>6, <1>7
  <1>9. \A i \in 1..Len(c) : list[i - 1] = c[i]
    <2>1. \A i \in 1..Len(c) : i - 1 \in 0..N /\ i - 1 < Len(c) /\ (i - 1) + 1 = i
      BY <1>1
    <2> QED
      BY <2>1
  <1> HIDE DEF list
  <1>10. Chain(st, b) = [i \in 1..Len(c) |-> c[i]]
    BY <1>8, <1>9
  <1> QED
    BY <1>1, <1>10, LenProperties

-----------------------------------------------------------------------------
(* Where all blocks are *)

State ==
  [head   : [Sockets -> Blocks \cup {Nil}],
   tail   : [Sockets -> Blocks \cup {Nil}],
   next   : [Blocks -> Blocks \cup {Nil}],
   rptr   : [Blocks -> Nat],
   buf    : [Blocks -> Seq(Nat)],
   table  : [Sizes -> Blocks \cup {Nil}],
   unborn : SUBSET Blocks]

\* A list belongs to a socket or is the pool of a size.
At(s) == <<"socket", s>>
Pool(n) == <<"pool", n>>
Place == {At(s) : s \in Sockets} \cup {Pool(n) : n \in Sizes}

\* Each block is in one list, or not born, or lost: nothing leads to it.
Structure(next, unborn, lists, lost) ==
  /\ next \in [Blocks -> Blocks \cup {Nil}]
  /\ lists \in [Place -> Seq(Blocks)]
  /\ \A p \in Place : List(next, lists[p])
  /\ \A p, q \in Place : p # q => ToSet(lists[p]) \cap ToSet(lists[q]) = {}
  /\ unborn \subseteq Blocks /\ lost \subseteq Blocks /\ unborn \cap lost = {}
  /\ \A p \in Place : ToSet(lists[p]) \cap (unborn \cup lost) = {}
  /\ \A b \in Blocks : b \in unborn \cup lost \/ \E p \in Place : b \in ToSet(lists[p])
  /\ \A n \in Sizes : \A b \in ToSet(lists[Pool(n)]) : BufSize[b] = n

\* The pointers of the pools and of the sockets in own lead to their lists; the
\* pointers of the other sockets mean nothing.
Layout(st, own, lists, lost) ==
  /\ st \in State /\ own \subseteq Sockets
  /\ Structure(st.next, st.unborn, lists, lost)
  /\ \A n \in Sizes : st.table[n] = FirstOf(lists[Pool(n)])
  /\ \A s \in own : st.head[s] = FirstOf(lists[At(s)]) /\ st.tail[s] = LastOf(lists[At(s)])
  /\ \A s \in Sockets \ own : lists[At(s)] = <<>>

LEMMA Places ==
  /\ \A s \in Sockets : At(s) \in Place
  /\ \A n \in Sizes : Pool(n) \in Place
  /\ \A s, t \in Sockets : At(s) = At(t) => s = t
  /\ \A n, m \in Sizes : Pool(n) = Pool(m) => n = m
  /\ \A s \in Sockets, n \in Sizes : At(s) # Pool(n)
  BY DEF At, Pool, Place

LEMMA SizesOfBlocks ==
  /\ Sizes \subseteq Nat \ {0}
  /\ \A b \in Blocks : BufSize[b] \in Sizes
  BY DEF Sizes

\* The list of p becomes c, and nothing changes in the others.
Replaces(next, unborn, lists, lost, p, f, c, unborn2, lost2) ==
  /\ Structure(next, unborn, lists, lost)
  /\ p \in Place
  /\ f \in [Blocks -> Blocks \cup {Nil}]
  /\ List(f, c)
  /\ \A q \in Place : q # p => \A b \in ToSet(lists[q]) : f[b] = next[b]
  /\ ToSet(c) \cup unborn2 \cup lost2 = ToSet(lists[p]) \cup unborn \cup lost
  /\ ToSet(c) \cap (unborn2 \cup lost2) = {}
  /\ unborn2 \cap lost2 = {}
  /\ \A n \in Sizes : p = Pool(n) => \A b \in ToSet(c) : BufSize[b] = n

LEMMA OneListChanges ==
  ASSUME NEW next, NEW unborn, NEW lists, NEW lost, NEW p, NEW f, NEW c, NEW unborn2, NEW lost2,
         Replaces(next, unborn, lists, lost, p, f, c, unborn2, lost2)
  PROVE  Structure(f, unborn2, [lists EXCEPT ![p] = c], lost2)
  <1> USE DEF Replaces
  <1> DEFINE lists2 == [lists EXCEPT ![p] = c]
             U == unborn \cup lost
             U2 == unborn2 \cup lost2
  <1>1. c \in Seq(Blocks) /\ lists \in [Place -> Seq(Blocks)]
    BY DEF List, Structure
  <1>2. lists2 \in [Place -> Seq(Blocks)] /\ lists2[p] = c /\ \A q \in Place : q # p => lists2[q] = lists[q]
    BY <1>1
  <1>3. \A q, r \in Place : q # r => ToSet(lists[q]) \cap ToSet(lists[r]) = {}
    BY DEF Structure
  <1>4. /\ \A q \in Place : ToSet(lists[q]) \cap U = {}
        /\ \A b \in Blocks : b \in U \/ \E q \in Place : b \in ToSet(lists[q])
        /\ U \subseteq Blocks
    BY DEF Structure
  <1>5. ToSet(c) \cup U2 = ToSet(lists[p]) \cup U /\ ToSet(c) \cap U2 = {}
    OBVIOUS
  <1>6. \A q \in Place : List(next, lists[q])
    BY DEF Structure
  <1>7. \A n \in Sizes : \A b \in ToSet(lists[Pool(n)]) : BufSize[b] = n
    BY DEF Structure
  <1> HIDE DEF lists2, U, U2
  <1>8. \A q \in Place : List(f, lists2[q])
    <2>1. ASSUME NEW q \in Place, q # p PROVE List(f, lists[q])
      BY <2>1, <1>6, ListElsewhere
    <2> QED
      BY <1>2, <2>1
  <1>9. \A q \in Place : q # p => ToSet(lists[q]) \cap (ToSet(c) \cup U2) = {}
    BY <1>3, <1>4, <1>5
  <1>10. \A q, r \in Place : q # r => ToSet(lists2[q]) \cap ToSet(lists2[r]) = {}
    <2>1. ASSUME NEW q \in Place, NEW r \in Place, q # r
          PROVE  ToSet(lists2[q]) \cap ToSet(lists2[r]) = {}
      <3>1. CASE q = p
        BY <2>1, <3>1, <1>2, <1>9
      <3>2. CASE r = p
        BY <2>1, <3>2, <1>2, <1>9
      <3>3. CASE q # p /\ r # p
        BY <2>1, <3>3, <1>2, <1>3
      <3> QED
        BY <3>1, <3>2, <3>3
    <2> QED
      BY <2>1
  <1>11. \A q \in Place : ToSet(lists2[q]) \cap U2 = {}
    <2>1. ASSUME NEW q \in Place PROVE ToSet(lists2[q]) \cap U2 = {}
      <3>1. CASE q = p
        BY <3>1, <1>2, <1>5
      <3>2. CASE q # p
        BY <3>2, <1>2, <1>9
      <3> QED
        BY <3>1, <3>2
    <2> QED
      BY <2>1
  <1>12. \A b \in Blocks : b \in U2 \/ \E q \in Place : b \in ToSet(lists2[q])
    <2>1. ASSUME NEW b \in Blocks, b \notin U2 PROVE \E q \in Place : b \in ToSet(lists2[q])
      <3>1. CASE b \in ToSet(c)
        BY <3>1, <1>2
      <3>2. CASE b \notin ToSet(c)
        <4>1. b \notin U /\ b \notin ToSet(lists[p])
          BY <2>1, <3>2, <1>5
        <4>2. PICK q \in Place : b \in ToSet(lists[q])
          BY <4>1, <1>4
        <4> QED
          BY <4>1, <4>2, <1>2
      <3> QED
        BY <3>1, <3>2
    <2> QED
      BY <2>1
  <1>13. U2 \subseteq Blocks
    <2>1. ToSet(lists[p]) \subseteq Blocks
      BY <1>1, Members
    <2> QED
      BY <2>1, <1>4, <1>5
  <1>14. \A n \in Sizes : \A b \in ToSet(lists2[Pool(n)]) : BufSize[b] = n
    BY <1>2, <1>7, Places
  <1> QED
    BY <1>2, <1>8, <1>10, <1>11, <1>12, <1>13, <1>14 DEF Structure, lists2, U2
-----------------------------------------------------------------------------
(* What the operations do to the layout *)

LEMMA LayoutOfList ==
  ASSUME NEW st, NEW own, NEW lists, NEW lost, Layout(st, own, lists, lost), NEW p \in Place
  PROVE  /\ List(st.next, lists[p]) /\ lists[p] \in Seq(Blocks)
         /\ ToSet(lists[p]) \subseteq Blocks
         /\ ToSet(lists[p]) \cap (st.unborn \cup lost) = {}
         /\ \A q \in Place : q # p => ToSet(lists[q]) \cap ToSet(lists[p]) = {}
         /\ DOMAIN lists = Place /\ lists \in [Place -> Seq(Blocks)]
         /\ Chain(st, FirstOf(lists[p])) = lists[p]
  <1>1. /\ List(st.next, lists[p]) /\ lists[p] \in Seq(Blocks)
        /\ ToSet(lists[p]) \cap (st.unborn \cup lost) = {}
        /\ \A q \in Place : q # p => ToSet(lists[q]) \cap ToSet(lists[p]) = {}
        /\ DOMAIN lists = Place /\ lists \in [Place -> Seq(Blocks)]
        /\ st.next \in [Blocks -> Blocks \cup {Nil}]
    BY DEF Layout, Structure
  <1>2. Chain(st, FirstOf(lists[p])) = lists[p]
    BY <1>1, ChainOfList
  <1> QED
    BY <1>1, <1>2, Members

\* The bytes of all blocks are the same, and the ends of the sockets.
SameBytes(new, st) ==
  new.rptr = st.rptr /\ new.buf = st.buf /\ new.head = st.head /\ new.tail = st.tail

\* The lists with b on top of the pool of its size.
PutBack(lists, b) ==
  [lists EXCEPT ![Pool(BufSize[b])] = <<b>> \o lists[Pool(BufSize[b])]]

\* bbuf_free_block puts a block that is in no list into the pool of its size.
LEMMA RecycledLayout ==
  ASSUME NEW st, NEW own, NEW lists, NEW lost, Layout(st, own, lists, lost), NEW b \in lost
  PROVE  /\ BufSize[b] \in Sizes
         /\ Layout(Recycled(st, b), own, PutBack(lists, b), lost \ {b})
         /\ \A s \in Sockets : PutBack(lists, b)[At(s)] = lists[At(s)]
         /\ SameBytes(Recycled(st, b), st)
  <1> DEFINE n == BufSize[b]
             p == Pool(n)
             c == lists[p]
             d == <<b>> \o c
             f == [st.next EXCEPT ![b] = FirstOf(c)]
             new == Recycled(st, b)
             lists2 == [lists EXCEPT ![p] = d]
  <1>1. st \in State /\ Structure(st.next, st.unborn, lists, lost)
    BY DEF Layout
  <1>2. b \in Blocks /\ n \in Sizes /\ p \in Place /\ st.next \in [Blocks -> Blocks \cup {Nil}]
    BY <1>1, SizesOfBlocks, Places DEF Structure
  <1>3. List(st.next, c) /\ ToSet(c) \cap (st.unborn \cup lost) = {} /\ st.table[n] = FirstOf(c)
    <2>1. st.table[n] = FirstOf(c)
      BY <1>2 DEF Layout
    <2> HIDE DEF p, n
    <2> QED
      BY <1>2, <2>1, LayoutOfList
  <1>4. b \notin ToSet(c)
    BY <1>3
  <1>5. List(f, d) /\ FirstOf(d) = b /\ ToSet(d) = ToSet(c) \cup {b}
    BY <1>2, <1>3, <1>4, ConsList
  <1>6. /\ new.next = f /\ new.table = [st.table EXCEPT ![n] = b] /\ new.unborn = st.unborn
        /\ new.head = st.head /\ new.tail = st.tail /\ new.rptr = st.rptr /\ new.buf = st.buf
    BY <1>1, <1>3 DEF Recycled, State
  <1>7. FirstOf(c) \in Blocks \cup {Nil} /\ f \in [Blocks -> Blocks \cup {Nil}]
    <2>1. st.table[n] \in Blocks \cup {Nil}
      BY <1>1, <1>2 DEF State
    <2> QED
      BY <1>2, <1>3, <2>1
  <1>8. new \in State
    BY <1>1, <1>2, <1>7 DEF Recycled, State
  <1>9. Structure(f, st.unborn, lists2, lost \ {b})
    <2>1. \A q \in Place : q # p => \A e \in ToSet(lists[q]) : f[e] = st.next[e]
      BY <1>1, <1>2 DEF Structure
    <2>2. ToSet(d) \cup st.unborn \cup (lost \ {b}) = ToSet(c) \cup st.unborn \cup lost
      BY <1>5
    <2>3. ToSet(d) \cap (st.unborn \cup (lost \ {b})) = {} /\ st.unborn \cap (lost \ {b}) = {}
      BY <1>1, <1>3, <1>5 DEF Structure
    <2>4. \A m \in Sizes : p = Pool(m) => \A e \in ToSet(d) : BufSize[e] = m
      <3>1. \A e \in ToSet(c) : BufSize[e] = n
        BY <1>1, <1>2 DEF Structure
      <3> QED
        BY <3>1, <1>2, <1>5, Places
    <2>5. Replaces(st.next, st.unborn, lists, lost, p, f, d, st.unborn, lost \ {b})
      BY <1>1, <1>2, <1>5, <1>7, <2>1, <2>2, <2>3, <2>4 DEF Replaces
    <2> QED
      BY <2>5, OneListChanges
  <1>10. \A q \in Place : lists2[q] = IF q = p THEN d ELSE lists[q]
    BY <1>1 DEF Structure
  <1>11. \A m \in Sizes : new.table[m] = FirstOf(lists2[Pool(m)])
    <2> SUFFICES ASSUME NEW m \in Sizes PROVE new.table[m] = FirstOf(lists2[Pool(m)])
      OBVIOUS
    <2>1. st.table \in [Sizes -> Blocks \cup {Nil}] /\ st.table[m] = FirstOf(lists[Pool(m)])
      BY <1>1 DEF Layout, State
    <2>2. m # n => Pool(m) # p
      BY <1>2, Places
    <2> HIDE DEF d, lists2, p, n, new
    <2> QED
      BY <2>1, <2>2, <1>2, <1>5, <1>6, <1>10, Places DEF p
  <1>12. \A s \in Sockets : lists2[At(s)] = lists[At(s)]
    BY <1>2, <1>10, Places
  <1> HIDE DEF lists2, f, new
  <1>13. Layout(new, own, lists2, lost \ {b})
    BY <1>6, <1>8, <1>9, <1>11, <1>12 DEF Layout
  <1> QED
    BY <1>2, <1>6, <1>12, <1>13 DEF new, lists2, PutBack, SameBytes

\* create forgets the blocks of a socket.
LEMMA CreatedLayout ==
  ASSUME NEW st, NEW own, NEW lists, NEW lost, Layout(st, own, lists, lost), NEW s \in Sockets
  PROVE  Layout(Created(st, s), own \cup {s}, [lists EXCEPT ![At(s)] = <<>>],
                lost \cup ToSet(lists[At(s)]))
  <1> DEFINE p == At(s)
             new == Created(st, s)
             lists2 == [lists EXCEPT ![p] = <<>>]
  <1>1. st \in State /\ Structure(st.next, st.unborn, lists, lost)
    BY DEF Layout
  <1>2. p \in Place /\ st.next \in [Blocks -> Blocks \cup {Nil}]
    BY <1>1, Places DEF Structure
  <1>3. /\ new.next = st.next /\ new.table = st.table /\ new.unborn = st.unborn
        /\ new.head = [st.head EXCEPT ![s] = Nil] /\ new.tail = [st.tail EXCEPT ![s] = Nil]
        /\ new \in State
    BY <1>1 DEF Created, State
  <1>4. Structure(st.next, st.unborn, lists2, lost \cup ToSet(lists[p]))
    <2> DEFINE lost2 == lost \cup ToSet(lists[p])
               c == <<>>
    <2>1. List(st.next, c) /\ ToSet(c) = {}
      BY EmptyList
    <2>2. st.unborn \cap lost2 = {}
      BY <1>1, <1>2 DEF Structure
    <2>3. ToSet(c) \cup st.unborn \cup lost2 = ToSet(lists[p]) \cup st.unborn \cup lost
      BY <2>1
    <2>4. ToSet(c) \cap (st.unborn \cup lost2) = {} /\ \A n \in Sizes : \A b \in ToSet(c) : BufSize[b] = n
      BY <2>1
    <2> HIDE DEF lost2, p, c
    <2>5. Replaces(st.next, st.unborn, lists, lost, p, st.next, c, st.unborn, lost2)
      BY <1>1, <1>2, <2>1, <2>2, <2>3, <2>4 DEF Replaces
    <2>6. Structure(st.next, st.unborn, [lists EXCEPT ![p] = c], lost2)
      BY <2>5, OneListChanges
    <2> QED
      BY <2>6 DEF lost2, c
  <1>5. \A q \in Place : lists2[q] = IF q = p THEN <<>> ELSE lists[q]
    BY <1>1 DEF Structure
  <1>6. \A n \in Sizes : lists2[Pool(n)] = lists[Pool(n)]
    BY <1>5, Places
  <1>7. \A t \in Sockets : t # s => lists2[At(t)] = lists[At(t)]
    BY <1>5, Places
  <1>8. lists2[At(s)] = <<>>
    BY <1>2, <1>5
  <1> HIDE DEF lists2, new
  <1>9. Layout(new, own \cup {s}, lists2, lost \cup ToSet(lists[p]))
    <2>1. own \cup {s} \subseteq Sockets
      BY DEF Layout
    <2>2. \A n \in Sizes : new.table[n] = FirstOf(lists2[Pool(n)])
      BY <1>3, <1>6 DEF Layout
    <2>3. ASSUME NEW t \in own \cup {s}
          PROVE  new.head[t] = FirstOf(lists2[At(t)]) /\ new.tail[t] = LastOf(lists2[At(t)])
      <3>1. CASE t = s
        BY <3>1, <1>1, <1>3, <1>8, EmptyList DEF State
      <3>2. CASE t # s
        BY <3>2, <2>3, <1>1, <1>3, <1>7 DEF State, Layout
      <3> QED
        BY <3>1, <3>2
    <2>4. \A t \in Sockets \ (own \cup {s}) : lists2[At(t)] = <<>>
      BY <1>7 DEF Layout
    <2> QED
      BY <1>3, <1>4, <2>1, <2>2, <2>3, <2>4 DEF Layout
  <1> QED
    BY <1>9 DEF new, lists2
\* skip_read_ptr: the first block stays, or goes to the pool when it is read to
\* its end.
LEMMA SkippedLayout ==
  ASSUME NEW st, NEW own, NEW lists, NEW lost, Layout(st, own, lists, lost),
         NEW s \in own, lists[At(s)] # <<>>,
         NEW n \in Nat, st.rptr[st.head[s]] + n <= Len(st.buf[st.head[s]])
  PROVE  \E lists2 :
           /\ Layout(Skipped(st, s, n), own, lists2, lost)
           /\ \A t \in Sockets : t # s => lists2[At(t)] = lists[At(t)]
           /\ lists2[At(s)] = IF st.rptr[st.head[s]] + n < Len(st.buf[st.head[s]])
                              THEN lists[At(s)] ELSE Tail(lists[At(s)])
           /\ Skipped(st, s, n).rptr =
                [st.rptr EXCEPT ![st.head[s]] = st.rptr[st.head[s]] + n]
           /\ Skipped(st, s, n).buf = st.buf
  <1> DEFINE b == st.head[s]
             p == At(s)
             c == lists[p]
             moved == [st EXCEPT !.rptr[b] = @ + n]
             rest == st.next[b]
             mid == [moved EXCEPT !.head[s] = rest, !.tail[s] = IF rest = Nil THEN Nil ELSE @]
             lists1 == [lists EXCEPT ![p] = Tail(c)]
  <1>0. b # Nil => Skipped(st, s, n) = IF moved.rptr[b] < Len(st.buf[b]) THEN moved ELSE Recycled(mid, b)
    BY DEF Skipped
  <1>1. st \in State /\ Structure(st.next, st.unborn, lists, lost) /\ s \in Sockets /\ own \subseteq Sockets
    BY DEF Layout
  <1>2. p \in Place
    BY <1>1, Places
  <1>3. List(st.next, c) /\ c # <<>> /\ ToSet(c) \cap (st.unborn \cup lost) = {} /\ DOMAIN lists = Place
    <2> HIDE DEF p
    <2> QED
      BY <1>2, LayoutOfList DEF p
  <1>4. /\ b \in Blocks /\ b # Nil /\ List(st.next, Tail(c)) /\ rest = FirstOf(Tail(c))
        /\ LastOf(Tail(c)) = IF rest = Nil THEN Nil ELSE LastOf(c)
        /\ b \notin ToSet(Tail(c)) /\ ToSet(c) = ToSet(Tail(c)) \cup {b}
    <2> HIDE DEF c
    <2>1. c[1] \in Blocks /\ List(st.next, Tail(c)) /\ st.next[c[1]] = FirstOf(Tail(c))
          /\ LastOf(Tail(c)) = (IF st.next[c[1]] = Nil THEN Nil ELSE LastOf(c))
          /\ c[1] \notin ToSet(Tail(c)) /\ ToSet(c) = ToSet(Tail(c)) \cup {c[1]}
      BY <1>3, TailOfList
    <2>2. b = c[1]
      <3>1. st.head[s] = FirstOf(lists[At(s)])
        BY DEF Layout
      <3> QED
        BY <3>1 DEF c, FirstOf
    <2> QED
      BY <2>1, <2>2
  <1>5. st.head[s] = b /\ st.tail[s] = LastOf(c)
    <2>1. st.head[s] = FirstOf(lists[At(s)]) /\ st.tail[s] = LastOf(lists[At(s)])
      BY DEF Layout
    <2> QED
      BY <2>1 DEF FirstOf
  <1>6. /\ moved \in State /\ moved.rptr = [st.rptr EXCEPT ![b] = st.rptr[b] + n]
        /\ moved.rptr[b] = st.rptr[b] + n
        /\ moved.head = st.head /\ moved.tail = st.tail /\ moved.next = st.next
        /\ moved.buf = st.buf /\ moved.table = st.table /\ moved.unborn = st.unborn
    <2> DEFINE r == [st.rptr EXCEPT ![b] = st.rptr[b] + n]
    <2>1. r \in [Blocks -> Nat] /\ r[b] = st.rptr[b] + n
      BY <1>1, <1>4 DEF State
    <2>2. moved = [st EXCEPT !.rptr = r]
      BY <1>1 DEF State
    <2> HIDE DEF moved, r
    <2>3. moved.rptr = r
      BY <1>1, <2>2 DEF State
    <2> QED
      BY <1>1, <2>1, <2>2, <2>3 DEF State, r
  <1> HIDE DEF moved
  <1>7. Skipped(st, s, n) = IF st.rptr[b] + n < Len(st.buf[b]) THEN moved ELSE Recycled(mid, b)
    BY <1>0, <1>4, <1>6
  <1>8. CASE st.rptr[b] + n < Len(st.buf[b])
    <2>1. Layout(moved, own, lists, lost)
      BY <1>6 DEF Layout
    <2> QED
      BY <1>6, <1>7, <1>8, <2>1
  <1>9. CASE ~(st.rptr[b] + n < Len(st.buf[b]))
    <2>1. rest \in Blocks \cup {Nil}
      BY <1>1, <1>4 DEF State
    <2>2. /\ mid \in State /\ mid.head = [st.head EXCEPT ![s] = rest]
          /\ mid.tail = [st.tail EXCEPT ![s] = IF rest = Nil THEN Nil ELSE st.tail[s]]
          /\ mid.rptr = moved.rptr /\ mid.next = st.next /\ mid.buf = st.buf
          /\ mid.table = st.table /\ mid.unborn = st.unborn
      BY <1>1, <1>6, <2>1 DEF State
    <2>3. \A q \in Place : lists1[q] = IF q = p THEN Tail(c) ELSE lists[q]
      BY <1>3
    <2>4. Structure(st.next, st.unborn, lists1, lost \cup {b})
      <3> DEFINE d == Tail(c)
                 lost1 == lost \cup {b}
      <3>1. ToSet(d) \cup st.unborn \cup lost1 = ToSet(c) \cup st.unborn \cup lost
        BY <1>4
      <3>2. ToSet(d) \cap (st.unborn \cup lost1) = {}
        BY <1>3, <1>4
      <3>3. st.unborn \cap lost1 = {}
        BY <1>1, <1>3, <1>4 DEF Structure
      <3>4. \A m \in Sizes : p = Pool(m) => \A e \in ToSet(d) : BufSize[e] = m
        BY <1>1, Places
      <3>5. List(st.next, d) /\ st.next \in [Blocks -> Blocks \cup {Nil}]
        BY <1>1, <1>4 DEF State
      <3>7. ToSet(d) \cup st.unborn \cup lost1 = ToSet(lists[p]) \cup st.unborn \cup lost
        BY <3>1
      <3>8. \A q \in Place : q # p => \A e \in ToSet(lists[q]) : st.next[e] = st.next[e]
        OBVIOUS
      <3> HIDE DEF d, lost1, c, p
      <3>6. Replaces(st.next, st.unborn, lists, lost, p, st.next, d, st.unborn, lost1)
        BY <1>1, <1>2, <3>2, <3>3, <3>4, <3>5, <3>7, <3>8 DEF Replaces
      <3>9. Structure(st.next, st.unborn, [lists EXCEPT ![p] = d], lost1)
        BY <3>6, OneListChanges
      <3> QED
        BY <3>9 DEF d, lost1
    <2> DEFINE lost1 == lost \cup {b}
    <2>40. b \in lost1 /\ lost1 \ {b} = lost
      BY <1>3, <1>4
    <2>41. Structure(st.next, st.unborn, lists1, lost1)
      BY <2>4
    <2> HIDE DEF lists1, mid, lost1
    <2>5. Layout(mid, own, lists1, lost1)
      <3>1. \A m \in Sizes : mid.table[m] = FirstOf(lists1[Pool(m)])
        BY <1>1, <2>2, <2>3, Places DEF Layout
      <3>2. ASSUME NEW t \in own
            PROVE  mid.head[t] = FirstOf(lists1[At(t)]) /\ mid.tail[t] = LastOf(lists1[At(t)])
        <4>1. CASE t = s
          <5>1. lists1[At(t)] = Tail(c)
            BY <4>1, <1>2, <2>3
          <5>2. mid.head[t] = rest /\ mid.tail[t] = IF rest = Nil THEN Nil ELSE st.tail[s]
            BY <4>1, <1>1, <2>2 DEF State
          <5> HIDE DEF c, rest
          <5> QED
            BY <5>1, <5>2, <1>4, <1>5
        <4>2. CASE t # s
          <5>1. lists1[At(t)] = lists[At(t)]
            BY <4>2, <3>2, <1>1, <2>3, Places
          <5>2. mid.head[t] = st.head[t] /\ mid.tail[t] = st.tail[t]
            BY <4>2, <1>1, <2>2 DEF State
          <5> QED
            BY <5>1, <5>2, <3>2 DEF Layout
        <4> QED
          BY <4>1, <4>2
      <3>3. \A t \in Sockets \ own : lists1[At(t)] = <<>>
        <4>1. ASSUME NEW t \in Sockets \ own PROVE lists1[At(t)] = <<>>
          <5>1. t # s /\ lists1[At(t)] = lists[At(t)]
            BY <1>1, <2>3, Places
          <5> QED
            BY <5>1 DEF Layout
        <4> QED
          BY <4>1
      <3> QED
        BY <1>1, <2>2, <2>41, <3>1, <3>2, <3>3 DEF Layout
    <2> DEFINE lists2 == PutBack(lists1, b)
    <2>6. /\ Layout(Recycled(mid, b), own, lists2, lost)
          /\ \A t \in Sockets : lists2[At(t)] = lists1[At(t)]
          /\ Recycled(mid, b).rptr = mid.rptr /\ Recycled(mid, b).buf = mid.buf
      <3> HIDE DEF b
      <3>1. /\ Layout(Recycled(mid, b), own, lists2, lost1 \ {b})
            /\ \A t \in Sockets : lists2[At(t)] = lists1[At(t)]
            /\ Recycled(mid, b).rptr = mid.rptr /\ Recycled(mid, b).buf = mid.buf
        <4> HIDE DEF lists2
        <4>1. b \in lost1
          BY <2>40
        <4>2. Layout(Recycled(mid, b), own, PutBack(lists1, b), lost1 \ {b})
          BY <2>5, <4>1, RecycledLayout
        <4>3. \A t \in Sockets : PutBack(lists1, b)[At(t)] = lists1[At(t)]
          BY <2>5, <4>1, <4>2, RecycledLayout
        <4>4. SameBytes(Recycled(mid, b), mid)
          BY <2>5, <4>1, <4>2, RecycledLayout
        <4> QED
          BY <4>2, <4>3, <4>4 DEF lists2, SameBytes
      <3> QED
        BY <3>1, <2>40
    <2> HIDE DEF lists2
    <2>10. lists2[At(s)] = Tail(c) /\ \A t \in Sockets : t # s => lists2[At(t)] = lists[At(t)]
      BY <1>1, <2>3, <2>6, Places
    <2> QED
      BY <1>6, <1>7, <1>9, <2>2, <2>6, <2>10
  <1> QED
    BY <1>8, <1>9
\* A socket is forgotten, and its blocks with it.
LEMMA ForgottenLayout ==
  ASSUME NEW st, NEW own, NEW lists, NEW lost, Layout(st, own, lists, lost), NEW s \in Sockets
  PROVE  Layout(st, own \ {s}, [lists EXCEPT ![At(s)] = <<>>], lost \cup ToSet(lists[At(s)]))
  <1> DEFINE p == At(s)
             lists2 == [lists EXCEPT ![p] = <<>>]
             lost2 == lost \cup ToSet(lists[p])
             c == <<>>
  <1>1. st \in State /\ Structure(st.next, st.unborn, lists, lost) /\ p \in Place
    BY Places DEF Layout
  <1>2. Structure(st.next, st.unborn, lists2, lost2)
    <2>1. List(st.next, c) /\ ToSet(c) = {}
      BY EmptyList
    <2>2. st.unborn \cap lost2 = {}
      BY <1>1 DEF Structure
    <2>3. ToSet(c) \cup st.unborn \cup lost2 = ToSet(lists[p]) \cup st.unborn \cup lost
      BY <2>1
    <2>4. /\ ToSet(c) \cap (st.unborn \cup lost2) = {}
          /\ \A n \in Sizes : \A b \in ToSet(c) : BufSize[b] = n
      BY <2>1
    <2>5. st.next \in [Blocks -> Blocks \cup {Nil}]
      BY <1>1 DEF State
    <2> HIDE DEF lost2, p, c
    <2>6. Replaces(st.next, st.unborn, lists, lost, p, st.next, c, st.unborn, lost2)
      BY <1>1, <2>1, <2>2, <2>3, <2>4, <2>5 DEF Replaces
    <2>7. Structure(st.next, st.unborn, [lists EXCEPT ![p] = c], lost2)
      BY <2>6, OneListChanges
    <2> QED
      BY <2>7 DEF lost2, c
  <1>3. \A q \in Place : lists2[q] = IF q = p THEN <<>> ELSE lists[q]
    BY <1>1 DEF Structure
  <1>4. \A n \in Sizes : lists2[Pool(n)] = lists[Pool(n)]
    BY <1>3, Places
  <1>5. \A t \in Sockets : lists2[At(t)] = IF t = s THEN <<>> ELSE lists[At(t)]
    BY <1>3, Places
  <1> HIDE DEF lists2, lost2
  <1>6. Layout(st, own \ {s}, lists2, lost2)
    <2>1. own \ {s} \subseteq Sockets
      BY DEF Layout
    <2>2. \A n \in Sizes : st.table[n] = FirstOf(lists2[Pool(n)])
      BY <1>4 DEF Layout
    <2>3. \A t \in own \ {s} :
            st.head[t] = FirstOf(lists2[At(t)]) /\ st.tail[t] = LastOf(lists2[At(t)])
      BY <1>5, <2>1 DEF Layout
    <2>4. \A t \in Sockets \ (own \ {s}) : lists2[At(t)] = <<>>
      BY <1>5 DEF Layout
    <2> QED
      BY <1>1, <1>2, <2>1, <2>2, <2>3, <2>4 DEF Layout
  <1> QED
    BY <1>6 DEF lists2, lost2

LEMMA RecycledType ==
  ASSUME NEW st \in State, NEW b \in Blocks
  PROVE  Recycled(st, b) \in State
  <1>1. BufSize[b] \in Sizes
    BY SizesOfBlocks
  <1>2. st.table[BufSize[b]] \in Blocks \cup {Nil}
    BY <1>1 DEF State
  <1> QED
    BY <1>1, <1>2 DEF Recycled, State

\* The recursive function of Freed.
LEMMA FreedBlockByBlock ==
  ASSUME NEW st \in State, NEW s, Chain(st, st.head[s]) \in Seq(Blocks)
  PROVE  \E after :
           /\ after[0] = st
           /\ \A k \in 0..Len(Chain(st, st.head[s])) : k < Len(Chain(st, st.head[s])) =>
                after[k + 1] = Recycled(after[k], Chain(st, st.head[s])[k + 1])
           /\ Freed(st, s) = after[Len(Chain(st, st.head[s]))]
  <1> DEFINE c == Chain(st, st.head[s])
             N == Len(c)
             Body(f) == [k \in 0..N |-> IF k = 0 THEN st ELSE Recycled(f[k - 1], c[k])]
             after == CHOOSE f : f = Body(f)
             step == [q \in (1..N) \X State |-> Recycled(q[2], c[q[1]])]
  <1>1. Freed(st, s) = after[N]
    BY DEF Freed
  <1>2. N \in Nat /\ \A k \in 1..N : c[k] \in Blocks
    <2> HIDE DEF c
    <2> QED
      BY Members DEF c
  <1> HIDE DEF c
  <1>3. IsStep(step, N, State)
    <2>1. \A q \in (1..N) \X State : Recycled(q[2], c[q[1]]) \in State
      BY <1>2, RecycledType
    <2> HIDE DEF N
    <2> QED
      BY <2>1 DEF IsStep
  <1>4. PICK g : Follows(g, st, step, N, State)
    <2> HIDE DEF N, step
    <2> QED
      BY <1>2, <1>3, RecursionExists
  <1>5. g = Body(g)
    <2>1. g \in [0..N -> State] /\ g[0] = st
      BY <1>4 DEF Follows
    <2>2. ASSUME NEW k \in 0..N, k # 0 PROVE g[k] = Recycled(g[k - 1], c[k])
      <3>1. k \in 1..N /\ k - 1 \in 0..N
        BY <1>2, <2>2
      <3>2. g[k] = step[<<k, g[k - 1]>>] /\ g[k - 1] \in State
        BY <1>4, <3>1 DEF Follows
      <3>3. <<k, g[k - 1]>> \in (1..N) \X State
        BY <3>1, <3>2
      <3> QED
        BY <3>2, <3>3
    <2> HIDE DEF N
    <2> QED
      BY <2>1, <2>2
  <1>6. after = Body(after)
    <2> HIDE DEF Body
    <2> QED
      BY <1>5
  <1>7. /\ after[0] = st
        /\ \A k \in 0..N : k < N => after[k + 1] = Recycled(after[k], c[k + 1])
    <2>1. 0 \in 0..N /\ \A k \in 0..N : k < N => k + 1 \in 0..N /\ k + 1 # 0 /\ (k + 1) - 1 = k
      BY <1>2
    <2>2. \A k \in 0..N : after[k] = IF k = 0 THEN st ELSE Recycled(after[k - 1], c[k])
      <3> HIDE DEF N, after
      <3> QED
        BY <1>6
    <2> HIDE DEF N, after
    <2> QED
      BY <2>1, <2>2
  <1> HIDE DEF after
  <1> QED
    BY <1>1, <1>7 DEF c
\* A state in which s has no blocks, and all else is the same.
Without(st, own, lists, lost, s, new) ==
  \E lists2 :
    /\ Layout(new, own \ {s}, lists2, lost)
    /\ SameBytes(new, st)
    /\ \A t \in Sockets : lists2[At(t)] = IF t = s THEN <<>> ELSE lists[At(t)]

\* free: the blocks of a socket go to the pool, one after the other.
LEMMA FreedLayout ==
  ASSUME NEW st, NEW own, NEW lists, NEW lost, Layout(st, own, lists, lost), NEW s \in own
  PROVE  Without(st, own, lists, lost, s, Freed(st, s))
  <1> DEFINE c == lists[At(s)]
             N == Len(c)
             own2 == own \ {s}
             rest(k) == {c[i] : i \in (k + 1)..N}
             Done(st2, k, lists2) ==
               /\ Layout(st2, own2, lists2, lost \cup rest(k))
               /\ SameBytes(st2, st)
               /\ \A t \in Sockets : lists2[At(t)] = IF t = s THEN <<>> ELSE lists[At(t)]
  <1>1. st \in State /\ s \in Sockets /\ own \subseteq Sockets
    BY DEF Layout
  <1>2. At(s) \in Place
    BY <1>1, Places
  <1>3. /\ c \in Seq(Blocks) /\ List(st.next, c) /\ ToSet(c) \cap (st.unborn \cup lost) = {}
        /\ DOMAIN lists = Place /\ Chain(st, FirstOf(c)) = c
    BY <1>2, LayoutOfList
  <1>4. Chain(st, st.head[s]) = c
    <2>1. st.head[s] = FirstOf(c)
      BY DEF Layout
    <2> QED
      BY <1>3, <2>1
  <1>5. N \in Nat /\ ToSet(c) = rest(0) /\ \A k \in 1..N : c[k] \in Blocks /\ c[k] \in ToSet(c)
    <2> HIDE DEF c
    <2> QED
      BY <1>3, Members
  <1>6. \A i, j \in 1..N : c[i] = c[j] => i = j
    BY <1>3 DEF List
  <1>7. PICK after : /\ after[0] = st
                     /\ \A k \in 0..N : k < N => after[k + 1] = Recycled(after[k], c[k + 1])
                     /\ Freed(st, s) = after[N]
    <2> HIDE DEF c
    <2>1. c \in Seq(Blocks)
      BY <1>3
    <2> QED
      BY <1>1, <1>4, <2>1, FreedBlockByBlock
  <1> DEFINE T == {k \in 0..N : \E lists2 : Done(after[k], k, lists2)}
  <1>8. 0 \in T
    <2> DEFINE lists2 == [lists EXCEPT ![At(s)] = <<>>]
    <2>1. Layout(st, own2, lists2, lost \cup ToSet(c))
      BY <1>1, ForgottenLayout
    <2>2. Layout(st, own2, lists2, lost \cup rest(0))
      BY <1>5, <2>1
    <2>3. \A t \in Sockets : lists2[At(t)] = IF t = s THEN <<>> ELSE lists[At(t)]
      BY <1>1, <1>3, Places
    <2>4. SameBytes(st, st)
      BY DEF SameBytes
    <2> HIDE DEF lists2, rest, own2, c, N
    <2>5. Done(after[0], 0, lists2)
      BY <1>7, <2>2, <2>3, <2>4 DEF c
    <2> QED
      BY <1>5, <2>5
  <1>9. ASSUME NEW k \in 0..N, k \in T, k < N PROVE k + 1 \in T
    <2>1. PICK lists1 : Done(after[k], k, lists1)
      BY <1>9
    <2> DEFINE b == c[k + 1]
               lists2 == PutBack(lists1, b)
    <2>2. k + 1 \in 1..N /\ k + 1 \in 0..N /\ k + 1 \in (k + 1)..N
      BY <1>5, <1>9
    <2>3. b \in rest(k) /\ after[k + 1] = Recycled(after[k], b)
      BY <1>7, <1>9, <2>2
    <2>4. b \notin rest(k + 1) /\ rest(k) = rest(k + 1) \cup {b}
      <3>1. (k + 1)..N = (((k + 1) + 1)..N) \cup {k + 1} /\ k + 1 \notin ((k + 1) + 1)..N
            /\ ((k + 1) + 1)..N \subseteq 1..N
        BY <1>5, <1>9
      <3> HIDE DEF N, c
      <3> QED
        BY <1>6, <2>2, <3>1
    <2>5. b \notin lost
      BY <1>3, <1>5, <2>2
    <2> DEFINE lost1 == lost \cup rest(k)
    <2>6. b \in lost1 /\ lost1 \ {b} = lost \cup rest(k + 1)
      BY <2>3, <2>4, <2>5
    <2>7. Layout(after[k], own2, lists1, lost1)
      BY <2>1
    <2> HIDE DEF lost1, b, rest, c, own2, lists2
    <2>8. b \in lost1
      BY <2>6
    <2>9. Layout(Recycled(after[k], b), own2, PutBack(lists1, b), lost1 \ {b})
      BY <2>7, <2>8, RecycledLayout
    <2>10. \A t \in Sockets : PutBack(lists1, b)[At(t)] = lists1[At(t)]
      BY <2>7, <2>8, <2>9, RecycledLayout
    <2>11. SameBytes(Recycled(after[k], b), after[k])
      BY <2>7, <2>8, <2>9, RecycledLayout
    <2>12. SameBytes(after[k], st)
           /\ \A t \in Sockets : lists1[At(t)] = IF t = s THEN <<>> ELSE lists[At(t)]
      BY <2>1 DEF c
    <2>13. SameBytes(after[k + 1], st)
      BY <2>3, <2>11, <2>12 DEF SameBytes
    <2>14. Layout(after[k + 1], own2, lists2, lost \cup rest(k + 1))
      BY <2>3, <2>6, <2>9 DEF lists2
    <2>15. \A t \in Sockets : lists2[At(t)] = IF t = s THEN <<>> ELSE lists[At(t)]
      BY <2>10, <2>12 DEF lists2
    <2>16. Done(after[k + 1], k + 1, lists2)
      BY <2>13, <2>14, <2>15 DEF c
    <2> QED
      BY <2>2, <2>16
  <1>10. N \in T
    <2> HIDE DEF T, N
    <2>1. 0..N \subseteq T
      BY <1>5, <1>8, <1>9, BoundedInduction
    <2> QED
      BY <1>5, <2>1
  <1>11. PICK lists2 : Done(after[N], N, lists2)
    BY <1>10
  <1>12. lost \cup rest(N) = lost
    <2>1. (N + 1)..N = {}
      BY <1>5
    <2> HIDE DEF N
    <2> QED
      BY <2>1
  <1> QED
    BY <1>7, <1>11, <1>12 DEF Without
\* hash finds a size if there is one that is large enough.
LEMMA SizeForFits ==
  ASSUME NEW n \in Nat, \E m \in Sizes : m >= n
  PROVE  SizeFor(n) \in Sizes /\ SizeFor(n) >= n
  <1> DEFINE T == {m \in Sizes : m >= n}
  <1>1. T # {} /\ T \subseteq Nat
    BY SizesOfBlocks
  <1> HIDE DEF T
  <1>2. PICK m \in T : \A k \in T : m <= k
    BY <1>1, LeastNatural
  <1>3. m \in Sizes /\ m >= n /\ \A k \in Sizes : k >= n => m <= k
    BY <1>2 DEF T
  <1> QED
    BY <1>3 DEF SizeFor

\* What no list leads to may change.
LEMMA OtherBlocksChange ==
  ASSUME NEW next, NEW unborn, NEW lists, NEW lost, Structure(next, unborn, lists, lost),
         NEW f \in [Blocks -> Blocks \cup {Nil}],
         \A b \in Blocks : b \notin unborn \cup lost => f[b] = next[b]
  PROVE  Structure(f, unborn, lists, lost)
  <1>1. ASSUME NEW p \in Place PROVE List(f, lists[p])
    <2>1. lists[p] \in Seq(Blocks) /\ ToSet(lists[p]) \cap (unborn \cup lost) = {} /\ List(next, lists[p])
      BY DEF Structure
    <2>2. ToSet(lists[p]) \subseteq Blocks
      BY <2>1, Members
    <2>3. \A b \in ToSet(lists[p]) : f[b] = next[b]
      BY <2>1, <2>2
    <2> QED
      BY <2>1, <2>3, ListElsewhere
  <1> QED
    BY <1>1 DEF Structure

\* The block alloc takes for n bytes, and the state when it has been emptied.
NewBlock(st, n) ==
  IF st.table[SizeFor(n)] # Nil THEN st.table[SizeFor(n)]
  ELSE CHOOSE c \in Candidates(st, n) : TRUE
Emptied(st, n) ==
  LET b == NewBlock(st, n)
      taken == IF st.table[SizeFor(n)] # Nil
               THEN [st EXCEPT !.table[SizeFor(n)] = st.next[b]]
               ELSE [st EXCEPT !.unborn = @ \ {b}]
  IN  [taken EXCEPT !.next[b] = Nil, !.rptr[b] = 0, !.buf[b] = <<>>]

LEMMA ExtendedIs ==
  ASSUME NEW st, NEW s, NEW n
  PROVE  Extended(st, s, n) =
           IF st.tail[s] = Nil
           THEN [Emptied(st, n) EXCEPT !.head[s] = NewBlock(st, n), !.tail[s] = NewBlock(st, n)]
           ELSE [Emptied(st, n) EXCEPT
                   !.next = [@ EXCEPT ![st.tail[s]] = NewBlock(st, n), ![NewBlock(st, n)] = Nil],
                   !.tail[s] = NewBlock(st, n)]
  BY DEF Extended, Emptied, NewBlock

\* There is a block for n bytes.
HasBlock(st, n) ==
  SizeFor(n) \in Sizes /\ (st.table[SizeFor(n)] # Nil \/ Candidates(st, n) # {})

\* The new block b of alloc was in no chain, and is not in one yet.
IsFresh(st, own, lists, lost, new, b, lists2) ==
  /\ Layout(new, own, lists2, lost \cup {b})
  /\ \A t \in Sockets : lists2[At(t)] = lists[At(t)]
  /\ b \in Blocks /\ b \notin lost /\ \A t \in Sockets : b \notin ToSet(lists[At(t)])
  /\ new.next[b] = Nil /\ new.head = st.head /\ new.tail = st.tail
  /\ new.rptr = [st.rptr EXCEPT ![b] = 0]
  /\ new.buf = [st.buf EXCEPT ![b] = <<>>]
  /\ st.unborn \ {b} \subseteq new.unborn

LEMMA EmptiedFromPool ==
  ASSUME NEW st, NEW own, NEW lists, NEW lost, Layout(st, own, lists, lost), NEW n,
         SizeFor(n) \in Sizes, st.table[SizeFor(n)] # Nil
  PROVE  /\ \E lists2 : IsFresh(st, own, lists, lost, Emptied(st, n), NewBlock(st, n), lists2)
         /\ BufSize[NewBlock(st, n)] = SizeFor(n)
  <1> DEFINE z == SizeFor(n)
             b == st.table[z]
             p == Pool(z)
             c == lists[p]
             d == Tail(c)
             new == [st EXCEPT !.table[z] = st.next[b], !.next[b] = Nil, !.rptr[b] = 0, !.buf[b] = <<>>]
             f == [st.next EXCEPT ![b] = Nil]
             lists2 == [lists EXCEPT ![p] = d]
             lost2 == lost \cup {b}
  <1>1. NewBlock(st, n) = b /\ Emptied(st, n) = new
    BY DEF NewBlock, Emptied
  <1>2. st \in State /\ Structure(st.next, st.unborn, lists, lost)
    BY DEF Layout
  <1>3. p \in Place /\ st.next \in [Blocks -> Blocks \cup {Nil}]
    BY <1>2, Places DEF State
  <1> HIDE DEF z
  <1>4. List(st.next, c) /\ ToSet(c) \cap (st.unborn \cup lost) = {}
    <2> HIDE DEF p
    <2> QED
      BY <1>3, LayoutOfList
  <1>5. b = FirstOf(c) /\ b # Nil /\ c # <<>>
    <2>1. b = FirstOf(c) /\ b # Nil
      BY DEF Layout, z
    <2> QED
      BY <2>1 DEF FirstOf
  <1>6. /\ b \in Blocks /\ List(st.next, d) /\ st.next[b] = FirstOf(d)
        /\ b \notin ToSet(d) /\ ToSet(c) = ToSet(d) \cup {b}
    <2>1. b = c[1]
      BY <1>5 DEF FirstOf
    <2> HIDE DEF c
    <2>2. c[1] \in Blocks /\ List(st.next, Tail(c)) /\ st.next[c[1]] = FirstOf(Tail(c))
          /\ c[1] \notin ToSet(Tail(c)) /\ ToSet(c) = ToSet(Tail(c)) \cup {c[1]}
      BY <1>4, <1>5, TailOfList
    <2> HIDE DEF b
    <2> QED
      BY <2>1, <2>2
  <1>7. Structure(st.next, st.unborn, lists2, lost2)
    <2>1. ToSet(d) \cup st.unborn \cup lost2 = ToSet(c) \cup st.unborn \cup lost
      BY <1>6
    <2>2. ToSet(d) \cap (st.unborn \cup lost2) = {}
      BY <1>4, <1>6
    <2>3. st.unborn \cap lost2 = {}
      BY <1>2, <1>4, <1>6 DEF Structure
    <2>4. \A m \in Sizes : p = Pool(m) => \A e \in ToSet(d) : BufSize[e] = m
      BY <1>2, <1>6 DEF Structure
    <2> HIDE DEF d, lost2, p
    <2>5. Replaces(st.next, st.unborn, lists, lost, p, st.next, d, st.unborn, lost2)
      BY <1>2, <1>3, <1>6, <2>1, <2>2, <2>3, <2>4 DEF Replaces
    <2> QED
      BY <2>5, OneListChanges
  <1>8. Structure(f, st.unborn, lists2, lost2)
    <2>1. f \in [Blocks -> Blocks \cup {Nil}] /\ \A e \in Blocks : e \notin st.unborn \cup lost2 => f[e] = st.next[e]
      BY <1>3, <1>6
    <2> HIDE DEF f, lists2, lost2
    <2> QED
      BY <1>7, <2>1, OtherBlocksChange
  <1>9. /\ new.next = f /\ new.head = st.head /\ new.tail = st.tail /\ new.unborn = st.unborn
        /\ new.rptr = [st.rptr EXCEPT ![b] = 0] /\ new.buf = [st.buf EXCEPT ![b] = <<>>]
        /\ new.table = [st.table EXCEPT ![z] = st.next[b]]
    BY <1>2 DEF State
  <1>10. f \in [Blocks -> Blocks \cup {Nil}] /\ f[b] = Nil /\ st.next[b] \in Blocks \cup {Nil}
    BY <1>3, <1>6
  <1>11. new \in State
    <2>1. <<>> \in Seq(Nat)
      OBVIOUS
    <2> QED
      BY <1>2, <1>6, <1>10, <2>1 DEF State, z
  <1>12. \A q \in Place : lists2[q] = IF q = p THEN d ELSE lists[q]
    BY <1>2 DEF Structure
  <1>13. \A t \in Sockets : lists2[At(t)] = lists[At(t)]
    BY <1>12, Places DEF z
  <1>14. \A m \in Sizes : new.table[m] = FirstOf(lists2[Pool(m)])
    <2> SUFFICES ASSUME NEW m \in Sizes PROVE new.table[m] = FirstOf(lists2[Pool(m)])
      OBVIOUS
    <2>1. z \in Sizes /\ (m # z => Pool(m) # p) /\ Pool(m) \in Place
      BY Places DEF z
    <2>2. st.table \in [Sizes -> Blocks \cup {Nil}] /\ st.table[m] = FirstOf(lists[Pool(m)])
      BY <1>2 DEF Layout, State
    <2> HIDE DEF d, lists2, b, new
    <2>3. new.table[m] = IF m = z THEN st.next[b] ELSE st.table[m]
      BY <1>9, <2>1, <2>2
    <2> HIDE DEF p
    <2>4. m = z => lists2[Pool(m)] = d
      BY <1>12, <2>1 DEF p
    <2>5. m # z => lists2[Pool(m)] = lists[Pool(m)]
      BY <1>12, <2>1
    <2> QED
      BY <1>6, <2>2, <2>3, <2>4, <2>5
  <1>15. BufSize[b] = z
    <2>1. \A e \in ToSet(c) : BufSize[e] = z
      BY <1>2 DEF Structure, z
    <2> QED
      BY <1>6, <2>1
  <1>16. \A t \in Sockets : b \notin ToSet(lists[At(t)])
    <2>1. ASSUME NEW t \in Sockets PROVE ToSet(lists[At(t)]) \cap ToSet(c) = {}
      <3>1. At(t) \in Place /\ At(t) # p
        BY Places DEF z
      <3> QED
        BY <1>2, <1>3, <3>1 DEF Structure
    <2> QED
      BY <1>6, <2>1
  <1> HIDE DEF new, lists2, lost2, b, f
  <1>17. Layout(new, own, lists2, lost2)
    BY <1>8, <1>9, <1>11, <1>13, <1>14 DEF Layout
  <1>18. IsFresh(st, own, lists, lost, new, b, lists2)
    BY <1>4, <1>6, <1>9, <1>10, <1>13, <1>16, <1>17 DEF IsFresh, lost2
  <1> QED
    BY <1>1, <1>15, <1>18 DEF z
LEMMA EmptiedFromMalloc ==
  ASSUME NEW st, NEW own, NEW lists, NEW lost, Layout(st, own, lists, lost), NEW n,
         SizeFor(n) \in Sizes, ~(st.table[SizeFor(n)] # Nil), Candidates(st, n) # {}
  PROVE  /\ \E lists2 : IsFresh(st, own, lists, lost, Emptied(st, n), NewBlock(st, n), lists2)
         /\ BufSize[NewBlock(st, n)] = SizeFor(n)
  <1> DEFINE b == CHOOSE e \in Candidates(st, n) : TRUE
             new == [st EXCEPT !.unborn = @ \ {b}, !.next[b] = Nil, !.rptr[b] = 0, !.buf[b] = <<>>]
             f == [st.next EXCEPT ![b] = Nil]
             lost2 == lost \cup {b}
             unborn2 == st.unborn \ {b}
  <1>1. NewBlock(st, n) = b /\ Emptied(st, n) = new
    BY DEF NewBlock, Emptied
  <1>2. st \in State /\ Structure(st.next, st.unborn, lists, lost)
    BY DEF Layout
  <1>3. b \in Candidates(st, n)
    OBVIOUS
  <1> HIDE DEF b
  <1>4. b \in st.unborn /\ BufSize[b] = SizeFor(n) /\ b \in Blocks
    BY <1>2, <1>3 DEF Candidates, Structure
  <1>5. f \in [Blocks -> Blocks \cup {Nil}] /\ f[b] = Nil
    BY <1>2, <1>4 DEF State
  <1>6. Structure(f, unborn2, lists, lost2)
    <2>1. Structure(f, st.unborn, lists, lost)
      <3>1. \A e \in Blocks : e \notin st.unborn \cup lost => f[e] = st.next[e]
        BY <1>2, <1>4 DEF State
      <3> HIDE DEF f
      <3> QED
        BY <1>2, <1>5, <3>1, OtherBlocksChange
    <2>2. unborn2 \cup lost2 = st.unborn \cup lost /\ unborn2 \cap lost2 = {}
          /\ unborn2 \subseteq Blocks /\ lost2 \subseteq Blocks
      BY <1>2, <1>4 DEF Structure
    <2> HIDE DEF f, unborn2, lost2
    <2> QED
      BY <2>1, <2>2 DEF Structure
  <1>7. /\ new.next = f /\ new.head = st.head /\ new.tail = st.tail /\ new.unborn = unborn2
        /\ new.rptr = [st.rptr EXCEPT ![b] = 0] /\ new.buf = [st.buf EXCEPT ![b] = <<>>]
        /\ new.table = st.table
    BY <1>2 DEF State
  <1>8. new \in State
    <2>1. <<>> \in Seq(Nat)
      OBVIOUS
    <2> QED
      BY <1>2, <1>4, <1>5, <2>1 DEF State
  <1>9. \A t \in Sockets : b \notin ToSet(lists[At(t)])
    BY <1>2, <1>4, Places DEF Structure
  <1>10. b \notin lost
    BY <1>2, <1>4 DEF Structure
  <1> HIDE DEF new, lost2, f, unborn2
  <1>11. Layout(new, own, lists, lost2)
    BY <1>6, <1>7, <1>8 DEF Layout
  <1>12. IsFresh(st, own, lists, lost, new, b, lists)
    BY <1>4, <1>5, <1>7, <1>9, <1>10, <1>11 DEF IsFresh, lost2, unborn2
  <1> QED
    BY <1>1, <1>4, <1>12

LEMMA EmptiedLayout ==
  ASSUME NEW st, NEW own, NEW lists, NEW lost, Layout(st, own, lists, lost), NEW n, HasBlock(st, n)
  PROVE  /\ \E lists2 : IsFresh(st, own, lists, lost, Emptied(st, n), NewBlock(st, n), lists2)
         /\ BufSize[NewBlock(st, n)] = SizeFor(n)
  BY EmptiedFromPool, EmptiedFromMalloc DEF HasBlock

\* What alloc changes in the blocks when it takes b for s.
TakesBlock(st, new, s, b) ==
  /\ b \in Blocks
  /\ new.tail = [st.tail EXCEPT ![s] = b]
  /\ new.rptr = [st.rptr EXCEPT ![b] = 0]
  /\ new.buf = [st.buf EXCEPT ![b] = <<>>]

\* alloc gives a new last block to a socket whose pointers are its own.
LEMMA ExtendedLayout ==
  ASSUME NEW st, NEW own, NEW lists, NEW lost, Layout(st, own, lists, lost), NEW s \in own,
         NEW n, HasBlock(st, n)
  PROVE  \E lists2, b :
           /\ Layout(Extended(st, s, n), own, lists2, lost)
           /\ TakesBlock(st, Extended(st, s, n), s, b) /\ BufSize[b] = SizeFor(n)
           /\ \A t \in Sockets : b \notin ToSet(lists[At(t)])
           /\ \A t \in Sockets : lists2[At(t)] = IF t = s THEN Append(lists[At(s)], b)
                                                 ELSE lists[At(t)]
  <1> DEFINE b == NewBlock(st, n)
             mid == Emptied(st, n)
             p == At(s)
             c == lists[p]
             d == Append(c, b)
             new == Extended(st, s, n)
  <1>1. BufSize[b] = SizeFor(n) /\ \E l : IsFresh(st, own, lists, lost, mid, b, l)
    BY EmptiedLayout
  <1>2. PICK lists1 : IsFresh(st, own, lists, lost, mid, b, lists1)
    BY <1>1
  <1>3. new = IF st.tail[s] = Nil
              THEN [mid EXCEPT !.head[s] = b, !.tail[s] = b]
              ELSE [mid EXCEPT !.next = [@ EXCEPT ![st.tail[s]] = b, ![b] = Nil], !.tail[s] = b]
    BY ExtendedIs
  <1> HIDE DEF b, mid, new
  <1> DEFINE lost1 == lost \cup {b}
             lists2 == [lists1 EXCEPT ![p] = d]
             f == IF st.tail[s] = Nil THEN mid.next
                  ELSE [[mid.next EXCEPT ![LastOf(c)] = b] EXCEPT ![b] = Nil]
  <1>4. st \in State /\ s \in Sockets /\ own \subseteq Sockets /\ p \in Place /\ st.tail[s] = LastOf(c)
        /\ st.head[s] = FirstOf(c)
    BY Places DEF Layout
  <1>5. /\ Layout(mid, own, lists1, lost1) /\ \A t \in Sockets : lists1[At(t)] = lists[At(t)]
        /\ b \in Blocks /\ b \notin lost /\ \A t \in Sockets : b \notin ToSet(lists[At(t)])
        /\ mid.next[b] = Nil /\ mid.head = st.head /\ mid.tail = st.tail
        /\ mid.rptr = [st.rptr EXCEPT ![b] = 0] /\ mid.buf = [st.buf EXCEPT ![b] = <<>>]
    BY <1>2 DEF IsFresh
  <1>6. mid \in State /\ Structure(mid.next, mid.unborn, lists1, lost1) /\ lists1[p] = c
        /\ mid.next \in [Blocks -> Blocks \cup {Nil}]
    BY <1>4, <1>5 DEF Layout, Structure
  <1>7. List(mid.next, c) /\ ToSet(c) \cap (mid.unborn \cup lost1) = {} /\ b \notin ToSet(c)
        /\ c \in Seq(Blocks)
    <2>1. List(mid.next, c) /\ ToSet(c) \cap (mid.unborn \cup lost1) = {}
      BY <1>4, <1>6 DEF Structure
    <2> QED
      BY <1>4, <1>5, <2>1 DEF List
  <1>8. (st.tail[s] = Nil <=> c = <<>>) /\ (c # <<>> => LastOf(c) \in ToSet(c))
    <2> HIDE DEF c
    <2> QED
      BY <1>4, <1>7, Members DEF LastOf
  <1>9. /\ List(f, d) /\ LastOf(d) = b /\ ToSet(d) = ToSet(c) \cup {b}
        /\ FirstOf(d) = IF st.tail[s] = Nil THEN b ELSE FirstOf(c)
    <2>1. CASE c = <<>>
      <3>1. d = <<b>> /\ f = mid.next /\ ToSet(c) = {}
        BY <1>8, <2>1, EmptyList
      <3> HIDE DEF d, f
      <3>2. List(f, <<b>>) /\ FirstOf(<<b>>) = b /\ LastOf(<<b>>) = b /\ ToSet(<<b>>) = {b}
        BY <1>5, <3>1, SingleList
      <3> QED
        BY <1>8, <2>1, <3>1, <3>2
    <2>2. CASE c # <<>>
      <3>1. f = [[mid.next EXCEPT ![LastOf(c)] = b] EXCEPT ![b] = Nil]
        BY <1>8, <2>2
      <3> HIDE DEF f, c
      <3>2. List([[mid.next EXCEPT ![LastOf(c)] = b] EXCEPT ![b] = Nil], Append(c, b))
            /\ FirstOf(Append(c, b)) = FirstOf(c) /\ LastOf(Append(c, b)) = b
            /\ ToSet(Append(c, b)) = ToSet(c) \cup {b}
        <4> DEFINE next == mid.next
        <4>1. next \in [Blocks -> Blocks \cup {Nil}] /\ List(next, c)
          BY <1>6, <1>7
        <4> HIDE DEF next
        <4>2. /\ List([[next EXCEPT ![LastOf(c)] = b] EXCEPT ![b] = Nil], Append(c, b))
              /\ FirstOf(Append(c, b)) = FirstOf(c) /\ LastOf(Append(c, b)) = b
              /\ ToSet(Append(c, b)) = ToSet(c) \cup {b}
          <5>1. b \in Blocks /\ b \notin ToSet(c) /\ c # <<>>
            BY <1>5, <1>7, <2>2
          <5> QED
            BY <4>1, <5>1, AppendList, Zenon
        <4> QED
          BY <4>2 DEF next
      <3> QED
        BY <1>8, <2>2, <3>1, <3>2
    <2> QED
      BY <2>1, <2>2
  <1>10. f \in [Blocks -> Blocks \cup {Nil}] /\ \A e \in Blocks : e \notin ToSet(c) \cup {b} => f[e] = mid.next[e]
    BY <1>5, <1>6, <1>8
  <1>11. /\ new \in State /\ new.next = f /\ new.table = mid.table /\ new.unborn = mid.unborn
         /\ new.tail = [st.tail EXCEPT ![s] = b] /\ new.rptr = mid.rptr /\ new.buf = mid.buf
         /\ new.head = IF st.tail[s] = Nil THEN [st.head EXCEPT ![s] = b] ELSE st.head
    <2>1. CASE st.tail[s] = Nil
      <3>1. new = [mid EXCEPT !.head[s] = b, !.tail[s] = b] /\ f = mid.next
        BY <1>3, <2>1
      <3> HIDE DEF f
      <3> QED
        BY <1>5, <1>6, <2>1, <3>1 DEF State
    <2>2. CASE st.tail[s] # Nil
      <3>1. f = [mid.next EXCEPT ![st.tail[s]] = b, ![b] = Nil]
        BY <1>4, <2>2
      <3>2. new = [mid EXCEPT !.next = f, !.tail[s] = b]
        BY <1>3, <2>2, <3>1
      <3> HIDE DEF f
      <3> QED
        BY <1>5, <1>6, <1>10, <2>2, <3>2 DEF State
    <2> QED
      BY <2>1, <2>2
  <1>12. Structure(f, mid.unborn, lists2, lost)
    <2>1. ToSet(d) \cup mid.unborn \cup lost = ToSet(lists1[p]) \cup mid.unborn \cup lost1
      BY <1>6, <1>9
    <2>2. ToSet(d) \cap (mid.unborn \cup lost) = {}
      <3>1. b \notin mid.unborn
        BY <1>6 DEF Structure
      <3> QED
        BY <1>5, <1>7, <1>9, <3>1
    <2>3. mid.unborn \cap lost = {}
      BY <1>6 DEF Structure
    <2>4. \A m \in Sizes : p = Pool(m) => \A e \in ToSet(d) : BufSize[e] = m
      BY <1>4, Places
    <2>5. ASSUME NEW q \in Place, q # p, NEW e \in ToSet(lists1[q]) PROVE f[e] = mid.next[e]
      <3>1. e \in Blocks /\ e \notin ToSet(c) /\ e \notin lost1
        <4>1. ToSet(lists1[q]) \cap ToSet(lists1[p]) = {} /\ ToSet(lists1[q]) \cap lost1 = {}
              /\ lists1[q] \in Seq(Blocks)
          BY <1>4, <1>6, <2>5 DEF Structure
        <4> QED
          BY <1>6, <4>1, <2>5, Members
      <3> QED
        BY <1>10, <3>1
    <2> HIDE DEF d, lost1, p, f
    <2>6. Replaces(mid.next, mid.unborn, lists1, lost1, p, f, d, mid.unborn, lost)
      BY <1>4, <1>6, <1>9, <1>10, <2>1, <2>2, <2>3, <2>4, <2>5 DEF Replaces
    <2> QED
      BY <2>6, OneListChanges
  <1>13. \A q \in Place : lists2[q] = IF q = p THEN d ELSE lists1[q]
    BY <1>6 DEF Structure
  <1>14. /\ \A t \in Sockets : lists2[At(t)] = IF t = s THEN d ELSE lists[At(t)]
         /\ \A m \in Sizes : lists2[Pool(m)] = lists1[Pool(m)]
    BY <1>4, <1>5, <1>13, Places
  <1> HIDE DEF lists2, d, f, c
  <1>15. Layout(new, own, lists2, lost)
    <2>1. \A m \in Sizes : new.table[m] = FirstOf(lists2[Pool(m)])
      BY <1>5, <1>11, <1>14 DEF Layout
    <2>2. ASSUME NEW t \in own
          PROVE  new.head[t] = FirstOf(lists2[At(t)]) /\ new.tail[t] = LastOf(lists2[At(t)])
      <3>1. CASE t = s
        <4>1. lists2[At(t)] = d /\ st.head[s] = FirstOf(c)
          BY <3>1, <1>4, <1>14
        <4>2. new.tail[t] = b /\ new.head[t] = IF st.tail[s] = Nil THEN b ELSE st.head[s]
          BY <3>1, <1>4, <1>11 DEF State
        <4> QED
          BY <4>1, <4>2, <1>9
      <3>2. CASE t # s
        <4>1. lists2[At(t)] = lists[At(t)] /\ t \in Sockets
          BY <3>2, <2>2, <1>4, <1>14
        <4>2. new.tail[t] = st.tail[t] /\ new.head[t] = st.head[t]
          BY <3>2, <4>1, <1>4, <1>11 DEF State
        <4> QED
          BY <4>1, <4>2, <2>2 DEF Layout
      <3> QED
        BY <3>1, <3>2
    <2>3. \A t \in Sockets \ own : lists2[At(t)] = <<>>
      BY <1>4, <1>14 DEF Layout
    <2> QED
      BY <1>4, <1>11, <1>12, <2>1, <2>2, <2>3 DEF Layout
  <1>16. TakesBlock(st, new, s, b)
    BY <1>5, <1>11 DEF TakesBlock
  <1>17. /\ Layout(new, own, lists2, lost)
         /\ TakesBlock(st, new, s, b) /\ BufSize[b] = SizeFor(n)
         /\ \A t \in Sockets : b \notin ToSet(lists[At(t)])
         /\ \A t \in Sockets : lists2[At(t)] = IF t = s THEN Append(lists[At(s)], b) ELSE lists[At(t)]
    BY <1>1, <1>5, <1>14, <1>15, <1>16 DEF d, c
  <1> QED
    BY <1>17 DEF new
\* A socket whose pointers are not its own gets a block that nothing else leads
\* to, if its block_tail is not in a list.
LEMMA ExtendedElsewhere ==
  ASSUME NEW st, NEW own, NEW lists, NEW lost, Layout(st, own, lists, lost),
         NEW s \in Sockets \ own, NEW n, HasBlock(st, n),
         st.tail[s] # Nil => st.tail[s] \in lost \cup st.unborn
  PROVE  \E lists2, lost2, b :
           /\ Layout(Extended(st, s, n), own, lists2, lost2)
           /\ TakesBlock(st, Extended(st, s, n), s, b) /\ BufSize[b] = SizeFor(n)
           /\ \A t \in Sockets : b \notin ToSet(lists[At(t)])
           /\ \A t \in Sockets : lists2[At(t)] = lists[At(t)]
  <1> DEFINE b == NewBlock(st, n)
             mid == Emptied(st, n)
             new == Extended(st, s, n)
             lost1 == lost \cup {b}
  <1>1. BufSize[b] = SizeFor(n) /\ \E l : IsFresh(st, own, lists, lost, mid, b, l)
    BY EmptiedLayout
  <1>2. PICK lists1 : IsFresh(st, own, lists, lost, mid, b, lists1)
    BY <1>1
  <1>3. new = IF st.tail[s] = Nil
              THEN [mid EXCEPT !.head[s] = b, !.tail[s] = b]
              ELSE [mid EXCEPT !.next = [@ EXCEPT ![st.tail[s]] = b, ![b] = Nil], !.tail[s] = b]
    BY ExtendedIs
  <1> HIDE DEF b, mid, new
  <1> DEFINE f == IF st.tail[s] = Nil THEN mid.next
                  ELSE [mid.next EXCEPT ![st.tail[s]] = b, ![b] = Nil]
  <1>4. st \in State /\ own \subseteq Sockets
    BY DEF Layout
  <1>5. /\ Layout(mid, own, lists1, lost1) /\ \A t \in Sockets : lists1[At(t)] = lists[At(t)]
        /\ b \in Blocks /\ b \notin lost /\ \A t \in Sockets : b \notin ToSet(lists[At(t)])
        /\ mid.next[b] = Nil /\ mid.head = st.head /\ mid.tail = st.tail
        /\ mid.rptr = [st.rptr EXCEPT ![b] = 0] /\ mid.buf = [st.buf EXCEPT ![b] = <<>>]
        /\ st.unborn \ {b} \subseteq mid.unborn
    BY <1>2 DEF IsFresh
  <1>6. mid \in State /\ Structure(mid.next, mid.unborn, lists1, lost1)
        /\ mid.next \in [Blocks -> Blocks \cup {Nil}]
    BY <1>5 DEF Layout, Structure
  <1>7. f \in [Blocks -> Blocks \cup {Nil}]
        /\ \A e \in Blocks : e \notin mid.unborn \cup lost1 => f[e] = mid.next[e]
    <2>1. st.tail[s] # Nil => st.tail[s] \in mid.unborn \cup lost1
      BY <1>5
    <2> QED
      BY <1>5, <1>6, <2>1
  <1>8. Structure(f, mid.unborn, lists1, lost1)
    <2> HIDE DEF f, lost1
    <2> QED
      BY <1>6, <1>7, OtherBlocksChange
  <1>9. /\ new \in State /\ new.next = f /\ new.table = mid.table /\ new.unborn = mid.unborn
        /\ new.tail = [st.tail EXCEPT ![s] = b] /\ new.rptr = mid.rptr /\ new.buf = mid.buf
        /\ \A t \in own : new.head[t] = st.head[t]
    <2>1. CASE st.tail[s] = Nil
      <3>1. new = [mid EXCEPT !.head[s] = b, !.tail[s] = b] /\ f = mid.next
        BY <1>3, <2>1
      <3> HIDE DEF f
      <3> QED
        BY <1>4, <1>5, <1>6, <2>1, <3>1 DEF State
    <2>2. CASE st.tail[s] # Nil
      <3>1. f = [mid.next EXCEPT ![st.tail[s]] = b, ![b] = Nil]
        BY <1>4, <2>2
      <3>2. new = [mid EXCEPT !.next = f, !.tail[s] = b]
        BY <1>3, <2>2, <3>1
      <3> HIDE DEF f
      <3> QED
        BY <1>5, <1>6, <1>7, <2>2, <3>2 DEF State
    <2> QED
      BY <2>1, <2>2
  <1> HIDE DEF f, lost1
  <1>10. Layout(new, own, lists1, lost1)
    <2>1. \A m \in Sizes : new.table[m] = FirstOf(lists1[Pool(m)])
      BY <1>5, <1>9 DEF Layout
    <2>2. ASSUME NEW t \in own
          PROVE  new.head[t] = FirstOf(lists1[At(t)]) /\ new.tail[t] = LastOf(lists1[At(t)])
      <3>1. t # s /\ t \in Sockets
        BY <1>4
      <3>2. new.tail[t] = st.tail[t] /\ new.head[t] = st.head[t]
        BY <3>1, <1>4, <1>9 DEF State
      <3> QED
        BY <3>1, <3>2, <1>5 DEF Layout
    <2>3. \A t \in Sockets \ own : lists1[At(t)] = <<>>
      BY <1>5 DEF Layout
    <2> QED
      BY <1>4, <1>8, <1>9, <2>1, <2>2, <2>3 DEF Layout
  <1>11. TakesBlock(st, new, s, b)
    BY <1>5, <1>9 DEF TakesBlock
  <1>12. /\ Layout(new, own, lists1, lost1)
         /\ TakesBlock(st, new, s, b) /\ BufSize[b] = SizeFor(n)
         /\ \A t \in Sockets : b \notin ToSet(lists[At(t)])
         /\ \A t \in Sockets : lists1[At(t)] = lists[At(t)]
    BY <1>1, <1>5, <1>10, <1>11
  <1> QED
    BY <1>12 DEF new

\* The bytes went behind those of b, or into b, which was empty.
AppendsTo(st, new, b, bytes) ==
  new.rptr = st.rptr /\ new.buf = [st.buf EXCEPT ![b] = st.buf[b] \o bytes]
Fills(st, new, b, bytes) ==
  new.rptr = [st.rptr EXCEPT ![b] = 0] /\ new.buf = [st.buf EXCEPT ![b] = bytes]

\* Bytes behind those of the last block change no list.
LEMMA FlushedLayout ==
  ASSUME NEW st, NEW own, NEW lists, NEW lost, Layout(st, own, lists, lost),
         NEW s, NEW bytes \in Seq(Nat), st.tail[s] \in Blocks
  PROVE  /\ Layout(Flushed(st, s, bytes), own, lists, lost)
         /\ AppendsTo(st, Flushed(st, s, bytes), st.tail[s], bytes)
  <1> DEFINE b == st.tail[s]
             r == [st.buf EXCEPT ![b] = st.buf[b] \o bytes]
             new == [st EXCEPT !.buf = r]
  <1>1. st \in State
    BY DEF Layout
  <1>2. Flushed(st, s, bytes) = new
    BY <1>1 DEF Flushed, State
  <1>3. r \in [Blocks -> Seq(Nat)]
    <2>1. st.buf[b] \o bytes \in Seq(Nat)
      BY <1>1, ConcatProperties DEF State
    <2> QED
      BY <1>1, <2>1 DEF State
  <1> HIDE DEF r
  <1>4. /\ new \in State /\ new.buf = r
        /\ new.head = st.head /\ new.tail = st.tail /\ new.next = st.next
        /\ new.rptr = st.rptr /\ new.table = st.table /\ new.unborn = st.unborn
    BY <1>1, <1>3 DEF State
  <1>5. Layout(new, own, lists, lost)
    BY <1>4 DEF Layout
  <1> QED
    BY <1>2, <1>4, <1>5 DEF r, AppendsTo
-----------------------------------------------------------------------------
(* What is written and what is read *)

\* Nothing is written behind buf_size or read behind buf_len.
InBounds(st) ==
  \A b \in Blocks : st.rptr[b] <= Len(st.buf[b]) /\ Len(st.buf[b]) <= BufSize[b]

\* The blocks of a socket have something left to read.
Unread(st, lists) ==
  \A s \in Sockets : \A b \in ToSet(lists[At(s)]) : st.rptr[b] < Len(st.buf[b])

Holding(st, own, lists, lost) ==
  Layout(st, own, lists, lost) /\ InBounds(st) /\ Unread(st, lists)

\* The bytes went behind the last block of s, or into a new one.
StoredIn(st, new, s, bytes, lists, lists2) ==
  /\ \A t \in Sockets : t # s => lists2[At(t)] = lists[At(t)]
  /\ \/ /\ lists[At(s)] # <<>> /\ lists2[At(s)] = lists[At(s)]
        /\ AppendsTo(st, new, LastOf(lists[At(s)]), bytes)
     \/ \E b \in Blocks :
          /\ \A t \in Sockets : b \notin ToSet(lists[At(t)])
          /\ lists2[At(s)] = Append(lists[At(s)], b)
          /\ Fills(st, new, b, bytes)

LEMMA CanAllocHas ==
  ASSUME NEW st, NEW s, NEW n \in Nat, CanAlloc(st, s, n), ~Fits(st, s, n)
  PROVE  HasBlock(st, n) /\ SizeFor(n) >= n
  BY SizeForFits DEF CanAlloc, HasBlock

\* All other blocks are as before.
TouchesOnly(st, new, b) ==
  \A e \in Blocks : e # b => new.rptr[e] = st.rptr[e] /\ new.buf[e] = st.buf[e]

\* A block with room for some bytes holds them.
LEMMA StoredBytes ==
  ASSUME NEW st \in State, InBounds(st), NEW bytes \in Seq(Nat), NEW b \in Blocks, NEW new,
         \/ AppendsTo(st, new, b, bytes) /\ BufSize[b] - Len(st.buf[b]) >= Len(bytes)
         \/ Fills(st, new, b, bytes) /\ BufSize[b] >= Len(bytes)
  PROVE  /\ InBounds(new)
         /\ Len(bytes) > 0 => new.rptr[b] < Len(new.buf[b])
         /\ TouchesOnly(st, new, b)
  <1> DEFINE r == new.rptr
             f == new.buf
  <1>1. /\ st.rptr \in [Blocks -> Nat] /\ st.buf \in [Blocks -> Seq(Nat)]
        /\ BufSize \in [Blocks -> Nat \ {0}] /\ Len(bytes) \in Nat
    BY LenProperties DEF State
  <1>2. \A e \in Blocks : st.rptr[e] \in Nat /\ Len(st.buf[e]) \in Nat /\ BufSize[e] \in Nat
    BY <1>1, LenProperties
  <1>3. \A e \in Blocks : e # b => r[e] = st.rptr[e] /\ f[e] = st.buf[e]
    BY <1>1 DEF AppendsTo, Fills
  <1>4. st.rptr[b] <= Len(st.buf[b]) /\ Len(st.buf[b]) <= BufSize[b]
    BY DEF InBounds
  <1>5. r[b] <= Len(f[b]) /\ Len(f[b]) <= BufSize[b] /\ (Len(bytes) > 0 => r[b] < Len(f[b]))
    <2>1. CASE r = st.rptr /\ f = [st.buf EXCEPT ![b] = st.buf[b] \o bytes]
               /\ BufSize[b] - Len(st.buf[b]) >= Len(bytes)
      <3>1. r[b] = st.rptr[b] /\ Len(f[b]) = Len(st.buf[b]) + Len(bytes)
        BY <1>1, <2>1, ConcatProperties
      <3> QED
        BY <1>1, <1>2, <1>4, <2>1, <3>1
    <2>2. CASE r = [st.rptr EXCEPT ![b] = 0] /\ f = [st.buf EXCEPT ![b] = bytes]
               /\ BufSize[b] >= Len(bytes)
      <3>1. r[b] = 0 /\ Len(f[b]) = Len(bytes)
        BY <1>1, <2>2
      <3> QED
        BY <1>1, <1>2, <2>2, <3>1
    <2> QED
      BY <2>1, <2>2 DEF AppendsTo, Fills
  <1>6. \A e \in Blocks : r[e] <= Len(f[e]) /\ Len(f[e]) <= BufSize[e]
    <2>1. ASSUME NEW e \in Blocks, e # b PROVE r[e] <= Len(f[e]) /\ Len(f[e]) <= BufSize[e]
      BY <2>1, <1>3 DEF InBounds
    <2> QED
      BY <1>5, <2>1
  <1> QED
    BY <1>3, <1>5, <1>6 DEF InBounds, TouchesOnly

\* A send on a socket whose pointers are its own.
LEMMA StoredLayout ==
  ASSUME NEW st, NEW own, NEW lists, NEW lost, Holding(st, own, lists, lost), NEW s \in own,
         NEW bytes \in Seq(Nat), Len(bytes) > 0, CanAlloc(st, s, Len(bytes))
  PROVE  \E lists2 :
           /\ Holding(Stored(st, s, bytes), own, lists2, lost)
           /\ StoredIn(st, Stored(st, s, bytes), s, bytes, lists, lists2)
           /\ lists2[At(s)] # <<>>
  <1> DEFINE n == Len(bytes)
             c == lists[At(s)]
             new == Stored(st, s, bytes)
  <1>1. /\ Layout(st, own, lists, lost) /\ InBounds(st) /\ Unread(st, lists)
        /\ st \in State /\ s \in Sockets /\ own \subseteq Sockets
    BY DEF Holding, Layout
  <1>2. n \in Nat /\ st.tail[s] = LastOf(c) /\ At(s) \in Place
    BY <1>1, LenProperties, Places DEF Layout
  <1>3. c \in Seq(Blocks)
    BY <1>1, <1>2, LayoutOfList
  <1>4. CASE Fits(st, s, n)
    <2> DEFINE b == st.tail[s]
    <2>1. new = Flushed(st, s, bytes)
      BY <1>4 DEF Stored
    <2>2. b \in Blocks /\ c # <<>> /\ b = LastOf(c) /\ BufSize[b] - Len(st.buf[b]) >= n
      BY <1>1, <1>2, <1>4 DEF Fits, State, LastOf
    <2>3. Layout(new, own, lists, lost) /\ AppendsTo(st, new, b, bytes)
      <3>1. Layout(Flushed(st, s, bytes), own, lists, lost)
        BY <1>1, <2>2, FlushedLayout
      <3>2. AppendsTo(st, Flushed(st, s, bytes), b, bytes)
        BY <1>1, <2>2, <3>1, FlushedLayout
      <3> QED
        BY <2>1, <3>1, <3>2
    <2> HIDE DEF b, new, n
    <2>4. InBounds(new) /\ new.rptr[b] < Len(new.buf[b]) /\ TouchesOnly(st, new, b)
      BY <1>1, <2>2, <2>3, StoredBytes DEF n
    <2>5. Unread(new, lists)
      <3>1. ASSUME NEW t \in Sockets, NEW e \in ToSet(lists[At(t)]) PROVE new.rptr[e] < Len(new.buf[e])
        <4>1. e \in Blocks
          BY <1>1, <3>1, Places, LayoutOfList
        <4>2. st.rptr[e] < Len(st.buf[e])
          BY <1>1 DEF Unread
        <4> QED
          BY <2>4, <4>1, <4>2 DEF TouchesOnly
      <3> QED
        BY <3>1 DEF Unread
    <2>6. Holding(new, own, lists, lost)
      BY <2>3, <2>4, <2>5 DEF Holding
    <2>7. StoredIn(st, new, s, bytes, lists, lists)
      BY <2>2, <2>3 DEF StoredIn
    <2> QED
      BY <2>2, <2>6, <2>7 DEF new
  <1>5. CASE ~Fits(st, s, n)
    <2> DEFINE mid == Extended(st, s, n)
    <2>1. new = Flushed(mid, s, bytes)
      BY <1>5 DEF Stored
    <2>2. HasBlock(st, n) /\ SizeFor(n) >= n
      BY <1>2, <1>5, CanAllocHas
    <2> HIDE DEF n
    <2>3. PICK lists2, b :
            /\ Layout(mid, own, lists2, lost)
            /\ TakesBlock(st, mid, s, b) /\ BufSize[b] = SizeFor(n)
            /\ \A t \in Sockets : b \notin ToSet(lists[At(t)])
            /\ \A t \in Sockets : lists2[At(t)] = IF t = s THEN Append(c, b) ELSE lists[At(t)]
      BY <1>1, <2>2, ExtendedLayout
    <2> HIDE DEF mid
    <2>4. /\ b \in Blocks /\ mid.tail[s] = b /\ mid.rptr = [st.rptr EXCEPT ![b] = 0]
          /\ mid.buf = [st.buf EXCEPT ![b] = <<>>] /\ mid.buf[b] = <<>>
      BY <1>1, <2>3 DEF TakesBlock, State
    <2>5. Layout(new, own, lists2, lost) /\ AppendsTo(mid, new, b, bytes)
      <3>1. Layout(Flushed(mid, s, bytes), own, lists2, lost)
        BY <2>3, <2>4, FlushedLayout
      <3>2. AppendsTo(mid, Flushed(mid, s, bytes), mid.tail[s], bytes)
        BY <2>3, <2>4, <3>1, FlushedLayout
      <3> QED
        BY <2>1, <2>4, <3>1, <3>2
    <2>6. Fills(st, new, b, bytes)
      <3>1. <<>> \o bytes = bytes
        BY ConcatEmptySeq
      <3> QED
        BY <1>1, <2>4, <2>5, <3>1 DEF State, AppendsTo, Fills
    <2> HIDE DEF new
    <2>7. InBounds(new) /\ new.rptr[b] < Len(new.buf[b]) /\ TouchesOnly(st, new, b)
      BY <1>1, <2>2, <2>3, <2>4, <2>6, StoredBytes DEF n
    <2>8. Append(c, b) # <<>> /\ ToSet(Append(c, b)) = ToSet(c) \cup {b}
      <3>1. Append(c, b) \in Seq(Blocks) /\ Len(Append(c, b)) = Len(c) + 1 /\ Append(c, b)[Len(c) + 1] = b
            /\ \A i \in 1..Len(c) : Append(c, b)[i] = c[i]
        BY <1>3, <2>4, AppendProperties
      <3> DEFINE d == Append(c, b)
      <3> HIDE DEF d, c
      <3>2. Len(c) \in Nat /\ 1..Len(d) = (1..Len(c)) \cup {Len(c) + 1}
        <4>1. Len(c) \in Nat /\ Len(d) = Len(c) + 1
          BY <1>3, <3>1, LenProperties DEF d
        <4>2. \A m \in Nat : 1..(m + 1) = (1..m) \cup {m + 1}
          OBVIOUS
        <4> QED
          BY <4>1, <4>2
      <3>3. ToSet(d) = {d[i] : i \in 1..Len(d)} /\ ToSet(c) = {c[i] : i \in 1..Len(c)}
            /\ (d = <<>> <=> Len(d) = 0)
        <4>1. d \in Seq(Blocks)
          BY <3>1 DEF d
        <4> QED
          BY <1>3, <4>1, Members
      <3> QED
        BY <3>1, <3>2, <3>3 DEF d
    <2>9. Unread(new, lists2)
      <3>1. ASSUME NEW t \in Sockets, NEW e \in ToSet(lists2[At(t)]) PROVE new.rptr[e] < Len(new.buf[e])
        <4>1. e \in Blocks
          BY <2>5, <3>1, Places, LayoutOfList
        <4>2. CASE e = b
          BY <4>2, <2>7
        <4>3. CASE e # b
          <5>1. e \in ToSet(lists[At(t)])
            BY <2>3, <2>8, <3>1, <4>3
          <5>2. st.rptr[e] < Len(st.buf[e])
            BY <1>1, <5>1 DEF Unread
          <5> QED
            BY <2>7, <4>1, <4>3, <5>2 DEF TouchesOnly
        <4> QED
          BY <4>2, <4>3
      <3> QED
        BY <3>1 DEF Unread
    <2>10. Holding(new, own, lists2, lost)
      BY <2>5, <2>7, <2>9 DEF Holding
    <2>11. StoredIn(st, new, s, bytes, lists, lists2)
      BY <1>1, <2>3, <2>4, <2>6 DEF StoredIn
    <2>12. lists2[At(s)] # <<>>
      BY <1>1, <2>3, <2>8
    <2> QED
      BY <2>10, <2>11, <2>12 DEF new
  <1> QED
    BY <1>4, <1>5

\* A send on another socket, whose block_tail is not in a list.
LEMMA StoredElsewhere ==
  ASSUME NEW st, NEW own, NEW lists, NEW lost, Holding(st, own, lists, lost),
         NEW s \in Sockets \ own, NEW bytes \in Seq(Nat), CanAlloc(st, s, Len(bytes)),
         st.tail[s] # Nil => st.tail[s] \in lost \cup st.unborn
  PROVE  \E lists2, lost2 : \E b \in Blocks :
           /\ Holding(Stored(st, s, bytes), own, lists2, lost2)
           /\ \A t \in Sockets : lists2[At(t)] = lists[At(t)] /\ b \notin ToSet(lists[At(t)])
           /\ TouchesOnly(st, Stored(st, s, bytes), b)
  <1> DEFINE n == Len(bytes)
             new == Stored(st, s, bytes)
  <1>1. /\ Layout(st, own, lists, lost) /\ InBounds(st) /\ Unread(st, lists)
        /\ st \in State /\ n \in Nat
    BY LenProperties DEF Holding, Layout
  <1>2. SUFFICES \E lists2, lost2 : \E b \in Blocks :
           /\ Layout(new, own, lists2, lost2) /\ InBounds(new)
           /\ \A t \in Sockets : lists2[At(t)] = lists[At(t)] /\ b \notin ToSet(lists[At(t)])
           /\ TouchesOnly(st, new, b)
    <2>0. PICK lists2, lost2 : \E b \in Blocks :
           /\ Layout(new, own, lists2, lost2) /\ InBounds(new)
           /\ \A t \in Sockets : lists2[At(t)] = lists[At(t)] /\ b \notin ToSet(lists[At(t)])
           /\ TouchesOnly(st, new, b)
      BY <1>2
    <2>1. PICK b \in Blocks :
           /\ Layout(new, own, lists2, lost2) /\ InBounds(new)
           /\ \A t \in Sockets : lists2[At(t)] = lists[At(t)] /\ b \notin ToSet(lists[At(t)])
           /\ TouchesOnly(st, new, b)
      BY <2>0
    <2> HIDE DEF new
    <2>2. Unread(new, lists2)
      <3>1. ASSUME NEW t \in Sockets, NEW e \in ToSet(lists2[At(t)]) PROVE new.rptr[e] < Len(new.buf[e])
        <4>1. e \in Blocks
          BY <2>1, <3>1, Places, LayoutOfList
        <4>2. e \in ToSet(lists[At(t)]) /\ e # b
          BY <2>1, <3>1
        <4> QED
          BY <1>1, <2>1, <4>1, <4>2 DEF Unread, TouchesOnly
      <3> QED
        BY <3>1 DEF Unread
    <2> QED
      BY <2>1, <2>2 DEF Holding, new
  <1>3. CASE Fits(st, s, n)
    <2> DEFINE b == st.tail[s]
    <2>1. new = Flushed(st, s, bytes)
      BY <1>3 DEF Stored
    <2>2. b \in Blocks /\ BufSize[b] - Len(st.buf[b]) >= n /\ b \in lost \cup st.unborn
      BY <1>1, <1>3 DEF Fits, State
    <2>3. Layout(new, own, lists, lost) /\ AppendsTo(st, new, b, bytes)
      <3>1. Layout(Flushed(st, s, bytes), own, lists, lost)
        BY <1>1, <2>2, FlushedLayout
      <3>2. AppendsTo(st, Flushed(st, s, bytes), b, bytes)
        BY <1>1, <2>2, <3>1, FlushedLayout
      <3> QED
        BY <2>1, <3>1, <3>2
    <2> HIDE DEF b, new, n
    <2>4. InBounds(new) /\ TouchesOnly(st, new, b)
      BY <1>1, <2>2, <2>3, StoredBytes DEF n
    <2>5. \A t \in Sockets : b \notin ToSet(lists[At(t)])
      BY <1>1, <2>2, Places, LayoutOfList
    <2> QED
      BY <2>2, <2>3, <2>4, <2>5, Zenon
  <1>4. CASE ~Fits(st, s, n)
    <2> DEFINE mid == Extended(st, s, n)
    <2>1. new = Flushed(mid, s, bytes)
      BY <1>4 DEF Stored
    <2>2. HasBlock(st, n) /\ SizeFor(n) >= n
      BY <1>1, <1>4, CanAllocHas
    <2> HIDE DEF n
    <2>3. PICK lists2, lost2, b :
            /\ Layout(mid, own, lists2, lost2)
            /\ TakesBlock(st, mid, s, b) /\ BufSize[b] = SizeFor(n)
            /\ \A t \in Sockets : b \notin ToSet(lists[At(t)])
            /\ \A t \in Sockets : lists2[At(t)] = lists[At(t)]
      BY <1>1, <2>2, ExtendedElsewhere
    <2> HIDE DEF mid
    <2>4. /\ b \in Blocks /\ mid.tail[s] = b /\ mid.rptr = [st.rptr EXCEPT ![b] = 0]
          /\ mid.buf = [st.buf EXCEPT ![b] = <<>>] /\ mid.buf[b] = <<>>
      BY <1>1, <2>3 DEF TakesBlock, State
    <2>5. Layout(new, own, lists2, lost2) /\ AppendsTo(mid, new, b, bytes)
      <3>1. Layout(Flushed(mid, s, bytes), own, lists2, lost2)
        BY <2>3, <2>4, FlushedLayout
      <3>2. AppendsTo(mid, Flushed(mid, s, bytes), mid.tail[s], bytes)
        BY <2>3, <2>4, <3>1, FlushedLayout
      <3> QED
        BY <2>1, <2>4, <3>1, <3>2
    <2>6. Fills(st, new, b, bytes)
      <3>1. <<>> \o bytes = bytes
        BY ConcatEmptySeq
      <3> QED
        BY <1>1, <2>4, <2>5, <3>1, ZenonT(60) DEF State, AppendsTo, Fills
    <2> HIDE DEF new
    <2>7. InBounds(new) /\ TouchesOnly(st, new, b)
      BY <1>1, <2>2, <2>3, <2>4, <2>6, StoredBytes DEF n
    <2> QED
      <3>1. \A t \in Sockets : lists2[At(t)] = lists[At(t)] /\ b \notin ToSet(lists[At(t)])
        BY <2>3
      <3> QED
        BY <2>4, <2>5, <2>7, <3>1, ZenonT(60)
  <1> QED
    BY <1>3, <1>4
\* One byte of s was read.
ReadOne(st, new, s, lists, lists2) ==
  /\ lists[At(s)] # <<>>
  /\ \A t \in Sockets : t # s => lists2[At(t)] = lists[At(t)]
  /\ lists2[At(s)] = IF st.rptr[st.head[s]] + 1 < Len(st.buf[st.head[s]])
                     THEN lists[At(s)] ELSE Tail(lists[At(s)])
  /\ new.rptr = [st.rptr EXCEPT ![st.head[s]] = st.rptr[st.head[s]] + 1]
  /\ new.buf = st.buf

\* datalen is zero only when nothing is left in any block.
LEMMA DatalenOfList ==
  ASSUME NEW st, NEW own, NEW lists, NEW lost, Holding(st, own, lists, lost), NEW s \in own
  PROVE  /\ Datalen(st, s) \in Nat
         /\ Datalen(st, s) = 0 <=> lists[At(s)] = <<>>
         /\ lists[At(s)] # <<>> =>
              /\ st.head[s] \in Blocks /\ st.head[s] = lists[At(s)][1]
              /\ st.head[s] \in ToSet(lists[At(s)])
              /\ st.rptr[st.head[s]] \in Nat /\ Len(st.buf[st.head[s]]) \in Nat
              /\ st.rptr[st.head[s]] < Len(st.buf[st.head[s]])
  <1> DEFINE c == lists[At(s)]
             b == st.head[s]
  <1>1. /\ Layout(st, own, lists, lost) /\ Unread(st, lists)
        /\ s \in Sockets /\ st \in State /\ At(s) \in Place
    BY Places DEF Holding, Layout
  <1>2. c \in Seq(Blocks) /\ b = FirstOf(c)
    <2>1. b = FirstOf(c)
      BY <1>1 DEF Layout
    <2> QED
      BY <1>1, <2>1, LayoutOfList
  <1> HIDE DEF c, b
  <1>3. CASE c = <<>>
    BY <1>2, <1>3 DEF Datalen, FirstOf, b, c
  <1>4. CASE c # <<>>
    <2>1. b = c[1] /\ b \in Blocks /\ b \in ToSet(c) /\ b # Nil
      BY <1>2, <1>4, Members DEF FirstOf
    <2>2. st.rptr[b] \in Nat /\ st.buf[b] \in Seq(Nat)
      BY <1>1, <2>1 DEF State
    <2>3. Len(st.buf[b]) \in Nat /\ st.rptr[b] < Len(st.buf[b])
      BY <1>1, <2>1, <2>2, LenProperties DEF Unread, c
    <2>4. Datalen(st, s) = Len(st.buf[b]) - st.rptr[b]
      BY <2>1 DEF Datalen, b
    <2>5. Datalen(st, s) \in Nat /\ Datalen(st, s) # 0
      BY <2>2, <2>3, <2>4
    <2> QED
      BY <1>4, <2>1, <2>2, <2>3, <2>5 DEF b, c
  <1> QED
    BY <1>3, <1>4

\* skip_read_ptr by one byte, where there is one.
LEMMA SkippedHolding ==
  ASSUME NEW st, NEW own, NEW lists, NEW lost, Holding(st, own, lists, lost), NEW s \in own,
         Datalen(st, s) # 0
  PROVE  \E lists2 : /\ Holding(Skipped(st, s, 1), own, lists2, lost)
                     /\ ReadOne(st, Skipped(st, s, 1), s, lists, lists2)
  <1> DEFINE c == lists[At(s)]
             b == st.head[s]
             new == Skipped(st, s, 1)
  <1>1. /\ Layout(st, own, lists, lost) /\ InBounds(st) /\ Unread(st, lists)
        /\ s \in Sockets /\ st \in State /\ At(s) \in Place
    BY Places DEF Holding, Layout
  <1>2. /\ c # <<>> /\ b \in Blocks /\ b = c[1] /\ b \in ToSet(c)
        /\ st.rptr[b] \in Nat /\ Len(st.buf[b]) \in Nat /\ st.rptr[b] < Len(st.buf[b])
    BY DatalenOfList
  <1>3. st.rptr[b] + 1 <= Len(st.buf[b]) /\ 1 \in Nat
    BY <1>2
  <1>4. PICK lists2 :
           /\ Layout(new, own, lists2, lost)
           /\ \A t \in Sockets : t # s => lists2[At(t)] = lists[At(t)]
           /\ lists2[At(s)] = IF st.rptr[b] + 1 < Len(st.buf[b]) THEN c ELSE Tail(c)
           /\ new.rptr = [st.rptr EXCEPT ![b] = st.rptr[b] + 1]
           /\ new.buf = st.buf
    BY <1>1, <1>2, <1>3, SkippedLayout
  <1> HIDE DEF new
  <1>5. ReadOne(st, new, s, lists, lists2)
    BY <1>2, <1>4 DEF ReadOne
  <1>6. new.rptr[b] = st.rptr[b] + 1 /\ \A e \in Blocks : e # b => new.rptr[e] = st.rptr[e]
    BY <1>1, <1>2, <1>4 DEF State
  <1>7. InBounds(new)
    <2>1. ASSUME NEW e \in Blocks PROVE new.rptr[e] <= Len(new.buf[e]) /\ Len(new.buf[e]) <= BufSize[e]
      BY <1>1, <1>3, <1>4, <1>6 DEF InBounds
    <2> QED
      BY <2>1 DEF InBounds
  <1>8. Unread(new, lists2)
    <2>1. List(st.next, c)
      BY <1>1, LayoutOfList
    <2>2. b \notin ToSet(Tail(c)) /\ ToSet(Tail(c)) \subseteq ToSet(c)
      <3> HIDE DEF c, b
      <3> QED
        BY <1>2, <2>1, TailOfList, ZenonT(60)
    <2>3. ASSUME NEW t \in Sockets, NEW e \in ToSet(lists2[At(t)])
          PROVE  new.rptr[e] < Len(new.buf[e])
      <3>1. e \in ToSet(lists[At(t)])
        BY <1>4, <2>2, <2>3
      <3>2. e \in Blocks /\ st.rptr[e] < Len(st.buf[e])
        BY <1>1, <3>1, Places, LayoutOfList DEF Unread
      <3>3. CASE e # b
        BY <1>4, <1>6, <3>2, <3>3
      <3>4. CASE e = b
        <4>1. t = s
          <5>1. t # s => At(t) # At(s) /\ At(t) \in Place
            BY <1>1, Places
          <5>2. t # s => ToSet(lists[At(t)]) \cap ToSet(lists[At(s)]) = {}
            BY <1>1, <5>1, LayoutOfList, ZenonT(60)
          <5> QED
            BY <1>2, <3>1, <3>4, <5>2
        <4>2. st.rptr[b] + 1 < Len(st.buf[b])
          BY <1>4, <2>2, <2>3, <3>4, <4>1
        <4> QED
          BY <1>4, <1>6, <3>4, <4>2
      <3> QED
        BY <3>3, <3>4
    <2> QED
      BY <2>3 DEF Unread
  <1>9. Holding(new, own, lists2, lost)
    BY <1>4, <1>7, <1>8 DEF Holding
  <1> QED
    BY <1>5, <1>9 DEF new

\* A sound state in which s has no blocks, and the others have theirs.
HoldsBut(new, own, lists, lost, s) ==
  \E lists2 : /\ Holding(new, own, lists2, lost)
              /\ \A t \in Sockets : lists2[At(t)] = IF t = s THEN <<>> ELSE lists[At(t)]

LEMMA FreedHolding ==
  ASSUME NEW st, NEW own, NEW lists, NEW lost, Holding(st, own, lists, lost), NEW s \in own
  PROVE  HoldsBut(Freed(st, s), own \ {s}, lists, lost, s) /\ SameBytes(Freed(st, s), st)
  <1> DEFINE new == Freed(st, s)
  <1>1. Layout(st, own, lists, lost) /\ InBounds(st) /\ Unread(st, lists)
    BY DEF Holding
  <1>2. PICK lists2 :
           /\ Layout(new, own \ {s}, lists2, lost)
           /\ SameBytes(new, st)
           /\ \A t \in Sockets : lists2[At(t)] = IF t = s THEN <<>> ELSE lists[At(t)]
    <2>1. Without(st, own, lists, lost, s, Freed(st, s))
      BY <1>1, FreedLayout
    <2> QED
      BY <2>1 DEF Without
  <1> HIDE DEF new
  <1>3. InBounds(new)
    BY <1>1, <1>2 DEF InBounds, SameBytes
  <1>4. Unread(new, lists2)
    <2>1. ToSet(<<>>) = {}
      BY EmptyList
    <2>2. ASSUME NEW t \in Sockets, NEW e \in ToSet(lists2[At(t)])
          PROVE  new.rptr[e] < Len(new.buf[e])
      <3>1. e \in ToSet(lists[At(t)])
        BY <1>2, <2>1, <2>2
      <3> QED
        BY <1>1, <1>2, <3>1 DEF Unread, SameBytes
    <2> QED
      BY <2>2 DEF Unread
  <1> QED
    BY <1>2, <1>3, <1>4 DEF Holding, HoldsBut, new

\* create after the blocks have gone: nothing is forgotten.
LEMMA CreatedHolding ==
  ASSUME NEW st, NEW own, NEW lists, NEW lost, Holding(st, own, lists, lost), NEW s \in Sockets
  PROVE  /\ HoldsBut(Created(st, s), own \cup {s}, lists, lost \cup ToSet(lists[At(s)]), s)
         /\ Created(st, s).rptr = st.rptr /\ Created(st, s).buf = st.buf
  <1> DEFINE new == Created(st, s)
             lists2 == [lists EXCEPT ![At(s)] = <<>>]
  <1>1. Layout(st, own, lists, lost) /\ InBounds(st) /\ Unread(st, lists) /\ DOMAIN lists = Place
    BY DEF Holding, Layout, Structure
  <1>2. Layout(new, own \cup {s}, lists2, lost \cup ToSet(lists[At(s)]))
    BY <1>1, CreatedLayout
  <1>3. new.rptr = st.rptr /\ new.buf = st.buf
    BY <1>1 DEF Layout, State, Created
  <1>4. \A t \in Sockets : lists2[At(t)] = IF t = s THEN <<>> ELSE lists[At(t)]
    BY <1>1, Places
  <1> HIDE DEF new, lists2
  <1>5. InBounds(new)
    BY <1>1, <1>3 DEF InBounds
  <1>6. Unread(new, lists2)
    <2>1. ToSet(<<>>) = {}
      BY EmptyList
    <2>2. ASSUME NEW t \in Sockets, NEW e \in ToSet(lists2[At(t)])
          PROVE  new.rptr[e] < Len(new.buf[e])
      <3>1. e \in ToSet(lists[At(t)])
        BY <1>4, <2>1, <2>2
      <3> QED
        BY <1>1, <1>3, <3>1 DEF Unread
    <2> QED
      BY <2>2 DEF Unread
  <1> QED
    BY <1>2, <1>3, <1>4, <1>5, <1>6 DEF Holding, HoldsBut, new

\* At the start.
LEMMA NoBuffersHolding ==
  Holding(NoBuffers, Sockets, [p \in Place |-> <<>>], {})
  <1> DEFINE st == NoBuffers
             lists == [p \in Place |-> <<>>]
  <1>1. <<>> \in Seq(Nat) /\ <<>> \in Seq(Blocks) /\ Len(<<>>) = 0
    OBVIOUS
  <1>2. st \in State
    BY <1>1 DEF NoBuffers, State
  <1>3. \A next : List(next, <<>>)
    BY EmptyList
  <1>4. ToSet(<<>>) = {} /\ FirstOf(<<>>) = Nil /\ LastOf(<<>>) = Nil
    BY EmptyList
  <1>5. /\ st.unborn = Blocks /\ st.next \in [Blocks -> Blocks \cup {Nil}]
        /\ \A s \in Sockets : st.head[s] = Nil /\ st.tail[s] = Nil
        /\ \A n \in Sizes : st.table[n] = Nil
        /\ \A b \in Blocks : st.rptr[b] = 0 /\ st.buf[b] = <<>>
    BY DEF NoBuffers
  <1>6. \A p \in Place : lists[p] = <<>>
    OBVIOUS
  <1>7. lists \in [Place -> Seq(Blocks)]
    BY <1>1
  <1> HIDE DEF lists, st
  <1>8. Structure(st.next, st.unborn, lists, {})
    BY <1>3, <1>4, <1>5, <1>6, <1>7, Places DEF Structure
  <1>9. Layout(st, Sockets, lists, {})
    BY <1>2, <1>4, <1>5, <1>6, <1>8, Places DEF Layout
  <1>10. InBounds(st) /\ Unread(st, lists)
    BY <1>1, <1>4, <1>5, <1>6, Places DEF InBounds, Unread
  <1> QED
    BY <1>9, <1>10 DEF Holding, st, lists
-----------------------------------------------------------------------------
(* Sequences of bytes, one behind the other *)

HIDE BlocksAssumption

\* h[i] are the bytes of p from the i-th sequence on.
Joining(p, h) ==
  /\ p \in Seq(Seq(Nat))
  /\ h \in [1..(Len(p) + 1) -> Seq(Nat)]
  /\ h[Len(p) + 1] = <<>>
  /\ \A i \in 1..Len(p) : h[i] = p[i] \o h[i + 1]

\* x are the bytes of all sequences of p.
Joined(p, x) == \E h : Joining(p, h) /\ h[1] = x

LEMMA AssocOfMany ==
  \A a, b, c \in Seq(Seq(Nat)) : (a \o b) \o c = a \o (b \o c)
  BY ConcatAssociative

LEMMA Assoc ==
  \A a, b, c \in Seq(Nat) : (a \o b) \o c = a \o (b \o c)
  BY ConcatAssociative

LEMMA JoinedType ==
  ASSUME NEW p, NEW x, Joined(p, x)
  PROVE  x \in Seq(Nat) /\ p \in Seq(Seq(Nat)) /\ Len(p) \in Nat
  <1>1. PICK h : Joining(p, h) /\ h[1] = x
    BY DEF Joined
  <1>2. p \in Seq(Seq(Nat)) /\ h \in [1..(Len(p) + 1) -> Seq(Nat)]
    BY <1>1 DEF Joining
  <1>3. Len(p) \in Nat
    BY <1>2, LenProperties
  <1>4. 1 \in 1..(Len(p) + 1)
    BY <1>3
  <1> QED
    BY <1>1, <1>2, <1>3, <1>4

LEMMA JoinedNone ==
  /\ Joined(<<>>, <<>>)
  /\ \A x : Joined(<<>>, x) => x = <<>>
  <1> DEFINE h == [i \in 1..1 |-> <<>>]
  <1>1. <<>> \in Seq(Nat) /\ <<>> \in Seq(Seq(Nat)) /\ Len(<<>>) + 1 = 1 /\ Len(<<>>) = 0
    OBVIOUS
  <1>2. Joining(<<>>, h) /\ h[1] = <<>>
    BY <1>1 DEF Joining
  <1> HIDE DEF h
  <1>3. Joined(<<>>, <<>>)
    BY <1>2 DEF Joined
  <1>4. ASSUME NEW x, Joined(<<>>, x) PROVE x = <<>>
    <2>1. PICK g : Joining(<<>>, g) /\ g[1] = x
      BY <1>4 DEF Joined
    <2> QED
      BY <1>1, <2>1 DEF Joining
  <1> QED
    BY <1>3, <1>4

\* The bytes of the first sequence come first.
LEMMA JoinedFirst ==
  ASSUME NEW p, NEW x, Joined(p, x), p # <<>>
  PROVE  /\ p[1] \in Seq(Nat)
         /\ \E z \in Seq(Nat) : x = p[1] \o z /\ Joined(Tail(p), z)
  <1>1. PICK h : Joining(p, h) /\ h[1] = x
    BY DEF Joined
  <1> DEFINE n == Len(p)
             q == Tail(p)
             g == [i \in 1..n |-> h[i + 1]]
  <1>2. p \in Seq(Seq(Nat)) /\ h \in [1..(n + 1) -> Seq(Nat)] /\ h[n + 1] = <<>>
    BY <1>1 DEF Joining
  <1>3. n \in Nat /\ n > 0
    BY <1>2, EmptySeq, LenProperties
  <1>4. /\ q \in Seq(Seq(Nat)) /\ Len(q) = n - 1
        /\ \A i \in 1..(n - 1) : q[i] = p[i + 1]
    BY <1>2, HeadTailProperties
  <1>5. p[1] \in Seq(Nat)
    <2>1. 1 \in 1..Len(p)
      BY <1>3
    <2> QED
      BY <1>2, <2>1, ElementOfSeq
  <1>6. \A i \in 1..n : h[i] = p[i] \o h[i + 1]
    BY <1>1 DEF Joining
  <1>7. Joining(q, g)
    <2>1. Len(q) + 1 = n
      BY <1>3, <1>4
    <2>2. g \in [1..n -> Seq(Nat)]
      BY <1>2, <1>3
    <2>3. g[n] = <<>>
      BY <1>2, <1>3
    <2>4. ASSUME NEW i \in 1..(n - 1) PROVE g[i] = q[i] \o g[i + 1]
      <3>1. i \in 1..n /\ i + 1 \in 1..n
        BY <1>3
      <3> QED
        BY <3>1, <1>4, <1>6
    <2> HIDE DEF g, q, n
    <2> QED
      BY <1>4, <2>1, <2>2, <2>3, <2>4 DEF Joining
  <1>8. g[1] = h[2] /\ h[1] = p[1] \o h[2] /\ h[2] \in Seq(Nat)
    <2>1. 1 \in 1..n /\ 2 \in 1..(n + 1) /\ 1 + 1 = 2
      BY <1>3
    <2>2. h[1] = p[1] \o h[1 + 1]
      BY <1>6, <2>1
    <2> HIDE DEF n
    <2> QED
      BY <1>2, <2>1, <2>2
  <1> HIDE DEF g
  <1> QED
    BY <1>1, <1>5, <1>7, <1>8 DEF Joined

\* Bytes in front of all others.
LEMMA JoinedCons ==
  ASSUME NEW p, NEW x, Joined(p, x), NEW y \in Seq(Nat),
         NEW q, q \in Seq(Seq(Nat)), q # <<>>, q[1] = y, Tail(q) = p
  PROVE  Joined(q, y \o x)
  <1>1. PICK h : Joining(p, h) /\ h[1] = x
    BY DEF Joined
  <1> DEFINE n == Len(p)
             g == [i \in 1..(n + 2) |-> IF i = 1 THEN y \o x ELSE h[i - 1]]
  <1>2. p \in Seq(Seq(Nat)) /\ h \in [1..(n + 1) -> Seq(Nat)] /\ h[n + 1] = <<>>
    BY <1>1 DEF Joining
  <1>3. n \in Nat
    BY <1>2, LenProperties
  <1>4. Len(q) = n + 1 /\ \A i \in 1..n : q[i + 1] = p[i]
    <2>1. Len(p) = Len(q) - 1 /\ \A i \in 1..Len(p) : p[i] = q[i + 1]
      BY HeadTailProperties
    <2>2. Len(q) \in Nat
      BY LenProperties
    <2> QED
      BY <2>1, <2>2
  <1>5. \A i \in 1..n : h[i] = p[i] \o h[i + 1]
    BY <1>1 DEF Joining
  <1>6. y \o x \in Seq(Nat) /\ x = h[1]
    BY <1>1, JoinedType, ConcatProperties
  <1>7. g \in [1..(n + 2) -> Seq(Nat)] /\ g[n + 2] = <<>> /\ g[1] = y \o x /\ g[2] = x
    <2>1. ASSUME NEW i \in 1..(n + 2), i # 1 PROVE i - 1 \in 1..(n + 1)
      BY <1>3, <2>1
    <2>2. (n + 2) - 1 = n + 1 /\ n + 2 # 1 /\ n + 2 \in 1..(n + 2) /\ 2 \in 1..(n + 2) /\ 1 \in 1..(n + 2)
      BY <1>3
    <2>3. 2 # 1 /\ 2 - 1 = 1
      OBVIOUS
    <2>4. g \in [1..(n + 2) -> Seq(Nat)]
      BY <1>2, <1>6, <2>1
    <2>5. g[n + 2] = <<>> /\ g[1] = y \o x
      BY <1>2, <2>2
    <2>6. g[2] = x
      BY <1>6, <2>2, <2>3
    <2> QED
      BY <2>4, <2>5, <2>6
  <1>8. ASSUME NEW i \in 1..(n + 1) PROVE g[i] = q[i] \o g[i + 1]
    <2>1. CASE i = 1
      <3>1. i + 1 = 2
        BY <2>1
      <3> HIDE DEF g
      <3> QED
        BY <1>7, <2>1, <3>1
    <2>2. CASE i # 1
      <3>1. i - 1 \in 1..n /\ i \in 1..(n + 2) /\ i + 1 \in 1..(n + 2) /\ i + 1 # 1
            /\ (i + 1) - 1 = i /\ (i - 1) + 1 = i
        BY <1>3, <2>2
      <3>2. g[i] = h[i - 1] /\ g[i + 1] = h[i]
        BY <2>2, <3>1
      <3>3. q[(i - 1) + 1] = p[i - 1] /\ h[i - 1] = p[i - 1] \o h[(i - 1) + 1]
        BY <1>4, <1>5, <3>1
      <3> QED
        BY <3>1, <3>2, <3>3
    <2> QED
      BY <2>1, <2>2
  <1> HIDE DEF g, n
  <1>9. Len(q) + 1 = n + 2
    BY <1>3, <1>4
  <1>10. Joining(q, g)
    BY <1>4, <1>7, <1>8, <1>9 DEF Joining
  <1> QED
    BY <1>7, <1>10 DEF Joined

\* Bytes behind all others.
LEMMA JoinedLonger ==
  ASSUME NEW p, NEW x, Joined(p, x), NEW y \in Seq(Nat), p # <<>>,
         NEW q, q \in Seq(Seq(Nat)), Len(q) = Len(p),
         \A i \in 1..Len(p) : q[i] = IF i = Len(p) THEN p[i] \o y ELSE p[i]
  PROVE  Joined(q, x \o y)
  <1>1. PICK h : Joining(p, h) /\ h[1] = x
    BY DEF Joined
  <1> DEFINE n == Len(p)
             g == [i \in 1..(n + 1) |-> IF i = n + 1 THEN <<>> ELSE h[i] \o y]
  <1>2. p \in Seq(Seq(Nat)) /\ h \in [1..(n + 1) -> Seq(Nat)] /\ h[n + 1] = <<>>
    BY <1>1 DEF Joining
  <1>3. n \in Nat /\ n > 0
    BY <1>2, EmptySeq, LenProperties
  <1>4. \A i \in 1..n : h[i] = p[i] \o h[i + 1] /\ p[i] \in Seq(Nat)
    BY <1>1, <1>2, ElementOfSeq DEF Joining
  <1>5. g \in [1..(n + 1) -> Seq(Nat)] /\ g[n + 1] = <<>> /\ g[1] = x \o y
    <2>1. \A i \in 1..(n + 1) : h[i] \o y \in Seq(Nat)
      BY <1>2, ConcatProperties
    <2>2. <<>> \in Seq(Nat) /\ n + 1 # 1 /\ 1 \in 1..(n + 1) /\ n + 1 \in 1..(n + 1)
      BY <1>3
    <2> HIDE DEF n
    <2> QED
      BY <1>1, <2>1, <2>2
  <1>6. ASSUME NEW i \in 1..n PROVE g[i] = q[i] \o g[i + 1]
    <2>1. i \in 1..(n + 1) /\ i + 1 \in 1..(n + 1) /\ i # n + 1 /\ (i + 1 = n + 1 <=> i = n)
      BY <1>3
    <2>2. g[i] = (p[i] \o h[i + 1]) \o y
      BY <1>4, <2>1
    <2>3. CASE i = n
      <3>1. q[i] = p[i] \o y /\ g[i + 1] = <<>> /\ h[i + 1] = <<>>
        BY <1>2, <2>1, <2>3
      <3>2. p[i] \o <<>> = p[i] /\ (p[i] \o y) \o <<>> = p[i] \o y
        BY <1>4, ConcatEmptySeq, ConcatProperties
      <3> QED
        BY <2>2, <3>1, <3>2
    <2>4. CASE i # n
      <3>1. q[i] = p[i] /\ g[i + 1] = h[i + 1] \o y
        BY <2>1, <2>4
      <3>2. h[i + 1] \in Seq(Nat) /\ p[i] \in Seq(Nat)
        BY <1>2, <1>4, <2>1
      <3>3. (p[i] \o h[i + 1]) \o y = p[i] \o (h[i + 1] \o y)
        BY <3>2, Assoc, Zenon
      <3> QED
        BY <2>2, <3>1, <3>3
    <2> QED
      BY <2>3, <2>4
  <1> HIDE DEF g
  <1>7. Joining(q, g)
    BY <1>5, <1>6 DEF Joining
  <1> QED
    BY <1>5, <1>7 DEF Joined

LEMMA JoinedAppend ==
  ASSUME NEW p, NEW x, Joined(p, x), NEW y \in Seq(Nat)
  PROVE  Joined(Append(p, y), x \o y)
  <1>1. PICK h : Joining(p, h) /\ h[1] = x
    BY DEF Joined
  <1> DEFINE n == Len(p)
             q == Append(p, y)
             g == [i \in 1..(n + 2) |-> IF i = n + 2 THEN <<>> ELSE h[i] \o y]
  <1>2. p \in Seq(Seq(Nat)) /\ h \in [1..(n + 1) -> Seq(Nat)] /\ h[n + 1] = <<>>
    BY <1>1 DEF Joining
  <1>3. n \in Nat
    BY <1>2, LenProperties
  <1>4. \A i \in 1..n : h[i] = p[i] \o h[i + 1] /\ p[i] \in Seq(Nat)
    BY <1>1, <1>2, ElementOfSeq DEF Joining
  <1>5. /\ q \in Seq(Seq(Nat)) /\ Len(q) = n + 1 /\ q[n + 1] = y
        /\ \A i \in 1..n : q[i] = p[i]
    BY <1>2, AppendProperties
  <1>6. g \in [1..(n + 2) -> Seq(Nat)] /\ g[n + 2] = <<>> /\ g[1] = x \o y
    <2>1. \A i \in 1..(n + 1) : h[i] \o y \in Seq(Nat)
      BY <1>2, ConcatProperties
    <2>2. <<>> \in Seq(Nat) /\ n + 2 # 1 /\ 1 \in 1..(n + 2) /\ n + 2 \in 1..(n + 2)
      BY <1>3
    <2>3. \A i \in 1..(n + 2) : i # n + 2 => i \in 1..(n + 1)
      BY <1>3
    <2> HIDE DEF n
    <2> QED
      BY <1>1, <2>1, <2>2, <2>3
  <1>7. ASSUME NEW i \in 1..(n + 1) PROVE g[i] = q[i] \o g[i + 1]
    <2>1. i \in 1..(n + 2) /\ i + 1 \in 1..(n + 2) /\ i # n + 2 /\ (i + 1 = n + 2 <=> i = n + 1)
      BY <1>3
    <2>2. g[i] = h[i] \o y
      BY <2>1
    <2>3. CASE i = n + 1
      <3>1. q[i] = y /\ g[i + 1] = <<>> /\ h[i] = <<>>
        BY <1>2, <1>5, <2>1, <2>3
      <3>2. <<>> \o y = y /\ y \o <<>> = y
        BY ConcatEmptySeq
      <3> QED
        BY <2>2, <3>1, <3>2
    <2>4. CASE i # n + 1
      <3>1. i \in 1..n /\ i + 1 \in 1..(n + 1)
        BY <1>3, <2>4
      <3>2. q[i] = p[i] /\ g[i + 1] = h[i + 1] \o y /\ h[i] = p[i] \o h[i + 1]
        BY <1>4, <1>5, <2>1, <2>4, <3>1
      <3>3. h[i + 1] \in Seq(Nat) /\ p[i] \in Seq(Nat)
        BY <1>2, <1>4, <3>1
      <3>4. (p[i] \o h[i + 1]) \o y = p[i] \o (h[i + 1] \o y)
        BY <3>3, Assoc, Zenon
      <3> QED
        BY <2>2, <3>2, <3>4
    <2> QED
      BY <2>3, <2>4
  <1> HIDE DEF g, q, n
  <1>8. Len(q) + 1 = n + 2
    BY <1>3, <1>5
  <1>9. Joining(q, g)
    BY <1>5, <1>6, <1>7, <1>8 DEF Joining
  <1> QED
    BY <1>6, <1>9 DEF Joined, q

\* What is left of a sequence behind its first m elements.
LEMMA SuffixOf ==
  ASSUME NEW u \in Seq(Nat), NEW m \in Nat, m <= Len(u)
  PROVE  /\ SubSeq(u, m + 1, Len(u)) \in Seq(Nat)
         /\ Len(SubSeq(u, m + 1, Len(u))) = Len(u) - m
         /\ \A i \in 1..(Len(u) - m) : SubSeq(u, m + 1, Len(u))[i] = u[m + i]
  <1> DEFINE z == SubSeq(u, m + 1, Len(u))
  <1>1. Len(u) \in Nat
    BY LenProperties
  <1>2. \A i \in (m + 1)..Len(u) : u[i] \in Nat
    <2>1. \A i \in (m + 1)..Len(u) : i \in 1..Len(u)
      BY <1>1
    <2> QED
      BY <2>1, ElementOfSeq
  <1>3. /\ m + 1 \in Int /\ Len(u) \in Int /\ Len(u) - (m + 1) + 1 = Len(u) - m
        /\ \A i \in 1..(Len(u) - m) : (m + 1) + i - 1 = m + i
    BY <1>1
  <1>4. /\ z \in Seq(Nat)
        /\ Len(z) = IF m + 1 <= Len(u) THEN Len(u) - (m + 1) + 1 ELSE 0
        /\ \A i \in 1..(Len(u) - (m + 1) + 1) : z[i] = u[(m + 1) + i - 1]
    BY <1>2, <1>3, SubSeqProperties
  <1>5. Len(z) = Len(u) - m
    BY <1>1, <1>4
  <1> QED
    BY <1>3, <1>4, <1>5

\* The shorter of two beginnings of a sequence begins the longer.
LEMMA JoinedCut ==
  ASSUME NEW a \in Seq(Nat), NEW b \in Seq(Nat), NEW c \in Seq(Nat), NEW d \in Seq(Nat),
         a \o b = c \o d, Len(a) <= Len(c)
  PROVE  \A i \in 1..Len(a) : c[i] = a[i]
  <1>1. Len(a) \in Nat /\ Len(b) \in Nat /\ Len(c) \in Nat /\ Len(d) \in Nat
    BY LenProperties
  <1>2. /\ Len(a \o b) = Len(a) + Len(b)
        /\ \A i \in 1..(Len(a) + Len(b)) : (a \o b)[i] = IF i <= Len(a) THEN a[i] ELSE b[i - Len(a)]
    BY ConcatProperties
  <1>3. /\ Len(c \o d) = Len(c) + Len(d)
        /\ \A i \in 1..(Len(c) + Len(d)) : (c \o d)[i] = IF i <= Len(c) THEN c[i] ELSE d[i - Len(c)]
    BY ConcatProperties
  <1>4. Len(a) + Len(b) = Len(c) + Len(d)
    BY <1>2, <1>3
  <1>5. ASSUME NEW i \in 1..Len(a) PROVE c[i] = a[i]
    <2>1. i \in 1..(Len(a) + Len(b)) /\ i \in 1..(Len(c) + Len(d)) /\ i <= Len(a) /\ i <= Len(c)
      BY <1>1
    <2> QED
      BY <1>2, <1>3, <2>1
  <1> QED
    BY <1>5

LEMMA CutBehind ==
  \A a, b, c, d \in Seq(Nat) :
    a \o b = c \o d /\ Len(a) <= Len(c) => SubSeq(c, Len(a) + 1, Len(c)) \o d = b
  <1> SUFFICES ASSUME NEW a \in Seq(Nat), NEW b \in Seq(Nat), NEW c \in Seq(Nat), NEW d \in Seq(Nat),
                      a \o b = c \o d, Len(a) <= Len(c)
               PROVE  SubSeq(c, Len(a) + 1, Len(c)) \o d = b
    OBVIOUS
  <1> DEFINE l == Len(a)
             e == SubSeq(c, l + 1, Len(c))
  <1>1. Len(a) \in Nat /\ Len(b) \in Nat /\ Len(c) \in Nat /\ Len(d) \in Nat
    BY LenProperties
  <1>2. /\ Len(a \o b) = Len(a) + Len(b)
        /\ \A i \in 1..(Len(a) + Len(b)) : (a \o b)[i] = IF i <= Len(a) THEN a[i] ELSE b[i - Len(a)]
    BY ConcatProperties
  <1>3. /\ Len(c \o d) = Len(c) + Len(d)
        /\ \A i \in 1..(Len(c) + Len(d)) : (c \o d)[i] = IF i <= Len(c) THEN c[i] ELSE d[i - Len(c)]
    BY ConcatProperties
  <1>4. Len(a) + Len(b) = Len(c) + Len(d)
    BY <1>2, <1>3
  <1>6. /\ e \in Seq(Nat) /\ Len(e) = Len(c) - l
        /\ \A i \in 1..(Len(c) - l) : e[i] = c[l + i]
    BY <1>1, SuffixOf
  <1> HIDE DEF e
  <1>7. /\ e \o d \in Seq(Nat) /\ Len(e \o d) = Len(e) + Len(d)
        /\ \A i \in 1..(Len(e) + Len(d)) : (e \o d)[i] = IF i <= Len(e) THEN e[i] ELSE d[i - Len(e)]
    BY <1>6, ConcatProperties
  <1>8. Len(e \o d) = Len(b)
    BY <1>1, <1>4, <1>6, <1>7
  <1>9. ASSUME NEW i \in 1..Len(b) PROVE (e \o d)[i] = b[i]
    <2>1. /\ l + i \in 1..(Len(a) + Len(b)) /\ l + i \in 1..(Len(c) + Len(d)) /\ ~ (l + i <= Len(a))
          /\ (l + i) - Len(a) = i /\ i \in 1..(Len(e) + Len(d)) /\ (l + i <= Len(c) <=> i <= Len(e))
          /\ (l + i) - Len(c) = i - Len(e)
      BY <1>1, <1>4, <1>6
    <2>2. b[i] = (a \o b)[l + i]
      BY <1>2, <2>1
    <2>3. b[i] = IF i <= Len(e) THEN c[l + i] ELSE d[i - Len(e)]
      BY <1>3, <2>1, <2>2
    <2>4. i <= Len(e) => c[l + i] = e[i]
      <3>1. i <= Len(e) => i \in 1..(Len(c) - l)
        BY <1>1, <1>6
      <3> QED
        BY <1>6, <3>1
    <2> QED
      BY <1>7, <2>1, <2>3, <2>4
  <1>10. e \o d = b
    BY <1>7, <1>8, <1>9, SeqEqual
  <1> QED
    BY <1>10 DEF e

-----------------------------------------------------------------------------
(* What the blocks of a socket have left to read *)

Piece(st, b) == SubSeq(st.buf[b], st.rptr[b] + 1, Len(st.buf[b]))
Pieces(st, c) == [i \in 1..Len(c) |-> Piece(st, c[i])]

\* x is what is left to read in the blocks c.
Reads(st, c, x) == Joined(Pieces(st, c), x)

LEMMA PieceOf ==
  ASSUME NEW st \in State, NEW b \in Blocks
  PROVE  /\ Piece(st, b) \in Seq(Nat)
         /\ st.buf[b] \in Seq(Nat) /\ st.rptr[b] \in Nat /\ Len(st.buf[b]) \in Nat
  <1>1. st.buf[b] \in Seq(Nat) /\ st.rptr[b] \in Nat
    BY DEF State
  <1> DEFINE u == st.buf[b]
             m == st.rptr[b]
  <1>2. Len(u) \in Nat
    BY <1>1, LenProperties
  <1> HIDE DEF u, m
  <1>3. \A i \in (m + 1)..Len(u) : i \in 1..Len(u)
    BY <1>1, <1>2 DEF m
  <1>4. \A i \in (m + 1)..Len(u) : u[i] \in Nat
    BY <1>1, <1>3, ElementOfSeq DEF u
  <1>5. m + 1 \in Int /\ Len(u) \in Int
    BY <1>1, <1>2 DEF m
  <1>6. SubSeq(u, m + 1, Len(u)) \in Seq(Nat)
    BY <1>4, <1>5, SubSeqProperties
  <1> QED
    BY <1>1, <1>2, <1>6 DEF Piece, u, m

LEMMA PiecesOf ==
  ASSUME NEW st \in State, NEW c \in Seq(Blocks)
  PROVE  /\ Pieces(st, c) \in Seq(Seq(Nat)) /\ Len(Pieces(st, c)) = Len(c)
         /\ \A i \in 1..Len(c) : Pieces(st, c)[i] = Piece(st, c[i])
         /\ Pieces(st, c) = <<>> <=> c = <<>>
  <1>1. Len(c) \in Nat /\ \A i \in 1..Len(c) : c[i] \in Blocks
    BY LenProperties, ElementOfSeq
  <1>2. \A i \in 1..Len(c) : Piece(st, c[i]) \in Seq(Nat)
    BY <1>1, PieceOf
  <1>3. Pieces(st, c) \in [1..Len(c) -> Seq(Nat)]
    BY <1>2 DEF Pieces
  <1>4. Pieces(st, c) \in Seq(Seq(Nat)) /\ Len(Pieces(st, c)) = Len(c)
    BY <1>1, <1>3
  <1>5. \A i \in 1..Len(c) : Pieces(st, c)[i] = Piece(st, c[i])
    BY DEF Pieces
  <1>6. Pieces(st, c) = <<>> <=> Len(Pieces(st, c)) = 0
    BY <1>4, EmptySeq
  <1>7. c = <<>> <=> Len(c) = 0
    BY EmptySeq
  <1> QED
    BY <1>4, <1>5, <1>6, <1>7

\* Blocks that are not touched read the same.
LEMMA PiecesSame ==
  ASSUME NEW st, NEW new, NEW c \in Seq(Blocks),
         \A b \in ToSet(c) : new.rptr[b] = st.rptr[b] /\ new.buf[b] = st.buf[b]
  PROVE  Pieces(new, c) = Pieces(st, c)
  <1>1. \A i \in 1..Len(c) : c[i] \in ToSet(c)
    BY Members
  <1>2. \A i \in 1..Len(c) : Piece(new, c[i]) = Piece(st, c[i])
    BY <1>1 DEF Piece
  <1> QED
    BY <1>2 DEF Pieces

LEMMA NoBlocksRead ==
  ASSUME NEW st
  PROVE  Reads(st, <<>>, <<>>) /\ \A x : Reads(st, <<>>, x) => x = <<>>
  <1>1. Pieces(st, <<>>) = <<>>
    BY DEF Pieces
  <1> QED
    BY <1>1, JoinedNone DEF Reads

\* What the blocks of a socket held is held by its blocks still, the bytes
\* stored behind it; the other sockets do not notice.
LEMMA StoredReads ==
  ASSUME NEW st, NEW own, NEW lists, NEW lost, Holding(st, own, lists, lost), NEW s \in Sockets,
         NEW new, NEW lists2, NEW lost2, NEW own2, Holding(new, own2, lists2, lost2),
         NEW bytes \in Seq(Nat),
         StoredIn(st, new, s, bytes, lists, lists2), NEW x, Reads(st, lists[At(s)], x)
  PROVE  Reads(new, lists2[At(s)], x \o bytes)
  <1> DEFINE c == lists[At(s)]
             d == lists2[At(s)]
             p == Pieces(st, c)
             q == Pieces(new, d)
  <1>1. /\ st \in State /\ new \in State /\ At(s) \in Place
        /\ InBounds(st)
        /\ Layout(st, own, lists, lost) /\ Layout(new, own2, lists2, lost2)
    BY Places DEF Holding, Layout
  <1>2. List(st.next, c) /\ c \in Seq(Blocks) /\ d \in Seq(Blocks)
    BY <1>1, LayoutOfList
  <1> HIDE DEF c, d
  <1>3. /\ p \in Seq(Seq(Nat)) /\ Len(p) = Len(c) /\ \A i \in 1..Len(c) : p[i] = Piece(st, c[i])
        /\ p = <<>> <=> c = <<>>
    BY <1>1, <1>2, PiecesOf
  <1>4. q \in Seq(Seq(Nat)) /\ Len(q) = Len(d) /\ \A i \in 1..Len(d) : q[i] = Piece(new, d[i])
    BY <1>1, <1>2, PiecesOf
  <1>5. Joined(p, x)
    BY DEF Reads, c
  <1>6. /\ \A i \in 1..Len(c) : c[i] \in Blocks /\ c[i] \in ToSet(c)
        /\ Len(c) \in Nat
    BY <1>2, Members
  <1> HIDE DEF p, q
  <1>7. CASE c # <<>> /\ d = c /\ AppendsTo(st, new, LastOf(c), bytes)
    <2> DEFINE n == Len(c)
               b == c[n]
    <2>1. n \in 1..n /\ LastOf(c) = b /\ b \in Blocks
      BY <1>2, <1>6, <1>7, Members DEF LastOf
    <2>2. new.rptr = st.rptr /\ new.buf = [st.buf EXCEPT ![b] = st.buf[b] \o bytes]
      BY <1>7, <2>1 DEF AppendsTo
    <2>3. /\ new.rptr[b] = st.rptr[b] /\ new.buf[b] = st.buf[b] \o bytes
          /\ \A e \in Blocks : e # b => new.buf[e] = st.buf[e]
      BY <1>1, <2>1, <2>2 DEF State
    <2>4. Piece(new, b) = Piece(st, b) \o bytes
      <3> DEFINE u == st.buf[b]
                 m == st.rptr[b]
                 w == u \o bytes
      <3>1. /\ u \in Seq(Nat) /\ m \in Nat /\ Len(u) \in Nat /\ Len(bytes) \in Nat /\ m <= Len(u)
        BY <1>1, <2>1, PieceOf, LenProperties DEF InBounds
      <3> HIDE DEF u, m, b, n
      <3>2. /\ w \in Seq(Nat) /\ Len(w) = Len(u) + Len(bytes)
            /\ \A i \in 1..(Len(u) + Len(bytes)) : w[i] = IF i <= Len(u) THEN u[i] ELSE bytes[i - Len(u)]
        BY <3>1, ConcatProperties
      <3> DEFINE a == SubSeq(u, m + 1, Len(u))
                 z == SubSeq(w, m + 1, Len(w))
      <3>4. /\ a \in Seq(Nat) /\ Len(a) = Len(u) - m
            /\ \A i \in 1..(Len(u) - m) : a[i] = u[m + i]
        BY <3>1, SuffixOf
      <3>5. /\ z \in Seq(Nat) /\ Len(z) = Len(w) - m
            /\ \A i \in 1..(Len(w) - m) : z[i] = w[m + i]
        <4>1. m <= Len(w)
          BY <3>1, <3>2
        <4> HIDE DEF w
        <4> QED
          BY <3>1, <3>2, <4>1, SuffixOf
      <3> HIDE DEF a, z, w
      <3>6. /\ a \o bytes \in Seq(Nat) /\ Len(a \o bytes) = Len(a) + Len(bytes)
            /\ \A i \in 1..(Len(a) + Len(bytes)) :
                 (a \o bytes)[i] = IF i <= Len(a) THEN a[i] ELSE bytes[i - Len(a)]
        BY <3>4, ConcatProperties
      <3>7. Len(z) = Len(a \o bytes)
        BY <3>1, <3>2, <3>4, <3>5, <3>6
      <3>8. ASSUME NEW i \in 1..Len(z) PROVE z[i] = (a \o bytes)[i]
        <4>1. /\ i \in 1..(Len(w) - m) /\ m + i \in 1..(Len(u) + Len(bytes)) /\ i \in 1..(Len(a) + Len(bytes))
              /\ (i <= Len(a) <=> m + i <= Len(u)) /\ (m + i) - Len(u) = i - Len(a)
              /\ i <= Len(a) => i \in 1..(Len(u) - m)
          BY <3>1, <3>2, <3>4, <3>5
        <4>2. z[i] = IF m + i <= Len(u) THEN u[m + i] ELSE bytes[(m + i) - Len(u)]
          BY <3>2, <3>5, <4>1
        <4>3. (a \o bytes)[i] = IF i <= Len(a) THEN u[m + i] ELSE bytes[i - Len(a)]
          BY <3>4, <3>6, <4>1
        <4> QED
          BY <4>1, <4>2, <4>3
      <3>9. z = a \o bytes
        BY <3>5, <3>6, <3>7, <3>8, SeqEqual
      <3>10. Piece(st, b) = a /\ Piece(new, b) = z
        BY <2>3 DEF Piece, a, z, w, u, m
      <3> QED
        BY <3>9, <3>10
    <2>5. ASSUME NEW i \in 1..n, i # n PROVE Piece(new, c[i]) = Piece(st, c[i])
      <3>1. c[i] # b /\ c[i] \in Blocks
        BY <1>2, <1>6, <2>1, <2>5 DEF List
      <3> QED
        BY <2>2, <2>3, <3>1 DEF Piece
    <2>6. \A i \in 1..Len(p) : q[i] = IF i = Len(p) THEN p[i] \o bytes ELSE p[i]
      BY <1>3, <1>4, <1>7, <2>4, <2>5
    <2>7. Joined(q, x \o bytes)
      BY <1>3, <1>4, <1>5, <1>7, <2>6, JoinedLonger
    <2> QED
      BY <2>7 DEF Reads, q, d
  <1>8. ASSUME NEW b \in Blocks, \A t \in Sockets : b \notin ToSet(lists[At(t)]),
               d = Append(c, b), Fills(st, new, b, bytes)
        PROVE  Joined(q, x \o bytes)
    <2> DEFINE n == Len(c)
    <2>1. b \notin ToSet(c)
      BY <1>8 DEF c
    <2>2. /\ new.rptr[b] = 0 /\ new.buf[b] = bytes
          /\ \A e \in Blocks : e # b => new.rptr[e] = st.rptr[e] /\ new.buf[e] = st.buf[e]
      BY <1>1, <1>8 DEF State, Fills
    <2>3. Len(d) = n + 1 /\ d[n + 1] = b /\ \A i \in 1..n : d[i] = c[i]
      BY <1>2, <1>8, AppendProperties
    <2>4. Piece(new, b) = bytes
      <3>1. 0 + 1 = 1
        OBVIOUS
      <3> QED
        BY <2>2, <3>1, SubSeqFull DEF Piece
    <2>5. ASSUME NEW i \in 1..n PROVE Piece(new, c[i]) = Piece(st, c[i])
      <3>1. c[i] # b /\ c[i] \in Blocks
        BY <1>6, <2>1
      <3> QED
        BY <2>2, <3>1 DEF Piece
    <2>6. q = Append(p, bytes)
      <3> DEFINE r == Append(p, bytes)
      <3>1. /\ r \in Seq(Seq(Nat)) /\ Len(r) = n + 1 /\ r[n + 1] = bytes
            /\ \A i \in 1..n : r[i] = p[i]
        BY <1>3, AppendProperties
      <3> HIDE DEF r
      <3>2. ASSUME NEW i \in 1..(n + 1) PROVE q[i] = r[i]
        <4>1. CASE i = n + 1
          BY <1>4, <2>3, <2>4, <3>1, <4>1
        <4>2. CASE i # n + 1
          <5>1. i \in 1..n
            BY <1>6, <4>2
          <5> QED
            BY <1>3, <1>4, <2>3, <2>5, <3>1, <5>1
        <4> QED
          BY <4>1, <4>2
      <3>3. Len(q) = n + 1
        BY <1>4, <2>3
      <3> QED
        BY <1>4, <3>1, <3>2, <3>3, SeqEqual DEF r
    <2> QED
      BY <1>5, <2>6, JoinedAppend
  <1> QED
    BY <1>7, <1>8 DEF StoredIn, Reads, c, d, q

LEMMA StoredReadsElsewhere ==
  ASSUME NEW st, NEW own, NEW lists, NEW lost, Holding(st, own, lists, lost), NEW s \in Sockets,
         NEW new, NEW lists2, NEW bytes \in Seq(Nat),
         StoredIn(st, new, s, bytes, lists, lists2), NEW t \in Sockets, t # s
  PROVE  lists2[At(t)] = lists[At(t)] /\ Pieces(new, lists[At(t)]) = Pieces(st, lists[At(t)])
  <1>1. /\ st \in State /\ At(s) \in Place /\ At(t) \in Place /\ At(s) # At(t)
        /\ Layout(st, own, lists, lost)
    BY Places DEF Holding, Layout
  <1>2. /\ lists[At(s)] \in Seq(Blocks) /\ lists[At(t)] \in Seq(Blocks)
        /\ ToSet(lists[At(t)]) \cap ToSet(lists[At(s)]) = {}
        /\ ToSet(lists[At(t)]) \subseteq Blocks
    BY <1>1, LayoutOfList, ZenonT(60)
  <1>3. \E b \in Blocks : b \notin ToSet(lists[At(t)]) /\ TouchesOnly(st, new, b)
    <2>1. CASE lists[At(s)] # <<>> /\ AppendsTo(st, new, LastOf(lists[At(s)]), bytes)
      <3>1. LastOf(lists[At(s)]) \in ToSet(lists[At(s)]) /\ LastOf(lists[At(s)]) \in Blocks
        BY <1>2, <2>1, Members DEF LastOf
      <3>2. TouchesOnly(st, new, LastOf(lists[At(s)]))
        BY <1>1, <2>1, <3>1 DEF TouchesOnly, AppendsTo, State
      <3> QED
        BY <1>2, <3>1, <3>2
    <2>2. ASSUME NEW b \in Blocks, b \notin ToSet(lists[At(t)]), Fills(st, new, b, bytes)
          PROVE  TouchesOnly(st, new, b)
      BY <1>1, <2>2 DEF TouchesOnly, Fills, State
    <2> QED
      BY <2>1, <2>2 DEF StoredIn
  <1>4. \A e \in ToSet(lists[At(t)]) : new.rptr[e] = st.rptr[e] /\ new.buf[e] = st.buf[e]
    BY <1>2, <1>3 DEF TouchesOnly
  <1> QED
    BY <1>2, <1>4, PiecesSame DEF StoredIn

\* x is v, and then what is left to read in the blocks c.
BeginsWith(x, v, st, c) ==
  v \in Nat /\ \E z : z \in Seq(Nat) /\ x = <<v>> \o z /\ Reads(st, c, z)

\* One byte read is the first one that was left.
LEMMA ReadOneReads ==
  ASSUME NEW st, NEW own, NEW lists, NEW lost, Holding(st, own, lists, lost), NEW s \in own,
         NEW new, NEW lists2, Holding(new, own, lists2, lost), ReadOne(st, new, s, lists, lists2),
         NEW x, Reads(st, lists[At(s)], x)
  PROVE  BeginsWith(x, st.buf[st.head[s]][st.rptr[st.head[s]] + 1], new, lists2[At(s)])
  <1> DEFINE c == lists[At(s)]
             d == lists2[At(s)]
             b == st.head[s]
             u == st.buf[b]
             m == st.rptr[b]
             v == u[m + 1]
             p == Pieces(st, c)
             q == Pieces(new, d)
             rest == SubSeq(u, m + 2, Len(u))
  <1>1. /\ st \in State /\ new \in State /\ At(s) \in Place /\ s \in Sockets
        /\ Layout(st, own, lists, lost) /\ Layout(new, own, lists2, lost)
    BY Places DEF Holding, Layout
  <1>2. List(st.next, c) /\ c \in Seq(Blocks) /\ d \in Seq(Blocks)
    BY <1>1, LayoutOfList
  <1>3. /\ c # <<>> /\ new.buf = st.buf
        /\ d = IF m + 1 < Len(u) THEN c ELSE Tail(c)
        /\ new.rptr = [st.rptr EXCEPT ![b] = m + 1]
    BY DEF ReadOne
  <1>4. b \in Blocks /\ b = c[1] /\ m < Len(u) /\ m \in Nat /\ Len(u) \in Nat /\ u \in Seq(Nat)
    BY <1>1, <1>3, DatalenOfList, PieceOf
  <1>5. /\ new.rptr[b] = m + 1
        /\ \A e \in Blocks : e # b => new.rptr[e] = st.rptr[e]
    BY <1>1, <1>3, <1>4 DEF State
  <1> HIDE DEF b, u, m, c, d
  <1>6. v \in Nat /\ Piece(st, b) = <<v>> \o rest /\ rest \in Seq(Nat) /\ Piece(new, b) = rest
    <2>1. m + 1 \in 1..Len(u) /\ Len(u) \in (m + 1)..Len(u) /\ (m + 1) + 1 = m + 2
      BY <1>4
    <2>2. SubSeq(u, m + 1, Len(u)) = <<u[m + 1]>> \o SubSeq(u, (m + 1) + 1, Len(u))
      BY <1>4, <2>1, SubSeqRecursiveFirst
    <2>3. v \in Nat
      BY <1>4, <2>1, ElementOfSeq
    <2>4. Piece(st, b) = SubSeq(u, m + 1, Len(u)) /\ Piece(new, b) = SubSeq(u, (m + 1) + 1, Len(u))
      BY <1>3, <1>5 DEF Piece, u, m
    <2>5. Piece(new, b) \in Seq(Nat)
      BY <1>1, <1>4, PieceOf
    <2> QED
      BY <2>1, <2>2, <2>3, <2>4, <2>5
  <1>7. /\ p \in Seq(Seq(Nat)) /\ Len(p) = Len(c) /\ \A i \in 1..Len(c) : p[i] = Piece(st, c[i])
        /\ p # <<>>
    BY <1>1, <1>2, <1>3, PiecesOf
  <1>8. /\ q \in Seq(Seq(Nat)) /\ Len(q) = Len(d) /\ \A i \in 1..Len(d) : q[i] = Piece(new, d[i])
        /\ q = <<>> <=> d = <<>>
    BY <1>1, <1>2, PiecesOf
  <1>9. Len(c) \in Nat /\ 1 \in 1..Len(c) /\ \A i \in 1..Len(c) : c[i] \in Blocks
    BY <1>2, <1>3, Members
  <1>10. ASSUME NEW i \in 1..Len(c), i # 1 PROVE Piece(new, c[i]) = Piece(st, c[i])
    <2>1. c[i] # b /\ c[i] \in Blocks
      BY <1>2, <1>4, <1>9, <1>10 DEF List
    <2> QED
      BY <1>3, <1>5, <2>1 DEF Piece
  <1> HIDE DEF p, q, v, rest
  <1>11. PICK z \in Seq(Nat) : x = p[1] \o z /\ Joined(Tail(p), z)
    <2>1. Joined(p, x)
      BY DEF Reads, p, c
    <2> QED
      BY <1>7, <2>1, JoinedFirst
  <1>12. p[1] = <<v>> \o rest
    BY <1>4, <1>6, <1>7, <1>9
  <1>13. /\ Tail(p) \in Seq(Seq(Nat)) /\ Len(Tail(p)) = Len(c) - 1
         /\ \A i \in 1..(Len(c) - 1) : Tail(p)[i] = p[i + 1]
    BY <1>7, HeadTailProperties
  <1>14. ASSUME NEW i \in 1..(Len(c) - 1) PROVE Tail(p)[i] = Piece(new, c[i + 1])
    <2>1. i + 1 \in 1..Len(c) /\ i + 1 # 1
      BY <1>9
    <2> QED
      BY <2>1, <1>7, <1>10, <1>13
  <1>15. CASE m + 1 < Len(u)
    <2>1. d = c /\ q # <<>>
      BY <1>3, <1>8, <1>15
    <2>2. Tail(q) = Tail(p)
      <3>1. /\ Tail(q) \in Seq(Seq(Nat)) /\ Len(Tail(q)) = Len(c) - 1
            /\ \A i \in 1..(Len(c) - 1) : Tail(q)[i] = q[i + 1]
        BY <1>8, <2>1, HeadTailProperties
      <3>2. ASSUME NEW i \in 1..(Len(c) - 1) PROVE Tail(q)[i] = Tail(p)[i]
        <4>1. i + 1 \in 1..Len(c)
          BY <1>9
        <4> QED
          BY <1>8, <1>14, <2>1, <3>1, <4>1
      <3> QED
        BY <1>13, <3>1, <3>2, SeqEqual
    <2>3. q[1] = rest
      BY <1>4, <1>6, <1>8, <1>9, <2>1
    <2>4. Joined(q, rest \o z)
      BY <1>6, <1>8, <1>11, <2>1, <2>2, <2>3, JoinedCons
    <2>5. <<v>> \in Seq(Nat)
      BY <1>6
    <2>6. x = <<v>> \o (rest \o z) /\ rest \o z \in Seq(Nat)
      <3>1. rest \o z \in Seq(Nat)
        BY <1>6, <1>11, ConcatProperties
      <3>2. (<<v>> \o rest) \o z = <<v>> \o (rest \o z)
        BY <1>6, <1>11, <2>5, Assoc, Zenon
      <3> QED
        BY <1>11, <1>12, <3>1, <3>2
    <2> QED
      BY <1>6, <2>4, <2>6 DEF BeginsWith, Reads, q, d, v, u, m, b
  <1>16. CASE ~(m + 1 < Len(u))
    <2>1. d = Tail(c)
      BY <1>3, <1>16
    <2>2. /\ Len(d) = Len(c) - 1 /\ \A i \in 1..(Len(c) - 1) : d[i] = c[i + 1]
      BY <1>2, <1>3, <2>1, HeadTailProperties
    <2>3. q = Tail(p)
      <3>1. \A i \in 1..(Len(c) - 1) : q[i] = Tail(p)[i]
        BY <1>8, <1>14, <2>2
      <3>2. Len(q) = Len(c) - 1
        BY <1>8, <2>2
      <3> QED
        BY <1>8, <1>13, <3>1, <3>2, SeqEqual
    <2>4. rest = <<>>
      <3>1. m + 2 \in Int /\ Len(u) \in Int /\ Len(u) < m + 2
        BY <1>4, <1>16
      <3> QED
        BY <3>1, SubSeqEmpty DEF rest
    <2>5. <<v>> \in Seq(Nat)
      BY <1>6
    <2>6. x = <<v>> \o z
      BY <1>11, <1>12, <2>4, <2>5, ConcatEmptySeq
    <2> QED
      BY <1>6, <1>11, <2>3, <2>6 DEF BeginsWith, Reads, q, d, v, u, m, b
  <1> QED
    BY <1>15, <1>16

LEMMA ReadOneReadsElsewhere ==
  ASSUME NEW st, NEW own, NEW lists, NEW lost, Holding(st, own, lists, lost), NEW s \in own,
         NEW new, NEW lists2, ReadOne(st, new, s, lists, lists2), NEW t \in Sockets, t # s
  PROVE  lists2[At(t)] = lists[At(t)] /\ Pieces(new, lists[At(t)]) = Pieces(st, lists[At(t)])
  <1>1. /\ st \in State /\ s \in Sockets /\ At(s) \in Place /\ At(t) \in Place /\ At(s) # At(t)
        /\ Layout(st, own, lists, lost) /\ lists[At(s)] # <<>>
    BY Places DEF Holding, Layout, ReadOne
  <1>2. /\ lists[At(t)] \in Seq(Blocks)
        /\ ToSet(lists[At(t)]) \cap ToSet(lists[At(s)]) = {}
        /\ ToSet(lists[At(t)]) \subseteq Blocks
    BY <1>1, LayoutOfList
  <1>3. st.head[s] \in ToSet(lists[At(s)]) /\ st.head[s] \in Blocks
    BY <1>1, DatalenOfList
  <1>4. \A e \in ToSet(lists[At(t)]) : new.rptr[e] = st.rptr[e] /\ new.buf[e] = st.buf[e]
    BY <1>1, <1>2, <1>3 DEF ReadOne, State
  <1>5. Pieces(new, lists[At(t)]) = Pieces(st, lists[At(t)])
    <2> DEFINE c == lists[At(t)]
    <2> HIDE DEF c
    <2> QED
      BY <1>2, <1>4, PiecesSame DEF c
  <1> QED
    BY <1>5 DEF ReadOne
=============================================================================
