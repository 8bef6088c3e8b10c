----------------------------- MODULE DealProofs -----------------------------
(***************************************************************************)
(* Proofs about Deal, for every deck, every number of players and every    *)
(* size of a hand; then, where the deck is one of cards and a hand has     *)
(* five, about what the hands are worth.                                   *)
(***************************************************************************)
EXTENDS DealtHands, Recursion, SequenceTheorems, TLAPS

\* The index in the old list of the i-th card of the shorter one.
From(list, idx, i) == IF i = idx THEN Len(list) ELSE i

\* What Without does: every card of the shorter list is one of the old list at
\* another index than the drawn one, and none but the drawn one is missing.
LEMMA WithoutList ==
  ASSUME NEW list \in Seq(Nat), NEW idx \in DOMAIN list
  PROVE  /\ Without(list, idx) \in Seq(Nat)
         /\ Len(Without(list, idx)) = Len(list) - 1
         /\ \A i \in DOMAIN Without(list, idx) :
              /\ From(list, idx, i) \in DOMAIN list \ {idx}
              /\ Without(list, idx)[i] = list[From(list, idx, i)]
         /\ \A k \in DOMAIN list \ {idx} :
              \E i \in DOMAIN Without(list, idx) : From(list, idx, i) = k
<1> DEFINE rest == Without(list, idx)
           n == Len(list)
<1>1. n \in Nat /\ DOMAIN list = 1..n /\ idx \in 1..n
  OBVIOUS
<1>2. rest = [i \in 1..(n - 1) |-> list[From(list, idx, i)]]
  BY <1>1 DEF Without, From
<1>3. \A i \in 1..(n - 1) : From(list, idx, i) \in 1..n /\ From(list, idx, i) # idx
  BY <1>1 DEF From
<1>4. \A i \in 1..(n - 1) : list[From(list, idx, i)] \in Nat
  BY <1>1, <1>3
<1> HIDE DEF rest
<1>5. rest \in Seq(Nat) /\ Len(rest) = n - 1 /\ DOMAIN rest = 1..(n - 1)
  BY <1>1, <1>2, <1>4
<1>6. ASSUME NEW k \in (1..n) \ {idx}
      PROVE  \E i \in 1..(n - 1) : From(list, idx, i) = k
  <2>1. CASE k = n
    <3>1. idx \in 1..(n - 1) /\ From(list, idx, idx) = k
      BY <2>1, <1>1 DEF From
    <3>2. QED
      BY <3>1
  <2>2. CASE k # n
    <3>1. k \in 1..(n - 1)
      <4> HIDE DEF n
      <4>1. QED
        BY <2>2, <1>1
    <3>2. From(list, idx, k) = k
      BY DEF From
    <3>3. QED
      BY <3>1, <3>2
  <2>3. QED
    BY <2>1, <2>2
<1>7. \A i \in DOMAIN rest : rest[i] = list[From(list, idx, i)]
  BY <1>2, <1>5
<1>8. QED
  BY <1>1, <1>3, <1>5, <1>6, <1>7 DEF rest

\* What one draw does to the hands: the player who draws gets the card last.
LEMMA DrawnHand ==
  ASSUME TypeOK, NEW p \in Players, NEW idx \in DOMAIN card_list, Draw(p, idx)
  PROVE  /\ cards'[p] = Append(cards[p], card_list[idx])
         /\ cards'[p] \in Seq(Nat)
         /\ Len(cards'[p]) = Len(cards[p]) + 1
         /\ \A i \in DOMAIN cards[p] : cards'[p][i] = cards[p][i]
         /\ cards'[p][Len(cards[p]) + 1] = card_list[idx]
         /\ \A q \in Players \ {p} : cards'[q] = cards[q]
         /\ cards' \in [Players -> Seq(Nat)]
<1>1. /\ cards \in [Players -> Seq(Nat)] /\ card_list \in Seq(Nat)
      /\ cards' = [cards EXCEPT ![p] = Append(@, card_list[idx])]
  BY DEF TypeOK, Draw
<1>2. card_list[idx] \in Nat /\ cards[p] \in Seq(Nat)
  BY <1>1
<1>3. cards'[p] = Append(cards[p], card_list[idx])
  BY <1>1
<1>4. QED
  BY <1>1, <1>2, <1>3

\* The list and the hands are sequences of cards.
THEOREM DealTypeCorrect == Spec => []TypeOK
<1>1. Init => TypeOK
  <2> SUFFICES ASSUME Init PROVE TypeOK
    OBVIOUS
  <2>1. card_list \in Seq(Nat) /\ cards \in [Players -> Seq(Nat)]
    BY DeckAssumption DEF Init
  <2>2. \A p \in Players : Len(cards[p]) <= HandSize
    BY DeckAssumption DEF Init
  <2>3. QED
    BY <2>1, <2>2 DEF TypeOK
<1>2. ASSUME TypeOK, [Next]_vars PROVE TypeOK'
  <2>1. CASE UNCHANGED vars
    BY <1>2, <2>1 DEF TypeOK, vars
  <2>2. ASSUME NEW p \in Players, NEW idx \in DOMAIN card_list, Draw(p, idx)
        PROVE  TypeOK'
    <3>1. card_list' \in Seq(Nat) /\ cards' \in [Players -> Seq(Nat)]
      BY <1>2, <2>2, DrawnHand, WithoutList DEF TypeOK, Draw
    <3>2. Len(cards[p]) \in Nat /\ Len(cards[p]) < HandSize /\ HandSize \in Nat
      BY <1>2, <2>2, DeckAssumption DEF TypeOK, Draw
    <3>3. /\ Len(cards'[p]) = Len(cards[p]) + 1
          /\ \A q \in Players \ {p} : cards'[q] = cards[q]
      BY <1>2, <2>2, DrawnHand
    <3>4. Len(cards'[p]) <= HandSize
      BY <3>2, <3>3
    <3>5. \A q \in Players : Len(cards'[q]) <= HandSize
      BY <1>2, <3>3, <3>4 DEF TypeOK
    <3>6. QED
      BY <3>1, <3>5 DEF TypeOK
  <2>3. QED
    BY <1>2, <2>1, <2>2 DEF Next
<1>3. QED
  BY <1>1, <1>2, PTL DEF Spec

\* A draw keeps every card in one place.
LEMMA DrawKeepsOneCopy ==
  ASSUME TypeOK, OneCopy, NEW p \in Players, NEW idx \in DOMAIN card_list,
         Draw(p, idx)
  PROVE  OneCopy'
<1> DEFINE from(i) == From(card_list, idx, i)
           drawn == card_list[idx]
<1>1. /\ card_list \in Seq(Nat) /\ card_list' = Without(card_list, idx)
      /\ cards \in [Players -> Seq(Nat)]
  BY DEF TypeOK, Draw
<1>2. \A i \in DOMAIN card_list' :
        from(i) \in DOMAIN card_list \ {idx} /\ card_list'[i] = card_list[from(i)]
  BY <1>1, WithoutList
<1>3. \A i, j \in DOMAIN card_list' : from(i) = from(j) => i = j
  <2>1. /\ card_list' \in Seq(Nat) /\ Len(card_list') = Len(card_list) - 1
        /\ Len(card_list) \in Nat
    BY <1>1, WithoutList
  <2>2. DOMAIN card_list' = 1..(Len(card_list) - 1)
    BY <2>1
  <2>3. QED
    BY <2>1, <2>2 DEF From
<1> HIDE DEF from
<1>4. \A i \in DOMAIN card_list' : card_list'[i] # drawn
  BY <1>2 DEF OneCopy
<1>5. \A q \in Players : \A i \in DOMAIN cards'[q] :
        \/ i \in DOMAIN cards[q] /\ cards'[q][i] = cards[q][i]
        \/ q = p /\ i = Len(cards[p]) + 1 /\ cards'[q][i] = drawn
  <2>1. ASSUME NEW q \in Players \ {p} PROVE cards'[q] = cards[q]
    BY DrawnHand
  <2>2. ASSUME NEW i \in DOMAIN cards'[p]
        PROVE  \/ i \in DOMAIN cards[p] /\ cards'[p][i] = cards[p][i]
               \/ i = Len(cards[p]) + 1 /\ cards'[p][i] = drawn
    <3>1. /\ cards'[p] \in Seq(Nat) /\ cards[p] \in Seq(Nat)
          /\ Len(cards'[p]) = Len(cards[p]) + 1
      BY <1>1, DrawnHand
    <3>2. i \in 1..(Len(cards[p]) + 1) /\ DOMAIN cards[p] = 1..Len(cards[p])
          /\ Len(cards[p]) \in Nat
      BY <3>1
    <3>3. i \in DOMAIN cards[p] \/ i = Len(cards[p]) + 1
      BY <3>2
    <3>4. QED
      BY <3>3, DrawnHand
  <2>3. QED
    BY <2>1, <2>2
<1>6. \A i, j \in DOMAIN card_list' : card_list'[i] = card_list'[j] => i = j
  BY <1>2, <1>3 DEF OneCopy
<1>7. \A q \in Players : \A i \in DOMAIN cards[q] : cards[q][i] # drawn
  BY DEF OneCopy
<1>8. ASSUME NEW q \in Players, NEW s \in Players,
             NEW i \in DOMAIN cards'[q], NEW j \in DOMAIN cards'[s],
             cards'[q][i] = cards'[s][j]
      PROVE  q = s /\ i = j
  BY <1>5, <1>7, <1>8 DEF OneCopy
<1>9. ASSUME NEW q \in Players, NEW i \in DOMAIN cards'[q], NEW j \in DOMAIN card_list'
      PROVE  cards'[q][i] # card_list'[j]
  BY <1>2, <1>4, <1>5 DEF OneCopy
<1>10. QED
  BY <1>6, <1>8, <1>9 DEF OneCopy

\* A draw loses no card.
LEMMA DrawKeepsNoneLost ==
  ASSUME TypeOK, NoneLost, NEW p \in Players, NEW idx \in DOMAIN card_list,
         Draw(p, idx)
  PROVE  NoneLost'
<1> DEFINE from(i) == From(card_list, idx, i)
<1>1. card_list \in Seq(Nat) /\ card_list' = Without(card_list, idx)
  BY DEF TypeOK, Draw
<1>2. /\ \A i \in DOMAIN card_list' : card_list'[i] = card_list[from(i)]
      /\ \A k \in DOMAIN card_list \ {idx} : \E i \in DOMAIN card_list' : from(i) = k
  BY <1>1, WithoutList, SMTT(60)
<1> HIDE DEF from
<1>3. \A j \in DOMAIN card_list \ {idx} :
        \E i \in DOMAIN card_list' : card_list'[i] = card_list[j]
  BY <1>2
<1>4. \E i \in DOMAIN cards'[p] : cards'[p][i] = card_list[idx]
  <2>1. /\ cards'[p] \in Seq(Nat) /\ cards[p] \in Seq(Nat)
        /\ Len(cards'[p]) = Len(cards[p]) + 1
        /\ cards'[p][Len(cards[p]) + 1] = card_list[idx]
    BY DrawnHand DEF TypeOK
  <2>2. Len(cards[p]) + 1 \in DOMAIN cards'[p]
    BY <2>1
  <2>3. QED
    BY <2>1, <2>2
<1>5. \A q \in Players : \A i \in DOMAIN cards[q] :
        i \in DOMAIN cards'[q] /\ cards'[q][i] = cards[q][i]
  <2>1. /\ cards'[p] \in Seq(Nat) /\ cards[p] \in Seq(Nat)
        /\ Len(cards'[p]) = Len(cards[p]) + 1
    BY DrawnHand DEF TypeOK
  <2>2. DOMAIN cards[p] \subseteq DOMAIN cards'[p]
    BY <2>1
  <2>3. QED
    BY <2>2, DrawnHand
<1>6. ASSUME NEW k \in DOMAIN Deck
      PROVE  \/ \E i \in DOMAIN card_list' : card_list'[i] = Deck[k]
             \/ \E q \in Players : \E i \in DOMAIN cards'[q] : cards'[q][i] = Deck[k]
  <2>1. CASE \E i \in DOMAIN card_list : card_list[i] = Deck[k]
    BY <2>1, <1>3, <1>4
  <2>2. CASE \E q \in Players : \E i \in DOMAIN cards[q] : cards[q][i] = Deck[k]
    BY <2>2, <1>5
  <2>3. QED
    BY <2>1, <2>2 DEF NoneLost
<1>7. QED
  BY <1>6 DEF NoneLost

\* Every card of the deck is in one place, however the draws fall
\* (random_cards): no two hands of a round share a card.
THEOREM DealPartitions == Spec => [](OneCopy /\ NoneLost)
<1> DEFINE Inv == TypeOK /\ OneCopy /\ NoneLost
<1>1. Init => OneCopy /\ NoneLost
  <2> SUFFICES ASSUME Init PROVE OneCopy /\ NoneLost
    OBVIOUS
  <2>1. card_list = Deck /\ \A p \in Players : cards[p] = <<>>
    BY DEF Init
  <2>2. \A p \in Players : DOMAIN cards[p] = {}
    BY <2>1
  <2>3. OneCopy
    BY <2>1, <2>2, DeckAssumption DEF OneCopy, IsInjective
  <2>4. NoneLost
    BY <2>1 DEF NoneLost
  <2>5. QED
    BY <2>3, <2>4
<1>2. ASSUME TypeOK, OneCopy, NoneLost, [Next]_vars PROVE (OneCopy /\ NoneLost)'
  <2>1. CASE UNCHANGED vars
    BY <1>2, <2>1 DEF OneCopy, NoneLost, vars
  <2>2. ASSUME NEW p \in Players, NEW idx \in DOMAIN card_list, Draw(p, idx)
        PROVE  (OneCopy /\ NoneLost)'
    BY <1>2, <2>2, DrawKeepsOneCopy, DrawKeepsNoneLost
  <2>3. QED
    BY <1>2, <2>1, <2>2 DEF Next
<1>3. QED
  BY <1>1, <1>2, DealTypeCorrect, PTL DEF Spec

\* No card is lost from the deck before it is drawn.
THEOREM DealLosesNothing == Spec => []NoneLost
BY DealPartitions, PTL

-----------------------------------------------------------------------------
(* The order of the cards *)

Rises(f) == \A i, j \in DOMAIN f : i < j => f[i] < f[j]

\* Every bounded set of numbers can be put in rising order.
LEMMA RisingExists ==
  ASSUME NEW N \in Nat, NEW S \in SUBSET (0..N)
  PROVE  /\ IsFiniteSet(S) /\ Cardinality(S) \in Nat
         /\ \E f \in [1..Cardinality(S) -> S] : Rises(f)
<1> DEFINE T == {n \in Nat : \A s \in SUBSET (0..N) : Cardinality(s) = n =>
                               \E f \in [1..n -> s] : Rises(f)}
<1>1. \A s \in SUBSET (0..N) : IsFiniteSet(s) /\ Cardinality(s) \in Nat
  <2>1. IsFiniteSet(0..N)
    BY FS_Interval
  <2>2. ASSUME NEW s \in SUBSET (0..N) PROVE IsFiniteSet(s) /\ Cardinality(s) \in Nat
    <3>1. IsFiniteSet(s)
      BY <2>1, FS_Subset
    <3> QED
      BY <3>1, FS_CardinalityType
  <2> QED
    BY <2>2
<1>2. 0 \in T
  <2>1. ASSUME NEW s PROVE \E f \in [1..0 -> s] : Rises(f)
    <3>1. [i \in 1..0 |-> i] \in [1..0 -> s] /\ Rises([i \in 1..0 |-> i])
      BY DEF Rises
    <3> QED
      BY <3>1
  <2> QED
    BY <2>1
<1>3. ASSUME NEW n \in Nat, n \in T PROVE n + 1 \in T
  <2>1. ASSUME NEW s \in SUBSET (0..N), Cardinality(s) = n + 1
        PROVE  \E f \in [1..(n + 1) -> s] : Rises(f)
    <3>1. s # {}
      BY <2>1, FS_EmptySet
    <3>2. PICK x \in s : \A y \in s : x >= y
      BY <3>1, GreatestNatural
    <3>3. s \ {x} \in SUBSET (0..N) /\ Cardinality(s \ {x}) = n
      BY <1>1, <2>1, <3>2, FS_RemoveElement
    <3>4. PICK g \in [1..n -> s \ {x}] : Rises(g)
      BY <1>3, <3>3
    <3> DEFINE f == [i \in 1..(n + 1) |-> IF i <= n THEN g[i] ELSE x]
    <3>5. f \in [1..(n + 1) -> s]
      BY <3>4
    <3>6. ASSUME NEW i \in 1..(n + 1), NEW j \in 1..(n + 1), i < j PROVE f[i] < f[j]
      <4>1. i \in 1..n /\ f[i] = g[i] /\ g[i] \in s \ {x}
        BY <3>4, <3>6
      <4>2. CASE j <= n
        BY <3>4, <3>6, <4>1, <4>2 DEF Rises
      <4>3. CASE j = n + 1
        <5>1. f[j] = x
          BY <4>3
        <5>2. g[i] \in 0..N /\ x \in 0..N /\ x >= g[i] /\ g[i] # x
          BY <3>2, <4>1
        <5> QED
          BY <4>1, <5>1, <5>2
      <4> QED
        BY <3>6, <4>2, <4>3
    <3>7. Rises(f)
      BY <3>6 DEF Rises
    <3> HIDE DEF f
    <3> QED
      BY <3>5, <3>7
  <2> QED
    BY <2>1
<1> HIDE DEF T
<1>4. Nat \subseteq T
  BY <1>2, <1>3, SetInduction
<1>5. Cardinality(S) \in T
  BY <1>1, <1>4
<1> QED
  BY <1>1, <1>5 DEF T

\* InOrder lists every element of the set once.
LEMMA InOrderLists ==
  ASSUME NEW N \in Nat, NEW S \in SUBSET (0..N)
  PROVE  LET f == InOrder(S)
         IN  /\ f \in [1..Cardinality(S) -> S] /\ Cardinality(S) \in Nat
             /\ IsFiniteSet(S)
             /\ \A i, j \in 1..Cardinality(S) : f[i] = f[j] => i = j
             /\ \A x \in S : \E i \in 1..Cardinality(S) : f[i] = x
<1> DEFINE n == Cardinality(S)
           f == InOrder(S)
<1>1. n \in Nat /\ IsFiniteSet(S)
  BY RisingExists
<1>2. f \in [1..n -> S] /\ Rises(f)
  BY RisingExists DEF InOrder, Rises
<1> HIDE DEF f, n
<1>3. ASSUME NEW i \in 1..n, NEW j \in 1..n, f[i] = f[j] PROVE i = j
  <2>1. ASSUME NEW k \in 1..n, NEW l \in 1..n, k < l PROVE f[k] # f[l]
    <3>1. f[k] \in S /\ f[l] \in S /\ DOMAIN f = 1..n
      BY <1>2
    <3>2. f[k] < f[l]
      BY <1>2, <2>1, <3>1 DEF Rises
    <3>3. \A x \in S : x \in Int
      OBVIOUS
    <3>4. f[k] \in Int /\ f[l] \in Int
      BY <3>1, <3>3
    <3> QED
      BY <3>2, <3>4
  <2>2. i < j \/ j < i \/ i = j
    BY <1>1
  <2> QED
    BY <1>3, <2>1, <2>2
<1>4. f \in Injection(1..n, S)
  BY <1>2, <1>3 DEF Injection, IsInjective
<1>5. Cardinality(1..n) = n
  BY <1>1, FS_Interval
<1>6. f \in Surjection(1..n, S)
  BY <1>1, <1>4, <1>5, FS_Injection DEF n
<1> QED
  BY <1>1, <1>2, <1>3, <1>6 DEF Surjection, f, n

-----------------------------------------------------------------------------
(* What five cards score *)

\* Five cards.
IsHand(h) == h \in [1..5 -> AllCards]

\* The score of each card.
Scores(h) == [i \in 1..5 |-> card_score[h[i]]]

\* The tables have numbers up to 13, scores up to 10 and values up to 52.
LEMMA CardValues ==
  ASSUME NEW c \in AllCards
  PROVE  card_num[c] \in 1..13 /\ card_score[c] \in 1..10 /\ card_val[c] \in 1..52
<1>1. c \in 1..52
  BY DEF AllCards
<1>2. card_num[c] = ((c - 1) % 13) + 1 /\ card_num[c] \in 1..13
  BY <1>1 DEF card_num, AllCards
<1>3. card_score[c] = IF card_num[c] > 10 THEN 10 ELSE card_num[c]
  BY DEF card_score
<1>4. card_val[c] = 4 * (card_num[c] - 1) + ((c - 1) \div 13) + 1
  BY DEF card_val
<1>5. (c - 1) \div 13 \in 0..3
  BY <1>1
<1> QED
  BY <1>2, <1>3, <1>4, <1>5

\* There are five positions.
LEMMA OneToFive == IsFiniteSet(1..5) /\ Cardinality(1..5) = 5
<1>1. ASSUME NEW n \in Nat PROVE IsFiniteSet(1..n) /\ Cardinality(1..n) = n
  BY FS_Interval
<1>2. 5 \in Nat
  OBVIOUS
<1>3. \A n \in Nat : IsFiniteSet(1..n) /\ Cardinality(1..n) = n
  BY <1>1
<1> QED
  BY <1>2, <1>3

\* A score is a sum over positions.
LEMMA ScoreIsSum ==
  ASSUME NEW h, IsHand(h), NEW I \in SUBSET (1..5)
  PROVE  /\ IsFiniteSet(I)
         /\ \A i \in 1..5 : Scores(h)[i] \in Int /\ Scores(h)[i] \in 1..10
         /\ Score(h, I) = SumOver(Scores(h), I)
<1> DEFINE f == Scores(h)
<1>1. \A i \in 1..5 : f[i] = card_score[h[i]] /\ f[i] \in 1..10
  BY CardValues DEF Scores, IsHand
<1>2. \A i \in 1..5 : f[i] \in Int
  BY <1>1
<1>3. IsFiniteSet(1..5)
  BY OneToFive
<1>4. IsFiniteSet(I)
  BY <1>3, FS_Subset
<1> DEFINE Fold(g) == [s \in SUBSET I |->
                         IF s = {} THEN 0
                         ELSE card_score[h[CHOOSE x \in s : TRUE]]
                              + g[s \ {CHOOSE x \in s : TRUE}]]
           it == CHOOSE g : g = Fold(g)
<1>5. Score(h, I) = it[I]
  BY DEF Score, MapThenSumSet, MapThenFoldSet
<1> HIDE DEF f
<1>6. \A g : g = Fold(g) <=> Summing(g, f, I)
  <2>1. ASSUME NEW s \in SUBSET I, s # {}
        PROVE  card_score[h[CHOOSE x \in s : TRUE]] = f[Picked(s)]
    <3>1. Picked(s) \in 1..5
      BY <2>1 DEF Picked
    <3> QED
      BY <1>1, <3>1 DEF Picked
  <2>2. ASSUME NEW g
        PROVE  Fold(g) = [s \in SUBSET I |-> IF s = {} THEN 0 ELSE f[Picked(s)] + g[s \ {Picked(s)}]]
    BY <2>1 DEF Picked
  <2> HIDE DEF Fold
  <2> QED
    BY <2>2 DEF Summing
<1> HIDE DEF Fold
<1>7. PICK g : Summing(g, f, I) /\ SumOver(f, I) = g[I]
  BY <1>2, <1>4, SumOverIs
<1>8. Summing(it, f, I)
  <2>1. \E k : k = Fold(k)
    BY <1>6, <1>7
  <2>2. it = Fold(it)
    BY <2>1
  <2> QED
    BY <1>6, <2>2
<1> HIDE DEF it
<1>9. it[I] = g[I]
  BY <1>4, <1>7, <1>8, SummingSame
<1> QED
  BY <1>1, <1>2, <1>4, <1>5, <1>7, <1>9 DEF f

\* Two cards and the three others score what the hand does.
LEMMA ScoreParts ==
  ASSUME NEW h, IsHand(h), NEW p \in SUBSET (1..5)
  PROVE  /\ Score(h, 1..5) = Score(h, p) + Score(h, (1..5) \ p)
         /\ Score(h, p) \in Int /\ Score(h, (1..5) \ p) \in Int /\ Score(h, 1..5) \in Int
<1>1. PICK S : S = 1..5
  OBVIOUS
<1>2. /\ IsFiniteSet(S)
      /\ \A i \in S : Scores(h)[i] \in Int
      /\ Score(h, S) = SumOver(Scores(h), S)
      /\ Score(h, p) = SumOver(Scores(h), p)
      /\ Score(h, S \ p) = SumOver(Scores(h), S \ p)
  BY <1>1, ScoreIsSum
<1>3. p \in SUBSET S
  BY <1>1
<1>4. /\ SumOver(Scores(h), S) = SumOver(Scores(h), p) + SumOver(Scores(h), S \ p)
      /\ SumOver(Scores(h), S) \in Int /\ SumOver(Scores(h), p) \in Int
      /\ SumOver(Scores(h), S \ p) \in Int
  BY <1>2, <1>3, SumOverParts
<1> QED
  BY <1>1, <1>2, <1>4

\* A bull is worth one to ten.
LEMMA BullValue ==
  ASSUME NEW n \in Int
  PROVE  Bull(n) \in 1..10
BY DEF Bull

\* The order has the positions of the three other cards first, then the pair's.
PairLast(order, p) ==
  /\ \A i \in 1..5 : order[i] \in 1..5
  /\ \A i \in 1..3 : order[i] \in (1..5) \ p
  /\ \A i \in 4..5 : order[i] \in p
  /\ \A i, j \in 1..5 : order[i] = order[j] => i = j
  /\ \A x \in (1..5) \ p : \E i \in 1..3 : order[i] = x
  /\ \A x \in p : \E i \in 4..5 : order[i] = x

\* The cards are arranged in such an order.
LEMMA ArrangedOrder ==
  ASSUME NEW p \in SUBSET (1..5), Cardinality(p) = 2
  PROVE  PairLast(InOrder((1..5) \ p) \o InOrder(p), p)
<1> DEFINE rest == (1..5) \ p
           f == InOrder(rest)
           g == InOrder(p)
           order == f \o g
<1>1. p \in SUBSET (0..5) /\ rest \in SUBSET (0..5)
  OBVIOUS
<1>2. Cardinality(rest) = 3
  <2>1. IsFiniteSet(1..5) /\ Cardinality(1..5) = 5
    BY OneToFive
  <2>2. IsFiniteSet(p) /\ IsFiniteSet(rest)
    BY <2>1, FS_Subset
  <2>3. Cardinality(rest \cup p) = Cardinality(rest) + Cardinality(p) - Cardinality(rest \cap p)
    BY <2>2, FS_Union
  <2>4. rest \cup p = 1..5 /\ rest \cap p = {}
    OBVIOUS
  <2>5. Cardinality(rest \cap p) = 0 /\ Cardinality(rest) \in Nat
    BY <2>2, <2>4, FS_EmptySet, FS_CardinalityType
  <2> HIDE DEF rest
  <2> QED
    BY <2>1, <2>3, <2>4, <2>5
<1>3. /\ f \in [1..3 -> rest]
      /\ \A i, j \in 1..3 : f[i] = f[j] => i = j
      /\ \A x \in rest : \E i \in 1..3 : f[i] = x
  <2> HIDE DEF rest
  <2>1. PICK n \in Nat : n = 5
    OBVIOUS
  <2>2. rest \in SUBSET (0..n)
    BY <1>1, <2>1
  <2>3. PICK c : c = Cardinality(rest)
    OBVIOUS
  <2>4. /\ f \in [1..c -> rest]
        /\ \A i, j \in 1..c : f[i] = f[j] => i = j
        /\ \A x \in rest : \E i \in 1..c : f[i] = x
    BY <2>2, <2>3, InOrderLists, ZenonT(60)
  <2> QED
    BY <1>2, <2>3, <2>4
<1>4. /\ g \in [1..2 -> p]
      /\ \A i, j \in 1..2 : g[i] = g[j] => i = j
      /\ \A x \in p : \E i \in 1..2 : g[i] = x
  <2>1. PICK n \in Nat : n = 5
    OBVIOUS
  <2>2. p \in SUBSET (0..n)
    BY <1>1, <2>1
  <2>3. PICK c : c = Cardinality(p)
    OBVIOUS
  <2>4. /\ g \in [1..c -> p]
        /\ \A i, j \in 1..c : g[i] = g[j] => i = j
        /\ \A x \in p : \E i \in 1..c : g[i] = x
    BY <2>2, <2>3, InOrderLists, ZenonT(60)
  <2> QED
    BY <1>1, <2>3, <2>4
<1> HIDE DEF f, g
<1>5. f \in Seq(1..5) /\ g \in Seq(1..5) /\ Len(f) = 3 /\ Len(g) = 2
  <2>1. f \in [1..3 -> 1..5] /\ g \in [1..2 -> 1..5]
    BY <1>3, <1>4
  <2>2. f \in Seq(1..5) /\ g \in Seq(1..5)
    BY <2>1, SeqDef, ZenonT(60)
  <2>3. DOMAIN f = 1..3 /\ DOMAIN g = 1..2
    BY <2>1
  <2> QED
    BY <2>2, <2>3, LenProperties
<1>6. \A i \in 1 .. Len(f) + Len(g) :
        order[i] = IF i <= Len(f) THEN f[i] ELSE g[i - Len(f)]
  <2>1. PICK D : D = 1..5
    OBVIOUS
  <2>2. f \in Seq(D) /\ g \in Seq(D)
    BY <1>5, <2>1
  <2> QED
    BY <2>2, ConcatProperties
<1> HIDE DEF order
<1>7. \A i \in 1..5 : order[i] = IF i <= 3 THEN f[i] ELSE g[i - 3]
  BY <1>5, <1>6
<1>8. \A i \in 1..3 : order[i] = f[i]
  BY <1>7
<1>9. \A i \in 4..5 : order[i] = g[i - 3]
  BY <1>7
<1>10. \A i \in 1..3 : order[i] \in rest
  BY <1>3, <1>8
<1>11. \A i \in 4..5 : i - 3 \in 1..2 /\ order[i] \in p
  BY <1>4, <1>9
<1>12. \A i \in 1..5 : i \in 1..3 \/ i \in 4..5
  OBVIOUS
<1>13. \A x \in rest : \E i \in 1..3 : order[i] = x
  BY <1>3, <1>8
<1>14. ASSUME NEW x \in p PROVE \E i \in 4..5 : order[i] = x
  <2>1. PICK i \in 1..2 : g[i] = x
    BY <1>4
  <2>2. i + 3 \in 4..5 /\ (i + 3) - 3 = i
    BY <2>1
  <2> QED
    BY <1>9, <2>1, <2>2
<1>15. ASSUME NEW i \in 1..5, NEW j \in 1..5, order[i] = order[j] PROVE i = j
  <2>1. CASE i \in 1..3 /\ j \in 1..3
    BY <1>3, <1>8, <1>15, <2>1
  <2>2. CASE i \in 4..5 /\ j \in 4..5
    <3>1. i - 3 = j - 3
      BY <1>4, <1>9, <1>11, <1>15, <2>2
    <3> QED
      BY <3>1
  <2>3. CASE (i \in 1..3 /\ j \in 4..5) \/ (i \in 4..5 /\ j \in 1..3)
    BY <1>10, <1>11, <1>15, <2>3
  <2> QED
    BY <1>12, <2>1, <2>2, <2>3
<1> QED
  BY <1>10, <1>11, <1>12, <1>13, <1>14, <1>15 DEF PairLast, order, f, g

\* The cards of h in the order named.
Reordered(h, order) == [i \in 1..5 |-> h[order[i]]]

\* Cards shown in such an order are the cards of the hand, the three others first.
LEMMA ReorderedHand ==
  ASSUME NEW h, IsHand(h), NEW p \in SUBSET (1..5), NEW order, PairLast(order, p),
         NEW sel, sel = Reordered(h, order)
  PROVE  /\ IsHand(sel) /\ MaxVal(sel) = MaxVal(h)
         /\ Score(sel, 1..3) = Score(h, (1..5) \ p)
         /\ Score(sel, 4..5) = Score(h, p)
<1> DEFINE rest == (1..5) \ p
<1>2. /\ \A i \in 1..5 : order[i] \in 1..5
      /\ \A i \in 1..3 : order[i] \in rest
      /\ \A i \in 4..5 : order[i] \in p
      /\ \A i, j \in 1..5 : order[i] = order[j] => i = j
      /\ \A x \in rest : \E i \in 1..3 : order[i] = x
      /\ \A x \in p : \E i \in 4..5 : order[i] = x
  BY DEF PairLast
<1>3. DOMAIN h = 1..5 /\ \A i \in 1..5 : h[i] \in AllCards
  BY DEF IsHand
<1>4. sel = [i \in 1..5 |-> h[order[i]]]
  BY Zenon DEF Reordered
<1>5. DOMAIN sel = 1..5 /\ \A i \in 1..5 : sel[i] = h[order[i]] /\ sel[i] \in AllCards
  BY <1>2, <1>3, <1>4
<1>6. IsHand(sel)
  BY <1>4, <1>5 DEF IsHand
<1>7. \A i \in 1..5 : Scores(sel)[i] = Scores(h)[order[i]]
  BY <1>2, <1>5 DEF Scores
<1>8. MaxVal(sel) = MaxVal(h)
  <2>1. ASSUME NEW x \in 1..5 PROVE \E i \in 1..5 : order[i] = x
    <3>1. CASE x \in p
      <4>1. PICK i \in 4..5 : order[i] = x
        BY <1>2, <3>1
      <4>2. i \in 1..5
        BY <4>1
      <4> QED
        BY <4>1, <4>2
    <3>2. CASE x \in rest
      <4>1. PICK i \in 1..3 : order[i] = x
        BY <1>2, <3>2
      <4>2. i \in 1..5
        BY <4>1
      <4> QED
        BY <4>1, <4>2
    <3> QED
      BY <3>1, <3>2
  <2> DEFINE A == {card_val[sel[i]] : i \in DOMAIN sel}
             B == {card_val[h[i]] : i \in DOMAIN h}
  <2>2. A \subseteq B
    <3>1. ASSUME NEW i \in 1..5 PROVE card_val[sel[i]] \in B
      BY <1>2, <1>3, <1>5
    <3> QED
      BY <1>5, <3>1
  <2>3. B \subseteq A
    <3>1. ASSUME NEW i \in 1..5 PROVE card_val[h[i]] \in A
      <4>1. PICK k \in 1..5 : order[k] = i
        BY <2>1
      <4> QED
        BY <1>5, <4>1
    <3> QED
      BY <1>3, <3>1
  <2>4. MaxVal(sel) = Max({0} \cup A) /\ MaxVal(h) = Max({0} \cup B)
    BY DEF MaxVal
  <2> HIDE DEF A, B
  <2>5. A = B
    BY <2>2, <2>3
  <2> QED
    BY <2>4, <2>5
<1>9. ASSUME NEW I \in SUBSET (1..5), NEW J \in SUBSET (1..5),
             \A i \in I : order[i] \in J, \A x \in J : \E i \in I : order[i] = x
      PROVE  Score(sel, I) = Score(h, J)
  <2>1. PICK e, f : e = Scores(sel) /\ f = Scores(h)
    OBVIOUS
  <2>2. /\ IsFiniteSet(I) /\ Score(sel, I) = SumOver(e, I)
        /\ IsFiniteSet(J) /\ Score(h, J) = SumOver(f, J)
        /\ \A x \in 1..5 : f[x] \in Int
    BY <1>6, <2>1, ScoreIsSum
  <2>3. /\ \A x \in J : f[x] \in Int
        /\ \A i \in I : e[i] = f[order[i]]
        /\ \A i, j \in I : order[i] = order[j] => i = j
    BY <1>2, <1>7, <2>1, <2>2
  <2>4. Renamed(e, f, order, I, J)
    BY <1>9, <2>2, <2>3 DEF Renamed
  <2>5. SumOver(e, I) = SumOver(f, J)
    BY <2>4, SumOverOrder
  <2> QED
    BY <2>2, <2>5
<1>10. Score(sel, 1..3) = Score(h, rest)
  <2>1. PICK I : I = 1..3
    OBVIOUS
  <2>2. I \in SUBSET (1..5) /\ rest \in SUBSET (1..5)
    BY <2>1
  <2> HIDE DEF rest
  <2> QED
    BY <1>2, <1>9, <2>1, <2>2
<1>11. Score(sel, 4..5) = Score(h, p)
  <2>1. PICK I : I = 4..5
    OBVIOUS
  <2>2. I \in SUBSET (1..5)
    BY <2>1
  <2> QED
    BY <1>2, <1>9, <2>1, <2>2
<1> QED
  BY <1>6, <1>8, <1>10, <1>11

\* So are the arranged cards.
LEMMA ArrangedHand ==
  ASSUME NEW h, IsHand(h), NEW p \in SUBSET (1..5), Cardinality(p) = 2
  PROVE  LET sel == Arranged(h, p)
         IN  /\ IsHand(sel) /\ MaxVal(sel) = MaxVal(h)
             /\ Score(sel, 1..3) = Score(h, (1..5) \ p)
             /\ Score(sel, 4..5) = Score(h, p)
<1>1. DOMAIN h = 1..5
  BY DEF IsHand
<1>2. PICK order : order = InOrder(DOMAIN h \ p) \o InOrder(p)
  OBVIOUS
<1>3. PICK sel : sel = Arranged(h, p)
  OBVIOUS
<1>4. sel = [i \in DOMAIN h |-> h[order[i]]]
  BY <1>2, <1>3, Zenon DEF Arranged
<1>5. sel = Reordered(h, order)
  BY <1>1, <1>4 DEF Reordered
<1>6. PairLast(order, p)
  <2>1. order = InOrder((1..5) \ p) \o InOrder(p)
    BY <1>1, <1>2, Zenon
  <2> QED
    BY <2>1, ArrangedOrder
<1>7. /\ IsHand(sel) /\ MaxVal(sel) = MaxVal(h)
      /\ Score(sel, 1..3) = Score(h, (1..5) \ p)
      /\ Score(sel, 4..5) = Score(h, p)
  BY <1>5, <1>6, ReorderedHand
<1> QED
  BY <1>3, <1>7, Zenon

\* The highest card is one of 52.
LEMMA MaxValNumber ==
  ASSUME NEW h, IsHand(h)
  PROVE  MaxVal(h) \in 0..52
<1> DEFINE T == {0} \cup {card_val[h[i]] : i \in DOMAIN h}
<1>1. ASSUME NEW i \in DOMAIN h PROVE card_val[h[i]] \in 0..52
  <2>1. h[i] \in AllCards
    BY DEF IsHand
  <2> QED
    BY <2>1, CardValues
<1>2. T \subseteq 0..52 /\ T # {}
  BY <1>1
<1>3. MaxVal(h) = CHOOSE x \in T : \A y \in T : x >= y
  BY DEF MaxVal, Max
<1> HIDE DEF T
<1>4. \E x \in T : \A y \in T : x >= y
  <2>1. PICK n \in Nat : n = 52
    OBVIOUS
  <2> QED
    BY <1>2, <2>1, GreatestNatural
<1>5. MaxVal(h) \in T
  BY <1>3, <1>4
<1> QED
  BY <1>2, <1>5

\* What the two loops find: the best bull of any pair, and none if no pair
\* leaves a multiple of ten.
LEMMA BestOfPairs ==
  ASSUME NEW h, IsHand(h), ~Special(h)
  PROVE  /\ BestPaixing(h) \in 0..10
         /\ BestPaixing(h) = 0 \/ \E p \in Pairs(h) : BestPaixing(h) = Bull(Score(h, p))
         /\ \A p \in Pairs(h) : BestPaixing(h) >= Bull(Score(h, p))
<1> DEFINE T == {0} \cup {Bull(Score(h, p)) : p \in Pairs(h)}
<1>1. ASSUME NEW p \in Pairs(h) PROVE Bull(Score(h, p)) \in 1..10
  <2>1. p \in SUBSET (1..5)
    BY DEF Pairs, IsHand
  <2>2. Score(h, p) \in Int
    BY <2>1, ScoreParts
  <2> QED
    BY <2>2, BullValue
<1>2. T \subseteq 0..10 /\ T # {}
  BY <1>1
<1>3. BestPaixing(h) = CHOOSE x \in T : \A y \in T : x >= y
  BY DEF BestPaixing, Special, Max
<1>4. \A p \in Pairs(h) : Bull(Score(h, p)) \in T
  OBVIOUS
<1>5. \A x \in T : x = 0 \/ \E p \in Pairs(h) : x = Bull(Score(h, p))
  OBVIOUS
<1> HIDE DEF T
<1>6. \E x \in T : \A y \in T : x >= y
  <2>1. PICK n \in Nat : n = 10
    OBVIOUS
  <2> QED
    BY <1>2, <2>1, GreatestNatural
<1>7. BestPaixing(h) \in T /\ \A y \in T : BestPaixing(h) >= y
  BY <1>3, <1>6
<1> QED
  BY <1>2, <1>4, <1>5, <1>7

\* cal_card_paixing of an arrangement is the bull of its pair.
LEMMA ArrangedPaixing ==
  ASSUME NEW h, IsHand(h), NEW p \in SUBSET (1..5), Cardinality(p) = 2
  PROVE  LET sel == Arranged(h, p)
         IN  /\ AddsUp(sel) <=> p \in Pairs(h)
             /\ Paixing(sel) = IF p \in Pairs(h) THEN Bull(Score(h, p)) ELSE 0
<1>1. DOMAIN h = 1..5
  BY DEF IsHand
<1>2. PICK sel : /\ sel = Arranged(h, p)
                 /\ Score(sel, 1..3) = Score(h, (1..5) \ p)
                 /\ Score(sel, 4..5) = Score(h, p)
  BY ArrangedHand
<1>3. AddsUp(sel) <=> p \in Pairs(h)
  BY <1>1, <1>2 DEF AddsUp, Pairs
<1> QED
  BY <1>2, <1>3 DEF Paixing

\* Five different positions are an order of the five cards, the last two a pair.
LEMMA WaysOrder ==
  ASSUME NEW sel \in [1..5 -> 1..5], \A i, j \in 1..5 : sel[i] = sel[j] => i = j
  PROVE  /\ PairLast(sel, {sel[4], sel[5]})
         /\ {sel[4], sel[5]} \in SUBSET (1..5)
         /\ Cardinality({sel[4], sel[5]}) = 2
<1>1. PICK a \in 1..5, b \in 1..5, c \in 1..5, d \in 1..5, e \in 1..5 :
        a = sel[1] /\ b = sel[2] /\ c = sel[3] /\ d = sel[4] /\ e = sel[5]
  <2>1. \A i \in 1..5 : sel[i] \in 1..5
    OBVIOUS
  <2>2. 1 \in 1..5 /\ 2 \in 1..5 /\ 3 \in 1..5 /\ 4 \in 1..5 /\ 5 \in 1..5
    OBVIOUS
  <2>3. /\ sel[1] \in 1..5 /\ sel[2] \in 1..5 /\ sel[3] \in 1..5
        /\ sel[4] \in 1..5 /\ sel[5] \in 1..5
    BY <2>1, <2>2
  <2> QED
    BY <2>3, Zenon
<1>2. /\ a # b /\ a # c /\ a # d /\ a # e /\ b # c /\ b # d /\ b # e
      /\ c # d /\ c # e /\ d # e
  <2>1. \A i, j \in 1..5 : i # j => sel[i] # sel[j]
    OBVIOUS
  <2> QED
    BY <1>1, <2>1
<1>3. \A x \in 1..5 : x \in {a, b, c, d, e}
  BY <1>2
<1>4. \A x \in (1..5) \ {d, e} : x \in {a, b, c}
  BY <1>3
<1>5. \A x \in (1..5) \ {d, e} : \E i \in 1..3 : sel[i] = x
  <2>1. 1 \in 1..3 /\ 2 \in 1..3 /\ 3 \in 1..3
    OBVIOUS
  <2> QED
    BY <1>1, <1>4, <2>1
<1>6. \A x \in {d, e} : \E i \in 4..5 : sel[i] = x
  BY <1>1
<1>7. \A i \in 1..3 : sel[i] \in (1..5) \ {d, e}
  <2>1. \A i \in 1..3 : i = 1 \/ i = 2 \/ i = 3
    OBVIOUS
  <2> QED
    BY <1>1, <1>2, <2>1
<1>8. \A i \in 4..5 : sel[i] \in {d, e}
  BY <1>1
<1>9. PairLast(sel, {d, e})
  BY <1>5, <1>6, <1>7, <1>8 DEF PairLast
<1>10. Cardinality({d, e}) = 2
  <2>1. IsFiniteSet({d}) /\ Cardinality({d}) = 1
    BY FS_Singleton
  <2>2. Cardinality({d} \cup {e}) = Cardinality({d}) + 1
    BY <1>2, <2>1, FS_AddElement
  <2>3. {d, e} = {d} \cup {e}
    OBVIOUS
  <2> QED
    BY <2>1, <2>2, <2>3
<1> QED
  BY <1>1, <1>9, <1>10

\* In no order are the five cards worth more than the tip.
LEMMA TipBeatsSelection ==
  ASSUME NEW h, IsHand(h), NEW sel \in [1..5 -> 1..5],
         \A i, j \in 1..5 : sel[i] = sel[j] => i = j,
         AddsUp(Selected(h, sel))
  PROVE  Paival(Selected(h, sel)) <= BestPaival(h)
<1>1. PICK shown : shown = Selected(h, sel)
  OBVIOUS
<1>2. PICK p : p = {sel[4], sel[5]}
  OBVIOUS
<1>3. PairLast(sel, p) /\ p \in SUBSET (1..5) /\ Cardinality(p) = 2
  BY <1>2, WaysOrder
<1>4. shown = [i \in 1..5 |-> h[sel[i]]]
  BY <1>1 DEF Selected
<1>5. /\ MaxVal(shown) = MaxVal(h)
      /\ Score(shown, 1..3) = Score(h, (1..5) \ p)
      /\ Score(shown, 4..5) = Score(h, p)
  <2>1. shown = Reordered(h, sel)
    BY <1>4 DEF Reordered
  <2> QED
    BY <1>3, <2>1, ReorderedHand
<1>6. p \in Pairs(h) /\ Paixing(shown) = Bull(Score(h, p))
  <2>1. DOMAIN h = 1..5
    BY DEF IsHand
  <2> QED
    BY <1>1, <1>3, <1>5, <2>1 DEF AddsUp, Pairs, Paixing
<1>7. Score(h, p) \in Int
  BY <1>3, ScoreParts
<1>8. Paixing(shown) \in 1..10 /\ MaxVal(h) \in 0..52
  BY <1>6, <1>7, BullValue, MaxValNumber
<1>9. BestPaixing(h) \in Int /\ BestPaixing(h) >= Paixing(shown)
  <2>1. CASE Special(h)
    BY <1>8, <2>1 DEF Special, BestPaixing
  <2>2. CASE ~Special(h)
    BY <1>6, <2>2, BestOfPairs
  <2> QED
    BY <2>1, <2>2
<1>10. Paival(shown) = Paixing(shown) * 100 + MaxVal(h)
  BY <1>5 DEF Paival
<1>11. BestPaival(h) = BestPaixing(h) * 100 + MaxVal(h)
  BY DEF BestPaival
<1> QED
  BY <1>1, <1>8, <1>9, <1>10, <1>11

\* There is a pair the two loops find first.
LEMMA FirstBestIsBest ==
  ASSUME NEW h, IsHand(h), Pairs(h) # {}
  PROVE  /\ FirstBest(h) \in Pairs(h)
         /\ \A q \in Pairs(h) : Bull(Score(h, FirstBest(h))) >= Bull(Score(h, q))
<1> DEFINE best == {p \in Pairs(h) : \A q \in Pairs(h) : Bull(Score(h, p)) >= Bull(Score(h, q))}
<1>1. ASSUME NEW p \in Pairs(h)
      PROVE  /\ Bull(Score(h, p)) \in 0..10
             /\ Min(p) \in 0..5 /\ Max(p) \in 0..5
  <2>1. p \in SUBSET (1..5) /\ Cardinality(p) = 2
    BY DEF Pairs, IsHand
  <2>2. Score(h, p) \in Int
    BY <2>1, ScoreParts
  <2>3. Bull(Score(h, p)) \in 0..10
    BY <2>2, BullValue
  <2>4. p # {}
    BY <2>1, FS_EmptySet
  <2>5. Min(p) \in 1..5
    <3>1. p \subseteq Nat
      BY <2>1
    <3>2. \E n \in p : \A m \in p : n <= m
      BY <2>4, <3>1, LeastNatural
    <3> QED
      BY <2>1, <3>2 DEF Min
  <2>6. Max(p) \in 1..5
    <3>1. PICK N \in Nat : N = 5
      OBVIOUS
    <3>2. p \subseteq 0..N
      BY <2>1, <3>1
    <3>3. \E n \in p : \A m \in p : n >= m
      BY <2>4, <3>2, GreatestNatural
    <3> QED
      BY <2>1, <3>3 DEF Max
  <2> QED
    BY <2>3, <2>5, <2>6
<1>2. best # {}
  <2> DEFINE T == {Bull(Score(h, p)) : p \in Pairs(h)}
  <2>1. T \subseteq 0..10 /\ T # {}
    BY <1>1
  <2>2. \E n \in T : \A m \in T : n >= m
    <3>1. PICK N \in Nat : N = 10
      OBVIOUS
    <3> HIDE DEF T
    <3> QED
      BY <2>1, <3>1, GreatestNatural
  <2>3. PICK p \in Pairs(h) : \A q \in Pairs(h) : Bull(Score(h, p)) >= Bull(Score(h, q))
    BY <2>2
  <2> QED
    BY <2>3
<1>3. best \subseteq Pairs(h)
  OBVIOUS
<1>4. FirstBest(h) = CHOOSE p \in best : \A q \in best :
                       Min(p) < Min(q) \/ (Min(p) = Min(q) /\ Max(p) <= Max(q))
  BY DEF FirstBest
<1>5. \A p \in best : \A q \in Pairs(h) : Bull(Score(h, p)) >= Bull(Score(h, q))
  OBVIOUS
<1> HIDE DEF best
<1>6. PICK m \in Nat : /\ \A q \in best : m <= Min(q)
                       /\ \E p \in best : Min(p) = m
  <2> DEFINE U == {Min(p) : p \in best}
  <2>1. U \subseteq Nat /\ U # {}
    BY <1>1, <1>2, <1>3
  <2>2. \E n \in U : \A k \in U : n <= k
    <3> HIDE DEF U
    <3> QED
      BY <2>1, LeastNatural
  <2> QED
    BY <2>1, <2>2
<1>7. PICK x \in Nat : /\ \A q \in best : Min(q) = m => x <= Max(q)
                       /\ \E p \in best : Min(p) = m /\ Max(p) = x
  <2> DEFINE lowest == {p \in best : Min(p) = m}
             U == {Max(p) : p \in lowest}
  <2>1. U \subseteq Nat /\ U # {}
    BY <1>1, <1>3, <1>6
  <2>2. \E n \in U : \A k \in U : n <= k
    <3> HIDE DEF U
    <3> QED
      BY <2>1, LeastNatural
  <2> QED
    BY <2>1, <2>2
<1>8. PICK p \in best : Min(p) = m /\ Max(p) = x
  BY <1>7
<1>9. ASSUME NEW q \in best PROVE Min(p) < Min(q) \/ (Min(p) = Min(q) /\ Max(p) <= Max(q))
  <2>1. Min(q) \in Nat /\ m <= Min(q)
    BY <1>1, <1>3, <1>6
  <2>2. Min(q) = m \/ m < Min(q)
    BY <2>1
  <2> QED
    BY <1>7, <1>8, <2>2
<1>10. FirstBest(h) \in best
  BY <1>4, <1>8, <1>9
<1> QED
  BY <1>3, <1>5, <1>10

\* The tip is what its cards show, and all five cards tell how much it is.
LEMMA TipShowsItself ==
  ASSUME NEW h, IsHand(h), ~Special(h)
  PROVE  /\ Paixing(BestSet(h)) = BestPaixing(h)
         /\ BestPaixing(h) \in {0, Bull(Score(h, 1..5))}
<1>1. DOMAIN h = 1..5
  BY DEF IsHand
<1>2. /\ BestPaixing(h) \in 0..10
      /\ BestPaixing(h) = 0 \/ \E p \in Pairs(h) : BestPaixing(h) = Bull(Score(h, p))
      /\ \A p \in Pairs(h) : BestPaixing(h) >= Bull(Score(h, p))
  BY BestOfPairs
<1>3. ASSUME NEW p \in Pairs(h)
      PROVE  /\ p \in SUBSET (1..5) /\ Cardinality(p) = 2
             /\ Bull(Score(h, p)) \in 1..10
             /\ Bull(Score(h, p)) = Bull(Score(h, 1..5))
  <2>1. p \in SUBSET (1..5) /\ Cardinality(p) = 2 /\ Score(h, (1..5) \ p) % 10 = 0
    BY <1>1 DEF Pairs
  <2>2. PICK all, two, three \in Int :
          /\ all = Score(h, 1..5) /\ two = Score(h, p) /\ three = Score(h, (1..5) \ p)
          /\ all = two + three
    BY <2>1, ScoreParts
  <2>3. two % 10 = all % 10
    BY <2>1, <2>2
  <2>4. Bull(two) = Bull(all) /\ Bull(two) \in 1..10
    BY <2>2, <2>3, BullValue DEF Bull
  <2> QED
    BY <2>1, <2>2, <2>4
<1>4. CASE Pairs(h) = {}
  <2>1. BestSet(h) = h /\ BestPaixing(h) = 0
    BY <1>2, <1>4 DEF BestSet
  <2>2. ~AddsUp(h)
    <3>1. SUFFICES ASSUME Score(h, 1..3) % 10 = 0 PROVE FALSE
      BY DEF AddsUp
    <3>2. PICK p : p = {4, 5}
      OBVIOUS
    <3>3. p \in SUBSET (1..5) /\ (1..5) \ p = 1..3
      BY <3>2
    <3>4. Cardinality(p) = 2
      <4>1. IsFiniteSet({4}) /\ Cardinality({4}) = 1
        BY FS_Singleton
      <4>2. Cardinality({4} \cup {5}) = 2
        BY <4>1, FS_AddElement
      <4> QED
        BY <3>2, <4>2
    <3> QED
      BY <1>1, <1>4, <3>1, <3>3, <3>4 DEF Pairs
  <2> QED
    BY <2>1, <2>2 DEF Paixing
<1>5. CASE Pairs(h) # {}
  <2>1. PICK p : p = FirstBest(h)
    OBVIOUS
  <2>2. p \in Pairs(h) /\ \A q \in Pairs(h) : Bull(Score(h, p)) >= Bull(Score(h, q))
    BY <1>5, <2>1, FirstBestIsBest
  <2>3. BestSet(h) = Arranged(h, p)
    BY <1>5, <2>1 DEF BestSet
  <2>4. Paixing(Arranged(h, p)) = Bull(Score(h, p))
    BY <1>3, <2>2, ArrangedPaixing
  <2>5. BestPaixing(h) = Bull(Score(h, p))
    BY <1>2, <1>3, <2>2
  <2> QED
    BY <1>3, <2>2, <2>3, <2>4, <2>5
<1> QED
  BY <1>4, <1>5

-----------------------------------------------------------------------------
(* The hands that are dealt are hands of cards *)

HandsOfCards ==
  /\ card_list \in Seq(AllCards)
  /\ cards \in [Players -> Seq(AllCards)]

\* The list and the hands hold nothing but indices of the card tables.
LEMMA DealsCards == Spec => []HandsOfCards
<1>1. Init => HandsOfCards
  BY CardsAssumption DEF Init, HandsOfCards
<1>2. ASSUME HandsOfCards, [Next]_vars PROVE HandsOfCards'
  <2>1. CASE UNCHANGED vars
    BY <1>2, <2>1 DEF HandsOfCards, vars
  <2>2. ASSUME NEW p \in Players, NEW idx \in DOMAIN card_list, Draw(p, idx)
        PROVE  HandsOfCards'
    <3>1. card_list \in Seq(AllCards) /\ card_list[idx] \in AllCards /\ Len(card_list) \in Nat
      BY <1>2 DEF HandsOfCards
    <3>2. card_list' \in Seq(AllCards)
      <4>1. PICK n \in Nat : n = Len(card_list)
        BY <3>1
      <4>2. idx \in 1..n /\ n \in 1..n
        BY <3>1, <4>1
      <4>3. \A i \in 1..n : card_list[i] \in AllCards
        BY <3>1, <4>1
      <4>4. card_list' = [i \in 1..(n - 1) |-> IF i = idx THEN card_list[n] ELSE card_list[i]]
        BY <2>2, <4>1 DEF Draw, Without
      <4>5. card_list' \in [1..(n - 1) -> AllCards] /\ n - 1 \in Nat
        BY <4>2, <4>3, <4>4
      <4> QED
        BY <4>5, SeqDef
    <3>3. cards' = [cards EXCEPT ![p] = Append(@, card_list[idx])]
      BY <2>2 DEF Draw
    <3>4. Append(cards[p], card_list[idx]) \in Seq(AllCards)
      BY <1>2, <3>1 DEF HandsOfCards
    <3>5. cards' \in [Players -> Seq(AllCards)]
      BY <1>2, <3>3, <3>4 DEF HandsOfCards
    <3> QED
      BY <3>2, <3>5 DEF HandsOfCards
  <2> QED
    BY <1>2, <2>1, <2>2 DEF Next
<1> QED
  BY <1>1, <1>2, PTL DEF Spec

\* A full hand is one that the lemmas speak of.
LEMMA FullIsHand ==
  ASSUME HandsOfCards, NEW p \in Players, Full(cards[p])
  PROVE  IsHand(cards[p]) /\ HandSize = 5
<1>1. cards[p] \in Seq(AllCards) /\ Len(cards[p]) = 5
  BY CardsAssumption DEF HandsOfCards, Full
<1>2. cards[p] \in [1..5 -> AllCards]
  BY <1>1, LenProperties
<1> QED
  BY <1>2, CardsAssumption DEF IsHand

\* Whatever five cards are dealt, the tip is worth as much as the same five cards
\* are in any order (cal_best_card_paixing against cal_card_paixing).
THEOREM TipIsBestCorrect == Spec => []TipIsBest
<1>1. ASSUME HandsOfCards PROVE TipIsBest
  <2>1. ASSUME NEW p \in Players, Full(cards[p]), NEW sel \in Ways,
               AddsUp(Selected(cards[p], sel))
        PROVE  Paival(Selected(cards[p], sel)) <= BestPaival(cards[p])
    <3>1. IsHand(cards[p]) /\ HandSize = 5
      BY <1>1, <2>1, FullIsHand
    <3>2. sel \in [1..5 -> 1..5] /\ \A i, j \in 1..5 : sel[i] = sel[j] => i = j
      BY <3>1 DEF Ways, IsInjective
    <3> QED
      BY <2>1, <3>1, <3>2, TipBeatsSelection
  <2> QED
    BY <2>1 DEF TipIsBest
<1> QED
  BY <1>1, DealsCards, PTL

\* Whatever five cards are dealt, what is shown with the tip is worth the tip.
THEOREM TipIsShownCorrect == Spec => []TipIsShown
<1>1. ASSUME HandsOfCards PROVE TipIsShown
  <2>1. ASSUME NEW p \in Players, Full(cards[p]), ~Special(cards[p])
        PROVE  /\ Paixing(BestSet(cards[p])) = BestPaixing(cards[p])
               /\ BestPaixing(cards[p]) \in {0, Bull(Score(cards[p], 1..HandSize))}
    <3>1. IsHand(cards[p]) /\ HandSize = 5
      BY <1>1, <2>1, FullIsHand
    <3> QED
      BY <2>1, <3>1, TipShowsItself
  <2> QED
    BY <2>1 DEF TipIsShown
<1> QED
  BY <1>1, DealsCards, PTL

-----------------------------------------------------------------------------
(* What Douniu assumes of a hand *)

ValsOf(h) == {card_val[h[i]] : i \in DOMAIN h}

\* The hands have what HandsAssumption of Douniu asks of a member of Hands:
\* every paival, of the highest card, of the tip or of five cards selected in
\* any way, ends with the value of a card of the hand; and two hands share no
\* value.
HandsFit ==
  /\ \A p \in Players : Full(cards[p]) =>
       LET hand == cards[p]
       IN  /\ ValsOf(hand) \subseteq 1..52
           /\ MaxVal(hand) \in ValsOf(hand)
           /\ BestPaival(hand) \in Nat /\ BestPaival(hand) % 100 \in ValsOf(hand)
           /\ \A sel \in [1..HandSize -> 1..HandSize] :
                LET five == Selected(hand, sel)
                IN  AddsUp(five) => /\ Paival(five) \in Nat
                                    /\ Paival(five) % 100 \in ValsOf(hand)
  /\ \A p, q \in Players :
       Full(cards[p]) /\ Full(cards[q]) /\ p # q =>
         ValsOf(cards[p]) \cap ValsOf(cards[q]) = {}

\* The highest card is a card of the hand.
LEMMA MaxValOfCard ==
  ASSUME NEW h, IsHand(h)
  PROVE  ValsOf(h) \subseteq 1..52 /\ MaxVal(h) \in ValsOf(h)
<1> DEFINE V == ValsOf(h)
           T == {0} \cup V
<1>1. ASSUME NEW i \in 1..5 PROVE card_val[h[i]] \in 1..52
  <2>1. h[i] \in AllCards
    BY DEF IsHand
  <2> QED
    BY <2>1, CardValues
<1>2. DOMAIN h = 1..5
  BY DEF IsHand
<1>3. V \subseteq 1..52
  BY <1>1, <1>2 DEF ValsOf
<1>4. card_val[h[1]] \in V /\ card_val[h[1]] > 0
  BY <1>1, <1>2 DEF ValsOf
<1>5. MaxVal(h) = CHOOSE x \in T : \A y \in T : x >= y
  BY DEF MaxVal, Max, ValsOf
<1> HIDE DEF V
<1>6. T \subseteq 0..52 /\ T # {}
  BY <1>3
<1>7. \E x \in T : \A y \in T : x >= y
  <2>1. PICK n \in Nat : n = 52
    OBVIOUS
  <2> HIDE DEF T
  <2> QED
    BY <1>6, <2>1, GreatestNatural
<1>8. MaxVal(h) \in T /\ \A y \in T : MaxVal(h) >= y
  <2> HIDE DEF T
  <2> QED
    BY <1>5, <1>7
<1>9. MaxVal(h) # 0
  <2>1. PICK v \in V : v > 0
    BY <1>4
  <2>2. MaxVal(h) >= v /\ v \in 1..52
    BY <1>3, <1>8, <2>1
  <2> QED
    BY <2>2
<1> QED
  BY <1>3, <1>8, <1>9 DEF V

\* A paival ends with the value of a card.
LEMMA PaivalEnds ==
  ASSUME NEW n \in Nat, NEW v \in 1..52
  PROVE  n * 100 + v \in Nat /\ (n * 100 + v) % 100 = v
OBVIOUS

\* No two cards have one value.
LEMMA ValuesApart ==
  ASSUME NEW c \in AllCards, NEW d \in AllCards, card_val[c] = card_val[d]
  PROVE  c = d
<1>1. c \in 1..52 /\ d \in 1..52
  BY DEF AllCards
<1>2. PICK m, n, s, t \in Int :
        /\ m = (c - 1) % 13 /\ n = (d - 1) % 13
        /\ s = (c - 1) \div 13 /\ t = (d - 1) \div 13
  BY <1>1
<1>3. s \in 0..3 /\ t \in 0..3 /\ c = 13 * s + m + 1 /\ d = 13 * t + n + 1
  BY <1>1, <1>2
<1>4. card_val[c] = 4 * m + s + 1 /\ card_val[d] = 4 * n + t + 1
  BY <1>1, <1>2 DEF card_val, card_num, AllCards
<1>5. 4 * m + s = 4 * n + t
  BY <1>2, <1>3, <1>4
<1> QED
  BY <1>2, <1>3, <1>5

\* The hands that are dealt are what the model of the rooms takes them for: one
\* that Douniu's assumption on Hands holds of, dealt the way Deals says.
THEOREM DealtHandsFit == Spec => []HandsFit
<1>1. ASSUME HandsOfCards, OneCopy PROVE HandsFit
  <2>1. ASSUME NEW p \in Players, Full(cards[p])
        PROVE  LET hand == cards[p]
               IN  /\ ValsOf(hand) \subseteq 1..52
                   /\ MaxVal(hand) \in ValsOf(hand)
                   /\ BestPaival(hand) \in Nat /\ BestPaival(hand) % 100 \in ValsOf(hand)
                   /\ \A sel \in [1..HandSize -> 1..HandSize] :
                        LET five == Selected(hand, sel)
                        IN  AddsUp(five) => /\ Paival(five) \in Nat
                                            /\ Paival(five) % 100 \in ValsOf(hand)
    <3>1. PICK hand : hand = cards[p]
      OBVIOUS
    <3>2. IsHand(hand) /\ HandSize = 5
      BY <1>1, <2>1, <3>1, FullIsHand
    <3>3. ValsOf(hand) \subseteq 1..52 /\ MaxVal(hand) \in ValsOf(hand)
      BY <3>2, MaxValOfCard
    <3>4. BestPaival(hand) \in Nat /\ BestPaival(hand) % 100 = MaxVal(hand)
      <4>1. BestPaixing(hand) \in Nat
        <5>1. CASE Special(hand)
          BY <5>1 DEF Special, BestPaixing
        <5>2. CASE ~Special(hand)
          BY <3>2, <5>2, BestOfPairs
        <5> QED
          BY <5>1, <5>2
      <4>2. MaxVal(hand) \in 1..52
        BY <3>3
      <4> QED
        BY <4>1, <4>2, PaivalEnds DEF BestPaival
    <3>5. ASSUME NEW sel \in [1..5 -> 1..5], AddsUp(Selected(hand, sel))
          PROVE  /\ Paival(Selected(hand, sel)) \in Nat
                 /\ Paival(Selected(hand, sel)) % 100 \in ValsOf(hand)
      <4>1. PICK five : five = Selected(hand, sel)
        OBVIOUS
      <4>2. five = [i \in 1..5 |-> hand[sel[i]]]
        BY <4>1 DEF Selected
      <4>3. IsHand(five) /\ DOMAIN hand = 1..5
        BY <3>2, <4>2 DEF IsHand
      <4>4. ValsOf(five) \subseteq ValsOf(hand)
        BY <4>2, <4>3 DEF ValsOf
      <4>5. MaxVal(five) \in ValsOf(five) /\ ValsOf(five) \subseteq 1..52
        BY <4>3, MaxValOfCard
      <4>6. Paixing(five) \in Nat
        <5>1. Score(five, 4..5) \in Int
          <6>1. PICK I : I = 4..5
            OBVIOUS
          <6>2. I \in SUBSET (1..5)
            BY <6>1
          <6> QED
            BY <4>3, <6>1, <6>2, ScoreParts
        <5> QED
          BY <5>1, BullValue DEF Paixing
      <4>7. Paival(five) \in Nat /\ Paival(five) % 100 = MaxVal(five)
        <5>1. MaxVal(five) \in 1..52
          BY <4>5
        <5> QED
          BY <4>6, <5>1, PaivalEnds DEF Paival
      <4> QED
        BY <4>1, <4>4, <4>5, <4>7
    <3> QED
      BY <3>1, <3>2, <3>3, <3>4, <3>5
  <2>2. ASSUME NEW p \in Players, NEW q \in Players,
               Full(cards[p]), Full(cards[q]), p # q
        PROVE  ValsOf(cards[p]) \cap ValsOf(cards[q]) = {}
    <3>1. PICK h, g : h = cards[p] /\ g = cards[q]
      OBVIOUS
    <3>2. IsHand(h) /\ IsHand(g)
      BY <1>1, <2>2, <3>1, FullIsHand
    <3>3. \A i \in 1..5 : h[i] \in AllCards /\ g[i] \in AllCards
      BY <3>2 DEF IsHand
    <3>4. ASSUME NEW i \in 1..5, NEW j \in 1..5 PROVE card_val[h[i]] # card_val[g[j]]
      <4>1. h[i] # g[j]
        BY <1>1, <2>2, <3>1, <3>2 DEF OneCopy, IsHand
      <4> QED
        BY <3>3, <4>1, ValuesApart
    <3> QED
      BY <3>1, <3>2, <3>4 DEF ValsOf, IsHand
  <2> QED
    BY <2>1, <2>2 DEF HandsFit
<1>2. Spec => []OneCopy
  BY DealPartitions, PTL
<1> QED
  BY <1>1, <1>2, DealsCards, PTL

=============================================================================
