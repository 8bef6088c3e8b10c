------------------------------- MODULE Cards --------------------------------
(***************************************************************************)
(* The evaluation of a hand: src/server/gamesrv/data/douniu/main.lua,      *)
(* lines 65-234.  A card is an index 1..52 into the tables card_val,       *)
(* card_num and card_score; a hand is a sequence of five cards.            *)
(***************************************************************************)
EXTENDS Integers, Sequences, FiniteSets, FiniteSetsExt

AllCards == 1..52

\* Four suits of thirteen; 10, J, Q and K count ten; the value orders the
\* deck by number first and suit second.
card_num   == [c \in AllCards |-> ((c - 1) % 13) + 1]
card_score == [c \in AllCards |-> IF card_num[c] > 10 THEN 10 ELSE card_num[c]]
card_val   == [c \in AllCards |-> 4 * (card_num[c] - 1) + ((c - 1) \div 13) + 1]

MaxVal(hand) == Max({0} \cup {card_val[hand[i]] : i \in DOMAIN hand})

Score(hand, I) == MapThenSumSet(LAMBDA i : card_score[hand[i]], I)

\* The bull of two cards whose other three make a multiple of ten.
Bull(total) == IF total % 10 = 0 THEN 10 ELSE total % 10

-----------------------------------------------------------------------------
(* cal_card_paixing: the first three cards must make a multiple of ten.
   Its two results; a hand that does not add up returns one result only, and
   the second is nil. *)

AddsUp(hand) == Score(hand, 1..3) % 10 = 0

Paixing(hand) == IF AddsUp(hand) THEN Bull(Score(hand, 4..5)) ELSE 0

Paival(hand) == Paixing(hand) * 100 + MaxVal(hand)

-----------------------------------------------------------------------------
(* cal_best_card_paixing *)

\* Five small: every card below five and less than ten in all.
FiveSmall(hand) ==
  /\ \A i \in DOMAIN hand : card_num[hand[i]] < 5
  /\ MapThenSumSet(LAMBDA i : card_num[hand[i]], DOMAIN hand) < 10

\* Four of a kind, as the code looks for it: for EVERY card left out, the
\* others are of one number.
FourBomb(hand) ==
  \A i, j, k \in DOMAIN hand :
    i \notin {j, k} => card_num[hand[j]] = card_num[hand[k]]

FiveFaces(hand) == \A i \in DOMAIN hand : card_num[hand[i]] > 10

\* Mutant: the second loop stops before the last card.
PairsOfFour(hand) ==
  {p \in SUBSET (1..(Len(hand) - 1)) :
     /\ Cardinality(p) = 2
     /\ Score(hand, DOMAIN hand \ p) % 10 = 0}

\* The pairs whose other three cards make a multiple of ten.
Pairs(hand) ==
  {p \in SUBSET DOMAIN hand :
     /\ Cardinality(p) = 2
     /\ Score(hand, DOMAIN hand \ p) % 10 = 0}

\* The elements of a set of numbers in rising order.
InOrder(S) ==
  CHOOSE f \in [1..Cardinality(S) -> S] :
    \A i, j \in DOMAIN f : i < j => f[i] < f[j]

\* The other cards first and the pair p last, both in the order of the hand.
Arranged(hand, p) ==
  LET order == InOrder(DOMAIN hand \ p) \o InOrder(p)
  IN  [i \in DOMAIN hand |-> hand[order[i]]]

\* The pair the two loops find first; a later one would have to score more.
FirstBest(hand) ==
  LET best == {p \in Pairs(hand) :
                 \A q \in Pairs(hand) :
                   Bull(Score(hand, p)) >= Bull(Score(hand, q))}
  IN  CHOOSE p \in best :
        \A q \in best :
          \/ Min(p) < Min(q)
          \/ Min(p) = Min(q) /\ Max(p) <= Max(q)

Special(hand) == FiveSmall(hand) \/ FourBomb(hand) \/ FiveFaces(hand)

BestPaixing(hand) ==
  IF FiveSmall(hand) THEN 13
  ELSE IF FourBomb(hand) THEN 12
  ELSE IF FiveFaces(hand) THEN 11
  ELSE Max({0} \cup {Bull(Score(hand, p)) : p \in Pairs(hand)})

BestPaival(hand) == BestPaixing(hand) * 100 + MaxVal(hand)

\* Mutant: the cards are not rearranged.
BestSetAsDealt(hand) == hand

\* The third result: the cards as they are shown.
BestSet(hand) ==
  IF Special(hand) \/ Pairs(hand) = {} THEN hand
  ELSE Arranged(hand, FirstBest(hand))

-----------------------------------------------------------------------------
(* MSG_XUANPAI: the cards an actor selects, by position *)

Selected(hand, sel) == [i \in DOMAIN sel |-> hand[sel[i]]]

=============================================================================
