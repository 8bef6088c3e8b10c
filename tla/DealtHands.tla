----------------------------- MODULE DealtHands -----------------------------
(* What the hands that Deal deals are worth: Deal and Cards together. *)
EXTENDS Deal, Cards

\* card_list holds the indices of the card tables, and a hand five of them.
ASSUME CardsAssumption ==
  /\ Deck \in Seq(AllCards)
  /\ HandSize = 5

Full(hand) == Len(hand) = HandSize

\* The orders in which a hand's five cards can be selected: every position once.
Ways == {sel \in [1..HandSize -> 1..HandSize] : IsInjective(sel)}

\* Nobody who takes the tip (MSG_XUANPAI_TIP, cal_best_card_paixing) gets less
\* than he would for his five cards in whatever order he selected them himself
\* (MSG_XUANPAI, cal_card_paixing).  The handler takes a position as often as the
\* message names it (msg.lua 316-318); one card several times is not one of Ways.
TipIsBest ==
  \A p \in Players : Full(cards[p]) =>
    LET best == BestPaival(cards[p])
    IN  \A sel \in Ways :
          LET shown == Selected(cards[p], sel)
          IN  AddsUp(shown) => Paival(shown) <= best

\* The cards shown with a tip prove it: cal_card_paixing of the arrangement
\* cal_best_card_paixing returns gives the same paixing; and whichever three
\* cards were left out, the bull is what all five cards are worth.
TipIsShown ==
  \A p \in Players : Full(cards[p]) /\ ~Special(cards[p]) =>
    /\ Paixing(BestSet(cards[p])) = BestPaixing(cards[p])
    /\ BestPaixing(cards[p]) \in {0, Bull(Score(cards[p], 1..HandSize))}

=============================================================================
