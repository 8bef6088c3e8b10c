-------------------------------- MODULE Deal --------------------------------
(***************************************************************************)
(* The dealing of a round: the enter handler of QIANGZHUANG and            *)
(* random_cards, src/server/gamesrv/data/douniu/main.lua.                  *)
(*                                                                         *)
(* The handler serves the players one after the other; random_cards takes  *)
(* a card at a random index of card_list and moves the last card into the  *)
(* gap.  One draw is one step.  The handler runs in one piece: the steps   *)
(* between its first and its last draw are seen by nobody else.            *)
(***************************************************************************)
EXTENDS Integers, Sequences, SequencesExt

CONSTANTS
  Deck,      \* the 52 cards in the order the handler lists them
  NPlayers,  \* players of the round, in the order of the seats
  HandSize   \* 5

Players == 1..NPlayers

ASSUME DeckAssumption ==
  /\ NPlayers \in Nat
  /\ HandSize \in Nat
  /\ Deck \in Seq(Nat)
  /\ IsInjective(Deck)
  /\ Len(Deck) >= HandSize * NPlayers

VARIABLES
  card_list,  \* room.card_list: what is left of the deck
  cards       \* player.cards

vars == <<card_list, cards>>

Init ==
  /\ card_list = Deck
  /\ cards = [p \in Players |-> <<>>]

\* Mutants: the last card is cut off without filling the gap; the last card but
\* one fills it.
WithoutLast(list, idx) == SubSeq(list, 1, Len(list) - 1)

WithoutWrong(list, idx) ==
  [i \in 1..(Len(list) - 1) |-> IF i = idx THEN list[Len(list) - 1] ELSE list[i]]

\* card_list[idx] = card_list[#card_list]; card_list[#card_list] = nil
Without(list, idx) ==
  [i \in 1..(Len(list) - 1) |-> IF i = idx THEN list[Len(list)] ELSE list[i]]

\* One turn of the loop of random_cards: idx is math.random(1, #card_list).
Draw(p, idx) ==
  /\ Len(cards[p]) < HandSize
  /\ \A q \in 1..(p - 1) : Len(cards[q]) = HandSize
  /\ cards' = [cards EXCEPT ![p] = Append(@, card_list[idx])]
  /\ card_list' = Without(card_list, idx)

Next == \E p \in Players, idx \in DOMAIN card_list : Draw(p, idx)

Spec == Init /\ [][Next]_vars

-----------------------------------------------------------------------------
(* Properties *)

\* The list and the hands are sequences of cards; no hand is too long.
TypeOK ==
  /\ card_list \in Seq(Nat)
  /\ cards \in [Players -> Seq(Nat)]
  /\ \A p \in Players : Len(cards[p]) <= HandSize

\* No card is in two hands, twice in a hand, or in a hand and in the deck:
\* moving the last card into the gap (main.lua 243-244) neither leaves the drawn
\* card in the deck nor puts another into it twice.
OneCopy ==
  /\ \A i, j \in DOMAIN card_list : card_list[i] = card_list[j] => i = j
  /\ \A p, q \in Players : \A i \in DOMAIN cards[p], j \in DOMAIN cards[q] :
       cards[p][i] = cards[q][j] => p = q /\ i = j
  /\ \A p \in Players : \A i \in DOMAIN cards[p], j \in DOMAIN card_list :
       cards[p][i] # card_list[j]

\* The cards of the hands and of the deck are the cards there were: none is lost
\* from the deck before it is drawn.
NoneLost ==
  \A k \in DOMAIN Deck :
    \/ \E i \in DOMAIN card_list : card_list[i] = Deck[k]
    \/ \E p \in Players : \E i \in DOMAIN cards[p] : cards[p][i] = Deck[k]

=============================================================================
