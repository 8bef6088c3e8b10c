------------------------------ MODULE MCDouniu ------------------------------
(* Small instances of Douniu: hands of the real deck, evaluated by Cards. *)
EXTENDS Douniu, Sequences, TLC

C == INSTANCE Cards

\* Two selections clients may send: the cards in order, and one in which a card
\* is chosen twice.
Selections == {<<1, 2, 3, 4, 5>>, <<1, 1, 2, 4, 5>>}

HandOf(cards) ==
  [vals    |-> {C!card_val[cards[i]] : i \in DOMAIN cards},
   max_val |-> C!MaxVal(cards),
   best    |-> C!BestPaival(cards),
   picks   |-> {LET s == C!Selected(cards, sel)
                IN  IF C!AddsUp(s) THEN C!Paival(s) ELSE Nil
                  : sel \in Selections}]

\* 4 6 10 3 A (niu 4) and 2 7 9 Q K (no niu with K high): disjoint.
MCHands2 == {HandOf(<<4, 6, 10, 16, 27>>), HandOf(<<2, 7, 22, 38, 52>>)}
\* and 5 5 10 8 J
MCHands3 == MCHands2 \cup {HandOf(<<5, 18, 49, 8, 24>>)}

\* One way to choose is left of each hand, and one hand may be chosen badly.
MCThinHands ==
  {[h EXCEPT !.best = h.max_val,
             !.picks = IF \A g \in MCHands3 : g.max_val <= h.max_val
                       THEN {Nil} ELSE {}] : h \in MCHands3}

MCCountdown == [s \in States |-> IF s = NULL THEN 0 ELSE 1]
MCCountdown2 == [s \in States |-> IF s = NULL THEN 0 ELSE 2]

MCRoomType1 == <<1>>
MCRoomType2 == <<1, 1>>

Symmetric == Permutations(Actors)

\* No handler reads a score, and a settlement replaces the winner's and those
\* of the players who are not the master.  States that differ in another score,
\* left from an earlier round, have the same future and are visited once.
Announced ==
  {a \in Actors : /\ player[a] # Nil /\ room[player[a].room].state = JIESUAN
                  /\ player[a].member = PLAYER \/ player[a].is_winner}
NoOldScores ==
  <<room, player_list, player, [a \in Announced |-> score[a]], ok, updating>>
=============================================================================
