------------------------------- MODULE MCDeal -------------------------------
(* A small deck for Deal. *)
EXTENDS DealtHands

\* An ace, a two, an eight, a nine and five faces.
MCDeck == <<1, 2, 8, 9, 11, 24, 12, 13, 26>>

=============================================================================
