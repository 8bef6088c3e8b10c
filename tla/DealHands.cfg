SPECIFICATION Spec
CONSTANTS
  Deck <- MCDeck
  NPlayers = 1
  HandSize = 5
INVARIANTS OneCopy NoneLost TipIsBest TipIsShown
CHECK_DEADLOCK FALSE
