SPECIFICATION Spec
CONSTANTS
  Actors = {a1, a2, a3}
  NRooms = 1
  RoomType <- MCRoomType1
  MaxActor = 3
  Countdown <- MCCountdown
  Hands <- MCThinHands
  Bids = {0, 1}
  Ratios = {1}
  MinRatio = 1
  MinScore = 1
  Nil = Nil
SYMMETRY Symmetric
INVARIANTS TypeOK SeatsMatch LoneActor StallOnlyAt OneMaster Equipped WinnerIsBest
PROPERTY ScoresBalance
VIEW NoOldScores
