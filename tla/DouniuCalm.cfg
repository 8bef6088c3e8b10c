SPECIFICATION CalmSpec
CONSTANTS
  Actors = {a1, a2, a3}
  NRooms = 1
  RoomType <- MCRoomType1
  MaxActor = 3
  Countdown <- MCCountdown2
  Hands <- MCThinHands
  Bids = {1}
  Ratios = {1, 3}
  MinRatio = 1
  MinScore = 1
  Nil = Nil
PROPERTIES BetsKept RoundsSettle ScoresBalance
VIEW NoOldScores
