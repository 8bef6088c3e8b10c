SPECIFICATION Spec
CONSTANTS
  Actors = {a1, a2, a3}
  NRooms = 2
  RoomType <- MCRoomType2
  MaxActor = 2
  Countdown <- MCCountdown
  Hands <- MCHands2
  Bids = {1}
  Ratios = {1}
  MinRatio = 1
  MinScore = 0
  Nil = Nil
PROPERTIES ImplementsTable EveryStateEnds
