SPECIFICATION Spec
CONSTANTS
  Actors = {a1, a2, a3}
  NRooms = 1
  RoomType <- MCRoomType1
  MaxActor = 3
  Countdown <- MCCountdown
  Hands <- MCHands3
  Bids = {0, 1}
  Ratios = {1}
  MinRatio = 1
  MinScore = 0
  Nil = Nil
PROPERTY TimeoutPicksMaster
