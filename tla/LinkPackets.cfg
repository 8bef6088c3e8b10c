SPECIFICATION Spec
CONSTANTS
  gate = gate
  db = db
  b1 = b1
  b2 = b2
  b3 = b3
  Sockets = {gate, db}
  Blocks = {b1, b2, b3}
  BufSize <- MCBufSize
  Nil = Nil
  Base = 3
  Careless = {gate}
  Lengths = {3, 7, 9}
  RecvSize <- MCRecvSize
  KernelSize = 2
  MaxPackets = 3
  MaxBreaks = 1
INVARIANTS OneOwner NoLeak SpoiltByLeftovers PendingIsArmed QuietIsDelivered
PROPERTY ImplementsPacketQueue
CHECK_DEADLOCK FALSE
