SPECIFICATION Spec
CONSTANTS
  MaxFd = 2
  Listener = Listener
  Nil = Nil
  Conns = {c1, c2}
  Link = Link
  MaxSessions = 2
  MaxPackets = 1
  MaxFailures = 2
INVARIANTS TypeOK RightClient OwnActor MasksAgree OwnEvents LinkIsOpen
SYMMETRY Symmetric
CHECK_DEADLOCK FALSE
