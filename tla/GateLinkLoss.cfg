CONSTANTS
  NumSlots = 2
  Fd = {f1, f2}
  NoFd = NoFd
  MaxConns = 2
  MaxQueue = 1
  Closers = {}
  EarlyLeave = TRUE
  LinkMayFail = TRUE
SPECIFICATION LinkSpec
SYMMETRY FdSymmetry
INVARIANTS SocketOwned LossSparesOne NoCrossTalk
CHECK_DEADLOCK FALSE
