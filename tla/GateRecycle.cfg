CONSTANTS
  NumSlots = 1
  Fd = {f1}
  NoFd = NoFd
  MaxConns = 2
  MaxQueue = 1
  Closers = {"select", "process", "dispatch"}
  EarlyLeave = FALSE
  LinkMayFail = FALSE
SPECIFICATION FairLinkSpec
INVARIANTS
  TypeOK
  NotBeforeInit
  VerifyHolds
  
PROPERTIES
  SlotComesBack
CHECK_DEADLOCK FALSE
