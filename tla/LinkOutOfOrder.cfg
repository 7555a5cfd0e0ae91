CONSTANTS
  NumPackets = 3
  Writer = {w1}
  Ex = FALSE
  MaxMsgs = 3
  MsgLen = 2
  MaxConns = 2
SPECIFICATION Spec
INVARIANT HandledInOrder
CHECK_DEADLOCK FALSE
