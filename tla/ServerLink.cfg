CONSTANTS
  NumPackets = 2
  Writer = {w1, w2}
  Ex = FALSE
  MaxMsgs = 3
  MsgLen = 2
  MaxConns = 2
SPECIFICATION FairSpec
INVARIANTS TypeOK OneHome SentAsSubmitted OnlyWhole
PROPERTIES ImplementsChannel Drains
CHECK_DEADLOCK FALSE
