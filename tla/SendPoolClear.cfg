CONSTANTS
  NumPackets = 3
  Writer = {w1, w2}
  Ex = TRUE
  MaxMsgs = 3
SPECIFICATION ClearingSpec
INVARIANT SentAsSubmitted
CHECK_DEADLOCK FALSE
