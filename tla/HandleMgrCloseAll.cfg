CONSTANTS
  ONE_CHUNK_COUNT = 2
  MAX_INDEX = 3
  MAX_MAGIC = 3
  INVALID_INDEX = 4
  MaxHandles = 5
SPECIFICATION Spec
INVARIANT CloseAllClosesEveryActor
CHECK_DEADLOCK FALSE
