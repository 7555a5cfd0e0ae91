CONSTANTS
  p = p
  q = q
  basic = basic
  bag = bag
  guild = guild
  Actor = {p, q}
  NoActor = NoActor
  Type = {basic, bag, guild}
  Direct = {bag}
  Late = {guild}
  Parts <- PartsOfTwo
  MaxSaves <- SavesOfEach
  MaxQueue = 1
  SavesTakeLong = TRUE
SPECIFICATION FairSpec
INVARIANTS TypeOK
PROPERTIES ImplementsStore ComesBackAsItLeft WrittenInTheEnd
CHECK_DEADLOCK FALSE
