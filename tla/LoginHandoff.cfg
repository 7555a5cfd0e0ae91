CONSTANTS
  a1 = a1
  a2 = a2
  c1 = c1
  c2 = c2
  Account = {a1, a2}
  NoAccount = NoAccount
  Character = {c1, c2}
  NoChar = NoChar
  Owner <- OwnerB
  Picks <- PicksB
  Fd = {f1, f2}
  NoFd = NoFd
  MaxActors = 2
  MaxConns = 2
  MaxLogins = 2
  GateMayFail = TRUE
SYMMETRY FdSymmetry
SPECIFICATION Spec
INVARIANTS TypeOK OneActorWhenCalm OneActorPerCharacter   
CHECK_DEADLOCK FALSE
