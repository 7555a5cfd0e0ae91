CONSTANTS
  p1 = p1
  p2 = p2
  p3 = p3
  c1 = c1
  c2 = c2
  SmallBag = 1
  Player = {p1, p2, p3}
  Nobody = Nobody
  Cell = {c1, c2}
  NoCell = NoCell
  MaxDealItemCount = 2
  BagSize <- BagSizesMC
  Spare = 0
  MaxCount = 2
  MaxMoney = 2
  DuesRate = 5
  MinItemCount = 0
  Busy = {p1}
  InitBag <- BagsMC
  InitCount <- CountsMC
  InitMoney <- MoneyMC
SPECIFICATION Spec
INVARIANTS TypeOK PartnersAgree NoItemDoubled
PROPERTIES ImplementsBarter
CHECK_DEADLOCK FALSE
