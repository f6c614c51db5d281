SPECIFICATION Spec
CONSTANTS
  Name = {1, 2, 3}
  Recovery = 9
  MaxValue = 3
  MaxCash = 3
  One = 4
  Key = {k1, k2}
  Amount <- MCAmount
  Refused = Refused
INVARIANTS ReserveIsLedger PlanIsSound
CHECK_DEADLOCK FALSE
