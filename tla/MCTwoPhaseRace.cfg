SPECIFICATION Spec
CONSTANTS
  Proc = {p1, p2}
  SellLeg = {0, 1}
  BuyLeg = {2, 3}
  Qty = 1
  Estimate = 1
  Price = {1}
  OpeningCash = 0
  HistoryLag = TRUE
  CrashBudget = 1
  NoProc = NoProc
  NoLeg = NoLeg
SYMMETRY Symmetric
INVARIANTS TypeOK AtMostOneOrderPerLeg SellsFillBeforeBuys SubmissionInv ContractInv
PROPERTIES NoPostPastAnOrphan ImplementsContract
