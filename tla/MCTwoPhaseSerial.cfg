SPECIFICATION FairSpec
CONSTANTS
  Proc = {p1}
  SellLeg = {0, 1}
  BuyLeg = {2, 3}
  Qty = 2
  Estimate = 1
  Price = {1, 3}
  OpeningCash = 0
  HistoryLag = TRUE
  CrashBudget = 1
  NoProc = NoProc
  NoLeg = NoLeg
INVARIANTS RecoveryIsDefined CompleteIsReconciled
PROPERTIES ImplementsContract KnownOrdersStayKnown StoppedStaysStopped Settles
