SPECIFICATION FairSpec
CONSTANTS
  Proc = {p1}
  Order = {1, 2}
  Qty = 2
  Impact <- MCImpact
  OpeningCash <- MCOpeningCash
  PageSize = 2
  MaxPages = 2
  OtherFills = 1
  FaultBudget = 1
  Other = 0
INVARIANTS TypeOK BooksBalance BookedOnce ReadIsComplete FilledIsBooked
PROPERTY FillsGetBooked
CHECK_DEADLOCK FALSE
