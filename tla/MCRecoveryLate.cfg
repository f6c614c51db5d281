SPECIFICATION Spec
CONSTANTS
  Delay = 1
  Hold = 3
  Price <- Closes
  LastSession = 8
  Leaps = FALSE
  CrashBudget = 0
  MissBudget = 0
INVARIANT LateEventsAreDiscarded
CHECK_DEADLOCK FALSE
