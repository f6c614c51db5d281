SPECIFICATION Spec
CONSTANTS
  Delay = 1
  Hold = 3
  Price <- Closes
  LastSession = 8
  Leaps = FALSE
  CrashBudget = 1
  MissBudget = 0
INVARIANT ReplayRepairs
CHECK_DEADLOCK FALSE
