SPECIFICATION Spec
CONSTANTS
  Delay = 2
  Hold = 2
  Price <- Jumps
  LastSession = 8
  Leaps = TRUE
  CrashBudget = 1
  MissBudget = 2
INVARIANT ExposureEnds
PROPERTY TradesAreOnTime
CHECK_DEADLOCK FALSE
