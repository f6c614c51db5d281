SPECIFICATION Spec
CONSTANTS
  Delay = 2
  Hold = 4
  Price <- Closes
  LastSession = 11
  Leaps = FALSE
  CrashBudget = 1
  MissBudget = 0
INVARIANTS TypeOK FollowsSchedule EventsMatchJournal OpenEventsAreCurrent LegalMoves RefusesOnlyReentry TargetIsScheduled
CHECK_DEADLOCK FALSE
