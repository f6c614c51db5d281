SPECIFICATION Spec
CONSTANTS
  Executor = {e}
  Reconciler = {r}
  Decisions = 2
  Orders = 2
  AllVuaa = {2}
  CrashBudget = 1
  None = None
INVARIANTS TypeOK PostedOnce BootstrapOnce ActiveIsFilled
PROPERTY ReconciledIsActive
CHECK_DEADLOCK FALSE
