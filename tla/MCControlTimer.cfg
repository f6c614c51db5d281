SPECIFICATION FairSpec
CONSTANTS
  Proc = {p1, p2}
  Timer = {p1, p2}
  Top2 = {s1, s2}
  Rung = {0, 1, 2}
  Quotes = {q1}
  Batches = {1, 2}
  LastDay = 2
  LastMonth = 2
  CrashBudget = 1
  NoProc = NoProc
  NoMember = NoMember
INVARIANTS TypeOK ControlMatchesHoldings OneUnpromoted
PROPERTIES PlansAreFresh Converges
