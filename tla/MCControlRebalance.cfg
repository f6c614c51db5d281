SPECIFICATION FairSpec
CONSTANTS
  Proc = {p1}
  Timer = {p1}
  Top2 = {s1, s2}
  Rung = {0, 1}
  Quotes = {q1}
  Batches = {1}
  LastDay = 0
  LastMonth = 2
  CrashBudget = 0
  NoProc = NoProc
  NoMember = NoMember
PROPERTY CompletedIsPromoted
