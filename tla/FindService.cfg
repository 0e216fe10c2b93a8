SPECIFICATION Spec
CONSTANTS
  t1 = t1
  t2 = t2
  s1 = s1
  s2 = s2
  Task = {t1, t2}
  Remote = {s1}
  Local = {s2}
  Matches <- TwoFinds
  Attempts = 2
  MaxPushes = 1
INVARIANTS
  TypeOK
  NobodyIsForgotten
  AnswersAreOwn
PROPERTY EveryFindReturns
CHECK_DEADLOCK FALSE
