SPECIFICATION FairSpec
CONSTANTS
  a1 = a1
  a2 = a2
  i1 = i1
  i2 = i2
  k1 = k1
  p1 = p1
  p2 = p2
  App = {a1}
  Instance = {i1}
  Key = {k1}
  Port = {p1, p2}
  AppOf <- OneInstance
  KeyOf <- ItsKey
  PortOf <- ItsPort
  MaxCalls <- TwoCalls
  MaxRestarts <- NeverRestarted
PROPERTY TimeoutMeansUnanswered
CHECK_DEADLOCK FALSE
