SPECIFICATION Spec
CONSTANTS
  a1 = a1
  a2 = a2
  i1 = i1
  i2 = i2
  k1 = k1
  p1 = p1
  p2 = p2
  App = {a1, a2}
  Instance = {i1, i2}
  Key = {k1}
  Port = {p1, p2}
  AppOf <- TwoApps
  KeyOf <- OneKey
  PortOf <- OwnPorts
  MaxCalls <- CallsOfTwoApps
  MaxRestarts <- RestartsOfTwoApps
INVARIANTS
  TypeOK
  WaitingIsTracked
  OnlyLateAnswersDeafen
PROPERTIES
  ImplementsRemoteCall
CHECK_DEADLOCK FALSE
