SPECIFICATION Spec
CONSTANTS
  a1 = a1
  a2 = a2
  g1 = g1
  g2 = g2
  p1 = p1
  p2 = p2
  App = {a1, a2}
  Group = {g1, g2}
  Peer = {p1, p2}
  GroupsOf <- GroupsOfTwo
  Wanted <- WantedByTwo
  Lifetime <- Lifetimes
  Forever = 3
  MaxTime = 3
INVARIANTS
  TypeOK
  SubscribedReceive
  OnlySubscribersReceive
  OneCopyPerSubscription
  RenewalIsKnown
