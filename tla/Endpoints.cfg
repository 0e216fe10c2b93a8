SPECIFICATION Spec
CONSTANTS
  c1 = c1
  c2 = c2
  p1 = p1
  p2 = p2
  d1 = d1
  d2 = d2
  s1 = s1
  s2 = s2
  s3 = s3
  s4 = s4
  s5 = s5
  AnyPort = AnyPort
  Client = {c1, c2}
  Port = {p1, p2}
  OwnPort = {p1, AnyPort}
  Delay = {d1, d2}
  SocketId = {s1, s2, s3, s4, s5}
  Offer <- SharedPort
  MaxAnyPort = 1
SYMMETRY Symmetry
INVARIANTS
  TypeOK
  StoredAreOpen
  NoSocketLost
  TimersMatchOffers
  ClosedServesNothing
PROPERTY ClosingSparesHolders
