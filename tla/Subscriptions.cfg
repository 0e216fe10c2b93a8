SPECIFICATION EventSpec
CONSTANTS
  c1 = c1
  c2 = c2
  s1 = s1
  g1 = g1
  g2 = g2
  p1 = p1
  e1 = e1
  v1 = v1
  udp = udp
  tcp = tcp
  Client = {c1, c2}
  Service = {s1}
  Group = {g1}
  Port = {p1}
  Server = {e1}
  Protocol = {udp, tcp}
  Request <- MixedRequests
  Offer <- UdpOffers
  IdOf <- OneId
  Event = {v1}
  EventsOf <- OneEvent
  PendingLimit = 1
  MaxAge = 3
SYMMETRY ClientSymmetry
INVARIANTS
  TypeOK
  OrphansWereAbandoned
  WithinTimeToLive
  ActiveIsNotStopped
  ToldOnlyIfAsked
  GotOnlyIfAsked
  NothingAfterStop
  RenewalsDoNotMultiply
PROPERTY EarlyEndIsAnnounced
