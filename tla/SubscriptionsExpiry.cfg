SPECIFICATION Spec
CONSTANTS
  c1 = c1
  c2 = c2
  s1 = s1
  g1 = g1
  g2 = g2
  p1 = p1
  e1 = e1
  udp = udp
  tcp = tcp
  Client = {c1}
  Service = {s1}
  Group = {g1, g2}
  Port = {p1}
  Server = {e1}
  Protocol = {udp}
  Request <- TimingRequests
  Offer <- UdpOffers
  PendingLimit = 2
  MaxAge = 4
INVARIANT ExpiredAreRemoved
