SPECIFICATION Spec
CONSTANTS
  s1 = s1
  s2 = s2
  s3 = s3
  Service = {s1, s2, s3}
  EndpointsOf <- ThreeEndpoints
  OfferTtl <- OfferTimes
  Client <- BothProtocols
  Remote = {s1}
  Ttl = {1}
  MaxTtl = 2
  MaxSession = 2
  MaxIndex = 1
  PeerEntries <- PeerMessages
INVARIANTS
  TypeOK
  MeaningIsKept
  MessagesAreAccepted
  NoFalseReboot
