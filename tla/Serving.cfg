SPECIFICATION FairSpec
CONSTANTS
  Service <- MCService
  Request <- MCRequest
  TcpPort = 1
  RequestSize = 4
  ResponseSize = 4
  MaxServers = 2
  MaxBreaks = 2
INVARIANTS TypeOK AnsweredFromWhereAsked
PROPERTIES ImplementsRemoteService 
CHECK_DEADLOCK FALSE
