CONSTANTS
  client = client
  server = server
  Peers = {client, server}
  Targets <- ToTheServer
  MaxIncoming = 1
  ListSize = 2
  MaxRequests = 1
  MaxLate = 2
  MaxCalls = 3
SPECIFICATION Spec
INVARIANTS
  UserKnowsConnections
PROPERTIES
  EndsAreTold
  ConnectsAreAnswered
  HalfOpenEnds
CHECK_DEADLOCK FALSE
