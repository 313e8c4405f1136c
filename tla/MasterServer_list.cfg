\* Three servers on two hosts, one with rules of every kind; the clock does not wrap.
CONSTANTS
  a = a  b = b  named = named  NULL = NULL
  IP = {a, b}
  Port = {1, 2, 9}
  String = {named}
  PingTime <- NotConnected
  NetworkPacket <- ThreeServers
  NUMBER_OF_MISSED_PINGS_TO_DROP = 2
  KEEP_ALIVE_PING_FREQUENCY = 1
  ExportPeriod = 2
  TimeRange = 16
  Horizon = 4
  MaxDelay = 1
  MaxQueue = 1
  MaxID = 3
SPECIFICATION Spec
INVARIANTS
  TypeOK
  RowsBelongToListedServers
  StringXorInt
  DefaultRulesAreKept
PROPERTIES
  RowsGoWithServers
  ImplementsListing
