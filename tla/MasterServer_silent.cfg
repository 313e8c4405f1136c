\* The clock wraps; silent servers still leave the list.
CONSTANTS
  a = a  b = b  named = named  NULL = NULL
  IP = {a, b}
  Port = {1, 9}
  String = {named}
  PingTime <- NotConnected
  NetworkPacket <- TwoServers
  NUMBER_OF_MISSED_PINGS_TO_DROP = 2
  KEEP_ALIVE_PING_FREQUENCY = 1
  ExportPeriod = 2
  TimeRange = 3
  Horizon = 4
  MaxDelay = 1
  MaxQueue = 1
  MaxID = 3
SPECIFICATION FairSpec
PROPERTY SilentServersAreDropped
