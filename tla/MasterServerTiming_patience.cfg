\* The clock does not wrap: pings are spaced, and silence is what drops a server.
CONSTANTS
  a = a  b = b  NULL = NULL
  IP = {a, b}
  Port = {1, 9}
  String = {}
  PingTime <- NotConnected
  NetworkPacket <- TwoServers
  NUMBER_OF_MISSED_PINGS_TO_DROP = 2
  KEEP_ALIVE_PING_FREQUENCY = 2
  ExportPeriod = 1
  TimeRange = 32
  Horizon = 6
  MaxDelay = 2
  MaxQueue = 1
  MaxID = 2
SPECIFICATION TimingSpec
PROPERTIES
  DroppedOnlyAfterPatience
  PingedOncePerPeriod
