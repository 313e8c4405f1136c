\* One client, its uploads and the connections it loses, while a player asks for it.
CONSTANTS
  a = a  player = player  n1 = n1  NULL = NULL
  IP = {a, player}
  Port = {1, 8, 9}
  String = {n1}
  PingTime <- NotConnected
  NetworkPacket <- Packets
  NUMBER_OF_MISSED_PINGS_TO_DROP = 1
  KEEP_ALIVE_PING_FREQUENCY = 1
  ExportPeriod = 8
  TimeRange = 16
  Horizon = 3
  MaxDelay = 1
  MaxQueue = 1
  MaxID = 3
  Host = {a}
  GamePort = 1
  ClientPort = {9}
  Name = {n1}
  MaxChannel = 2
SPECIFICATION RegistrySpec
INVARIANTS
  UploadsArrive
  ListingIsUpToDate
