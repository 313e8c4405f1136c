\* Three messages, a window of as many, over a network that loses and reorders frames.
CONSTANTS
  client = client  server = server
  Peer = {client, server}
  Messages <- Requests
  PacketNumberRange = 16
  OrderingIndexRange = 8
  FrameSize = 2
  MINIMUM_WINDOW_SIZE = 3
  MAXIMUM_WINDOW_SIZE = 4
  TIMEOUT_TIME = 2
  LostPacketResendDelay = 1
  FrameLife = 1
  StartTime = 2
SPECIFICATION FairSpec
PROPERTIES
  ImplementsOrderedChannel
  ReliableUntilTimeout
  AcknowledgedOrDead
