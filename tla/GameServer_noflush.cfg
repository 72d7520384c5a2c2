SPECIFICATION FairSpec
CONSTANTS
  NET_DATA_BUFSIZE = 6
  NET_DATA_MSG_BUFSIZE = 8
  COMPRESS_PACKET_SIZE = 4
  SizeofNET_COMPRESS = 2
  c1 = c1
  Clients = {c1}
  Sizes = {2}
  MaxFrames = 1
  FlushesOnUpdate = FALSE
PROPERTIES
  EchoReturns
