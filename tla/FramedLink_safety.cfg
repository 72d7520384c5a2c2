SPECIFICATION Spec
CONSTANTS
  NET_DATA_BUFSIZE = 6
  NET_DATA_MSG_BUFSIZE = 9
  COMPRESS_PACKET_SIZE = 5
  SizeofNET_COMPRESS = 3
  kHeaderSize = 2
  kMaxMessageSize = 12
  Sizes = {2, 4, 6, 12}
  BadFrames <- MalformedFrames
  MaxMessages = 3
INVARIANTS
  TypeOK
  InOrder
  NothingCompleteWaits
  AllDelivered
  OwnFramesAreAccepted
