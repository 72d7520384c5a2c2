SPECIFICATION FairSpec
CONSTANTS
  NET_DATA_BUFSIZE = 6
  NET_DATA_MSG_BUFSIZE = 8
  COMPRESS_PACKET_SIZE = 4
  SizeofNET_COMPRESS = 2
  c1 = c1
  c2 = c2
  Clients = {c1, c2}
  Sizes = {2, 7}
  MaxFrames = 2
  FlushesOnUpdate = TRUE
INVARIANTS
  TypeOK
  FramesConserved
PROPERTIES
  ImplementsEcho
  ClosedIsForgotten
