SPECIFICATION Spec
CONSTANTS
  NET_DATA_BUFSIZE = 6
  NET_DATA_MSG_BUFSIZE = 8
  COMPRESS_PACKET_SIZE = 4
  SizeofNET_COMPRESS = 2
  Sizes = {2, 5, 7}
  MaxReplies = 2
  MaxSends = 1
INVARIANTS
  OnCloseInvokedOnce
