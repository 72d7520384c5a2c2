SPECIFICATION Spec
CONSTANTS
  DigitBits = 2
  WordBytes = 2
  Rounds = 2
  MAGIC_P = 183
  MAGIC_Q = 159
  Key <- SmallKey
  Clients = {c1, c2}
  Messages <- SmallMessages
  GOODKEY <- GoodKey
  NewSuffix <- Suffix
  AUTH_DATA_LENGTH = 44
  MAX_IP_LENGTH = 3
  MaxMessages = 2
SYMMETRY ClientSymmetry
CHECK_DEADLOCK FALSE
INVARIANTS
  TypeOK
  EveryRequestAnswered
  AnswerReadsBack
  CertifiedByOwnKey
