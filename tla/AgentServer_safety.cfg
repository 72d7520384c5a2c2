SPECIFICATION Spec
CONSTANTS
  c1 = c1
  c2 = c2
  Clients = {c1, c2}
  Users = {1, 2}
  VerifyCodes = {0, 1, 30, 31}
  MaxRequests = 4
SYMMETRY ClientSymmetry
CHECK_DEADLOCK FALSE
INVARIANTS
  TypeOK
  StateMatchesReplies
  LobbyBelongsToLogin
  PinAnsweredWhilePending
PROPERTIES
  StrangersChangeNothing
