SPECIFICATION MainFairSpec
CONSTANTS
  w1 = w1
  w2 = w2
  Workers = {w1, w2}
  MaxStarts = 2
  MaxSignals = 2
INVARIANTS
  MainTypeOK
  FirstLifeSerialized
  DatabaseOpenInHooks
  TimerChainsBounded
  ExitIsClean
PROPERTIES
  StopTerminates
  TickRecurs
  StopSignalExits
