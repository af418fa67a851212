SPECIFICATION FairSpec
CHECK_DEADLOCK FALSE
CONSTANTS
  Connects <- AllConnects
  MaxPublish = 3
  MaxBuffer = 1
INVARIANTS
  SignalledOnce
  StopCompletes
  CollectedQuietly
  NoNilWriter

  
