SPECIFICATION FairSpec
CHECK_DEADLOCK FALSE
CONSTANTS
  Listeners = {l1, l2}
  WsPorts = {w1}
  Size = 3
  Spawn = 2
  QueueSize = 1
  MaxClients = 1
  Temporary = TRUE
INVARIANTS
  ShutdownOrder
PROPERTIES
  ClientServed
  ShutdownProceeds
