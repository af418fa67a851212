SPECIFICATION FairSpec
CONSTANTS
  m1 = m1
  m2 = m2
  m3 = m3
  Msgs <- MixMsgs
  Class <- MixClass
  TooBig = {}
  Expirable = {}
  Rejects = FALSE
  OfflineQoS0 = TRUE
  SendQuota = 1
  MaxID = 1
  MaxConn = 1
  LastFails = FALSE
  Senders = {s1}
INVARIANTS
  SingleWriter
  NoLostWakeup
PROPERTIES
  AtLeastOnce
CHECK_DEADLOCK FALSE
