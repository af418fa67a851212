SPECIFICATION Spec
CONSTANTS
  m1 = m1
  m2 = m2
  m3 = m3
  Msgs <- MixMsgs
  Class <- DropClass
  TooBig = {m3}
  Expirable = {m1}
  Rejects = TRUE
  OfflineQoS0 = TRUE
  SendQuota = 2
  MaxID = 3
  MaxConn = 2
  LastFails = FALSE
  Senders = {s1}
INVARIANTS
  NoMessageLost
  InOrder
PROPERTIES
  FlowRefined
CHECK_DEADLOCK FALSE
