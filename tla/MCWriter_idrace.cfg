SPECIFICATION Spec
CONSTANTS
  m1 = m1
  m2 = m2
  m3 = m3
  Msgs <- PairMsgs
  Class <- PairClass
  TooBig = {}
  Expirable = {}
  Rejects = FALSE
  OfflineQoS0 = TRUE
  SendQuota = 2
  MaxID = 3
  MaxConn = 2
  LastFails = FALSE
  Senders = {s1}
INVARIANT NoMessageLost
CHECK_DEADLOCK FALSE
