SPECIFICATION FairSpec
CONSTANTS
  m1 = m1  m2 = m2  m3 = m3  t1 = t1  t2 = t2
  Msgs = {m1, m2, m3}
  QoS <- Mixed
  Topic <- TwoTopics
  Writable = {t1, t2}
  Ids = {1, 2}
  Aliases = {1}
  MaxRxTopicAlias = 1
  ReceiveMax = 2
  Versions = {4, 5}
  MaxDrops = 2
  MaxChannel = 2
  None = None
CHECK_DEADLOCK FALSE
INVARIANTS NotExceeded AtMostOnce RightTopic
PROPERTIES AtLeastOnce
