SPECIFICATION FairSpec
CONSTANTS
  SendQuota = 2
  MaxID = 4
INVARIANT ReceiveMaximum
PROPERTY FreshId
PROPERTY AcquireEnds
