SPECIFICATION FairSpec
CONSTANTS
  Conns = {c1, c2, c3, c4}
  None = None
  Kinds <- PersistentOnly
  Ops = {"subscribe", "disconnect"}
  Established = c1
  SessionPreempt = {TRUE, FALSE}
  AckFails = FALSE
  StoreFails = FALSE
  Shutdown = TRUE
CHECK_DEADLOCK FALSE
INVARIANTS IdLocked CurrentSession SubscriptionsSurvive OneOnline StopsConnections
PROPERTY Answered
