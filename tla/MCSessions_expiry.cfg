SPECIFICATION Spec
CONSTANTS
  Conns = {c1, c2}
  None = None
  Kinds <- AllKinds
  Ops = {"subscribe", "disconnect", "unsubscribe"}
  Established = None
  SessionPreempt = {TRUE}
  AckFails = TRUE
  StoreFails = TRUE
  Shutdown = TRUE
CHECK_DEADLOCK FALSE
INVARIANTS Accounting
