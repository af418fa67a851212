CONSTANTS
  Ids = {c1}
  Names = {"a", "b", "$s"}
  Sys = {"$s"}
  Filters = {"a"}
  None = None
  Plan <- MCPlan
  Publishers = {p1, p2}
  ChanSize = 1
  Kinds <- MCKinds
  MaxStarts = 2
  MaxEvents = 4
SPECIFICATION Spec
INVARIANTS Accounted DeliveredOnce SessionSurvives RetainedKept
PROPERTIES StartEnds ShutdownCompletes
CHECK_DEADLOCK FALSE
