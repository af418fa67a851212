SPECIFICATION FairSpec
CHECK_DEADLOCK FALSE
CONSTANTS
  Subs = {s1, s2}
  Filters <- MCFilters
  Names <- MCNames
  RetainNames <- MCRetain
  Sys <- MCSys
  Subscribers = {sub1, sub2}
  UnSubscribers = {uns1, uns2}
  Retainers = {ret}
  RetainKinds = {"keep", "qos0", "clear"}
  Racing <- MCRacing
  Together = {sub1, sub2, uns1, uns2}
  MaxOps = 4
  MaxNodes = 9
INVARIANTS
  StillThere
  Delivery
  RetainedFound


PROPERTIES
  RequestsEnd
