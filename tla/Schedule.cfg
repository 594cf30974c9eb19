CONSTANTS
  x = x
  y = y
  z = z
  image = image
  video = video
  Scopes = {x, y, z}
  KindOf <- MCKindOf
  PriorityOf <- MCPriorityOf
  MaxExecs = 3
  MaxLeases = 2
  MaxClock = 1
  MaxCrashes = 1
  MaxFailures = 2
SPECIFICATION Spec
INVARIANT CacheIsLedger
PROPERTY ImplementsSchedule
CHECK_DEADLOCK FALSE
