SPECIFICATION FairSpec
CONSTANTS
  r1 = r1
  r2 = r2
  routers = routers
  multi = multi
  None = None
  Runs = {r1, r2}
  Services = {routers}
  Jobs = {multi}
  ServiceOf <- MCServiceOf
  JobOf <- MCJobOf
  MultiSource = {routers}
  Forceable = {routers}
  Shared = routers
  NumBatches = 2
  MaxTries = 2
  MaxClears = 1
  MaxCrashes = 1
INVARIANTS
  RunsBounded
  SuccessIsComplete
  RunningIsTrue
PROPERTIES
  FlagFreed
CHECK_DEADLOCK FALSE
