\* Liveness needs every behaviour distinct: no symmetry, no restart, no fault.
SPECIFICATION Spec
CONSTANTS
  t1 = t1
  t2 = t2
  Tasks <- TwoTasks
  PoolSize = 1
  MaxFaults = 0
  MaxRestarts = 0
PROPERTIES
  KeepsPromise
  EveryExecutionEnds
CHECK_DEADLOCK FALSE
