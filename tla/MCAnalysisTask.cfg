\* Two tasks share one worker thread; one swallowed MongoDB failure, one restart.
SPECIFICATION Spec
CONSTANTS
  t1 = t1
  t2 = t2
  Tasks <- TwoTasks
  PoolSize = 1
  MaxFaults = 1
  MaxRestarts = 1
SYMMETRY Symmetry
INVARIANTS
  TypeOK
  OpenTaskHasOwner
  UntouchedTasksAgree
  CompletedHasReport
  TrackersFreed
PROPERTIES
  CompletedNeverReopened
  DeletedStaysDeleted
CHECK_DEADLOCK FALSE
