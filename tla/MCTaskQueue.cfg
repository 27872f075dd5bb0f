\* Three tasks of one user, two workers, a limit of one, a batch of up to two, two upsets.
SPECIFICATION Spec
CONSTANTS
  t1 = t1
  t2 = t2
  t3 = t3
  w1 = w1
  w2 = w2
  user = user
  NoTask = NoTask
  Tasks <- ThreeTasks
  Users <- OneUser
  Owner <- SameOwner
  Workers <- TwoWorkers
  UserLimit = 1
  GlobalLimit = 1
  MaxBatch = 2
  MaxUpsets = 2
SYMMETRY Symmetry
INVARIANTS
  TypeOK
  OverrunBounded
  SlotsHaveHolders
  QueuedIsDeliverable
  DeliveredOnce
  BatchesAgree
CHECK_DEADLOCK FALSE
