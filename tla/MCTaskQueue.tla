------------------------------ MODULE MCTaskQueue ------------------------------
(* Model values for TaskQueue: the tasks of one user, interchangeable        *)
(* workers.                                                                  *)
EXTENDS TaskQueue, TLC

CONSTANTS t1, t2, t3, w1, w2, user

ThreeTasks == {t1, t2, t3}
TwoWorkers == {w1, w2}
OneUser == {user}
SameOwner == [t \in Tasks |-> user]
Symmetry == Permutations(Tasks) \cup Permutations(Workers)

=============================================================================
