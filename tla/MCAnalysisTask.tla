---------------------------- MODULE MCAnalysisTask ----------------------------
(* Model values for AnalysisTask: interchangeable tasks.                     *)
EXTENDS AnalysisTask, TLC

CONSTANTS t1, t2

TwoTasks == {t1, t2}
OneTask == {t1}
Symmetry == Permutations(TwoTasks)

=============================================================================
