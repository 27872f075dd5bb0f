------------------------- MODULE MCSchedulerExecutions -------------------------
(* Model values for SchedulerExecutions: one job that reports its progress   *)
(* and one that polls for cancel requests.                                   *)
EXTENDS SchedulerExecutions

CONSTANTS financial, basics

TwoJobs == {financial, basics}
ReportingJob == {financial}
PollingJob == {basics}
None == {}

=============================================================================
