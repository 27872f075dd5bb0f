\* Two jobs of different kinds: two runs, one trigger, two records.
SPECIFICATION Spec
CONSTANTS
  financial = financial
  basics = basics
  Jobs <- TwoJobs
  Reporting <- ReportingJob
  Polling <- PollingJob
  MaxDocs = 2
  MaxRuns = 2
  MaxTriggers = 1
  MaxRestarts = 0
INVARIANTS
  TypeOK
  SuccessesHappened
  CheckerSparesSuccess
PROPERTIES
  OnlyItsRunReopens
CHECK_DEADLOCK FALSE
