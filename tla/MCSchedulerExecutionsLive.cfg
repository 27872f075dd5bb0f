\* One reporting job, one run, one trigger, one restart: stale records are cleared.
SPECIFICATION Spec
CONSTANTS
  financial = financial
  basics = basics
  Jobs <- ReportingJob
  Reporting <- ReportingJob
  Polling <- None
  MaxDocs = 2
  MaxRuns = 1
  MaxTriggers = 1
  MaxRestarts = 1
PROPERTIES
  StaleRunningCleared
CHECK_DEADLOCK FALSE
