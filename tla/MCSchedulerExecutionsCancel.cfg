\* A run goes on after its progress report met the cancel request.
SPECIFICATION Spec
CONSTANTS
  financial = financial
  basics = basics
  Jobs <- ReportingJob
  Reporting <- ReportingJob
  Polling <- None
  MaxDocs = 3
  MaxRuns = 2
  MaxTriggers = 1
  MaxRestarts = 0
INVARIANTS
  CancelledRunStops
CHECK_DEADLOCK FALSE
