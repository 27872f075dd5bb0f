SPECIFICATION Spec
CONSTANTS
  Hour = 3
  RotationEnabled = TRUE
  AutoDetect = TRUE
  BackfillOnStartup = TRUE
  BackfillOnOffHours = TRUE
  MaxRestarts = 2
PROPERTIES
  ReportIsTrue
  KeepsHourlyLimit
  EverySourceAsked
CHECK_DEADLOCK FALSE
