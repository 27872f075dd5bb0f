SPECIFICATION LimiterSpec
CONSTANTS
  j1 = j1
  j2 = j2
  j3 = j3
  j4 = j4
  Callers <- const_Callers
  MaxCalls = 3
  TimeWindow = 4
  Buffer = 1
PROPERTIES
  IsSlidingWindow
  EveryCallerProceeds
CHECK_DEADLOCK FALSE
