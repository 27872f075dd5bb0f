\* Every order of two analysts and all four; four of the five depths (1 and 2 have the same rounds).
SPECIFICATION Spec
CONSTANTS
  Selections <- PairsAndAll
  Depths <- FourDepths
  MaxTools = 2
INVARIANTS
  RequestsAnswered
  CapsRespected
  WithinRecursionLimit
  DecisionIsInformed
PROPERTIES
  Ends
  DebateIsRoundTable
  RiskIsRoundTable
CHECK_DEADLOCK FALSE
