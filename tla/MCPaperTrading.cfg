SPECIFICATION Spec
CONSTANTS
  c1 = c1
  c2 = c2
  Clients <- const_Clients
  StartCash = 7
  Quantities <- const_Quantities
  Prices <- const_Prices
  Fee = 1
  TPlus = TRUE
  MaxRequests = 4
INVARIANTS
  TypeOK
PROPERTIES
  IsLedger
SYMMETRY Symmetry
CHECK_DEADLOCK FALSE
