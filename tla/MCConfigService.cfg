SPECIFICATION Spec
CONSTANTS
  c1 = c1
  c2 = c2
  m1 = m1
  m2 = m2
  s1 = s1
  d1 = d1
  v1 = v1
  v2 = v2
  None = None
  Unset = Unset
  Clients <- const_Clients
  Models <- const_Models
  Sources <- const_Sources
  Databases <- const_Databases
  Priorities <- const_Priorities
  Settings <- const_Settings
  DefaultConfig <- const_Default
  MaxRequests = 3
INVARIANTS
  OneActiveEach
PROPERTIES
  IsRegister
SYMMETRY Symmetry
CHECK_DEADLOCK FALSE
