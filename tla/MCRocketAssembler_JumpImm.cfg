SPECIFICATION Spec
CONSTANTS
  L1 = L1
  L2 = L2
  Programs <- AllPrograms
  NDEBUG = FALSE
CHECK_DEADLOCK FALSE
INVARIANT
  AcceptedIsEncodable
