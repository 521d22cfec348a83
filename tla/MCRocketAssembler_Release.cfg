SPECIFICATION Spec
CONSTANTS
  L1 = L1
  L2 = L2
  Programs <- Reach
  NDEBUG = TRUE
CHECK_DEADLOCK FALSE
INVARIANT
  BranchesReachTheirLabels
