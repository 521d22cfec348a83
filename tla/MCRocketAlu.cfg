SPECIFICATION Spec
CONSTANT Sample <- BoundaryWords
CHECK_DEADLOCK FALSE
INVARIANTS
  AddIsExact
  SubCompares
  MulIsExact
  DivModIsExact
  ShiftsAreExact
  FlagsDescribeTheValue
