SPECIFICATION Spec
CONSTANTS
  RVM_MEMORY_SIZE = 48
  RVM_MEMORY_PROGRAM_END = 15
  RVM_MEMORY_STACK_START = 24
  RVM_MEMORY_STACK_END = 31
  Images <- StoreImages
CHECK_DEADLOCK FALSE
INVARIANTS
  TypeOK
  StackDiscipline
  RipAligned
  AssertsHold
PROPERTIES
  WritesAreConfined
  FaultsArePrecise
  ImplementsCallStack
