SPECIFICATION ToolSpec
CONSTANTS
  RVM_MEMORY_SIZE = 34
  RVM_MEMORY_PROGRAM_END = 15
  RVM_MEMORY_STACK_START = 24
  RVM_MEMORY_STACK_END = 31
  Texts <- SomeTexts
  Images <- OldFiles
  Capacity = 1024
  UINT16_MAX = 65535
  LongIsWide = FALSE
CHECK_DEADLOCK FALSE
INVARIANTS
  RunsOldThenNew
  RunsWhatWasAssembled
  RunsTheText
  UndefinedTargetsKeepTheFile
  ExitStatus
PROPERTIES
  BranchesFollowTheText
  BothEnd
