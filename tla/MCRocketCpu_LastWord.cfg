SPECIFICATION Spec
CONSTANTS
  RVM_MEMORY_SIZE = 65536
  RVM_MEMORY_PROGRAM_END = 32767
  RVM_MEMORY_STACK_START = 61440
  RVM_MEMORY_STACK_END = 65279
  Images <- LastWordImages
CHECK_DEADLOCK FALSE
INVARIANT ProgramRegionIsExecutable
