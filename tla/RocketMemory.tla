--------------------------- MODULE RocketMemory ---------------------------
(***************************************************************************)
(* The flat byte memory of the machine, rocketvm/memory.h.  A memory is a  *)
(* function from Address to Byte.  The layout macros are CONSTANTS, so     *)
(* that a run can use the sizes of the header or a small machine in which  *)
(* every region boundary is a few instructions away.                       *)
(***************************************************************************)
EXTENDS RocketIsa

CONSTANTS
  RVM_MEMORY_SIZE,         \* bytes of memory, 0x10000 in the header
  RVM_MEMORY_PROGRAM_END,  \* last byte of the program region, 0x7FFF
  RVM_MEMORY_STACK_START,  \* first byte of the stack region, 0xF000
  RVM_MEMORY_STACK_END     \* last byte of the stack region, 0xFEFF

(***************************************************************************)
(* What the code relies on: a uint16_t can name every byte, the program    *)
(* region holds an instruction and lies below the stack region, and the    *)
(* stack region holds at least one word.                                   *)
(***************************************************************************)
ASSUME LayoutAssumption ==
  /\ RVM_MEMORY_SIZE \in 0 .. 2^16
  /\ RVM_MEMORY_PROGRAM_END \in Nat
  /\ RVM_MEMORY_STACK_START \in Nat
  /\ RVM_MEMORY_STACK_END \in Nat
  /\ 2 <= RVM_MEMORY_PROGRAM_END
  /\ RVM_MEMORY_PROGRAM_END < RVM_MEMORY_STACK_START
  /\ RVM_MEMORY_STACK_START + 2 <= RVM_MEMORY_STACK_END
  /\ RVM_MEMORY_STACK_END < RVM_MEMORY_SIZE

Address == 0 .. RVM_MEMORY_SIZE - 1

\* memset of the whole memory in rvm_vm_create.
ZeroMemory == [a \in Address |-> 0]

\* Little-endian words.  A caller must pass an offset that passes the
\* assertion of the function, InBounds.
InBounds(offset) == offset < RVM_MEMORY_SIZE - 1

rvm_memory_read_uint16(mem, offset) == mem[offset + 1] * 256 + mem[offset]

rvm_memory_write_uint16(mem, offset, data) ==
  [mem EXCEPT ![offset] = data % 256, ![offset + 1] = data \div 256]

=============================================================================
