----------------------------- MODULE RocketCpu -----------------------------
(***************************************************************************)
(* The processor: rocketvm/cpu.  A step is one call of rvm_cpu_cycle: the  *)
(* fetch, the increment of RIP and the whole handler of the instruction.   *)
(* The state is rvm_cpu_t and the memory it works on; rsb is left out, as  *)
(* no code reads or writes it after the memset.                            *)
(***************************************************************************)
EXTENDS RocketMemory, RocketAlu, Sequences

CONSTANT Images             \* the programs, as sequences of bytes

ASSUME ImagesAssumption == Images \subseteq Seq(Byte)

VARIABLES
  rv,      \* the eight general purpose registers
  rip,     \* instruction pointer
  rsp,     \* stack pointer
  flags,   \* the flags that are set
  halt,    \* the processor has stopped, by a fault or by a RET
  mem,     \* the memory
  rc       \* what the last rvm_cpu_cycle returned, 0 or -1

vars == <<rv, rip, rsp, flags, halt, mem, rc>>

RVM_CPU_INSTRUCTION_SIZE == 2

\* The processor as rvm_vm_create leaves it.
rvm_vm_create ==
  /\ rv = [r \in Reg |-> 0]
  /\ rip = 0
  /\ rsp = RVM_MEMORY_STACK_END
  /\ flags = {}
  /\ halt = FALSE
  /\ rc = 0

\* The memcpy of rvm_vm_load over a memory: the image from byte 0 on.
Loaded(image, memory) ==
  [a \in Address |-> IF a < Len(image) THEN image[a + 1] ELSE memory[a]]

\* The processor about to run any image that fits.
Init == /\ rvm_vm_create
        /\ \E image \in Images : /\ Len(image) <= RVM_MEMORY_SIZE
                                 /\ mem = Loaded(image, ZeroMemory)

-----------------------------------------------------------------------------
(***************************************************************************)
(* Fetch and decode.                                                       *)
(***************************************************************************)
\* rvm_vm_run calls for another cycle.
Running == ~halt /\ rc = 0

\* The bounds check of rvm_cpu_cycle.
Fetchable == rip <= RVM_MEMORY_PROGRAM_END - 2

instr == rvm_decode(rvm_memory_read_uint16(mem, rip))

\* RIP as the handlers see it.
NextRip == (rip + RVM_CPU_INSTRUCTION_SIZE) % 65536

Executing(opcode) == Running /\ Fetchable /\ instr.opcode = opcode

Destination == rv[instr.reg]

\* The second operand of formats A and B: a value, or an address.
Source == IF instr.mode = RVM_MODE_IMM_OR_ADDR THEN instr.operand
          ELSE rv[instr.operand % 8]

\* A target that is not cast to uint16_t.
Target_NotTruncated ==
  IF BranchMode(instr.raw) = RVM_MODE_IMM_OR_ADDR THEN NextRip + BranchOffset(instr.raw)
  ELSE rv[BranchReg(instr.raw)]

Target == IF BranchMode(instr.raw) = RVM_MODE_IMM_OR_ADDR
          THEN (NextRip + BranchOffset(instr.raw)) % 65536
          ELSE rv[BranchReg(instr.raw)]

\* Only one of the two checks.
BadAddress_BoundsOnly(addr) == addr > RVM_MEMORY_SIZE - 2
BadAddress_AlignmentOnly(addr) == addr % 2 = 1

\* The two checks every handler makes of an address: bounds and alignment.
BadAddress(addr) == addr > RVM_MEMORY_SIZE - 2 \/ addr % 2 = 1

\* rvm_cpu_fault, and the HALT of a division: only halt and RIP have moved.
\* The cycle still returns 0.
Stop == /\ halt' = TRUE
        /\ rip' = NextRip
        /\ UNCHANGED <<rv, flags, mem, rc>>

-----------------------------------------------------------------------------
(***************************************************************************)
(* cpu_data.c and cpu_mem.c                                                *)
(***************************************************************************)
SetRegister(value) ==
  /\ rv' = [rv EXCEPT ![instr.reg] = value]
  /\ rip' = NextRip
  /\ UNCHANGED <<rsp, flags, halt, mem, rc>>

rvm_cpu_exec_mov == Executing(RVM_OP.MOV) /\ SetRegister(Source)

rvm_cpu_exec_load ==
  /\ Executing(RVM_OP.LOAD)
  /\ \/ BadAddress(Source) /\ Stop /\ UNCHANGED rsp
     \/ ~BadAddress(Source) /\ SetRegister(rvm_memory_read_uint16(mem, Source))

\* There is no protection: a store may hit the program and the stack.
rvm_cpu_exec_store ==
  /\ Executing(RVM_OP.STORE)
  /\ \/ BadAddress(Source) /\ Stop /\ UNCHANGED rsp
     \/ /\ ~BadAddress(Source)
        /\ mem' = rvm_memory_write_uint16(mem, Source, Destination)
        /\ rip' = NextRip
        /\ UNCHANGED <<rv, rsp, flags, halt, rc>>

-----------------------------------------------------------------------------
(***************************************************************************)
(* cpu_alu.c                                                               *)
(***************************************************************************)
WriteBack(outcome) ==
  /\ rv' = [rv EXCEPT ![instr.reg] = outcome.value]
  /\ flags' = outcome.flags
  /\ rip' = NextRip
  /\ UNCHANGED <<rsp, halt, mem, rc>>

rvm_cpu_exec_add == Executing(RVM_OP.ADD) /\ WriteBack(Add(Destination, Source))

rvm_cpu_exec_sub == Executing(RVM_OP.SUB) /\ WriteBack(Sub(Destination, Source))

rvm_cpu_exec_mul ==
  /\ Executing(RVM_OP.MUL)
  /\ \E outcome \in MulOutcomes(Destination, Source) : WriteBack(outcome)

\* A division that clears the flags before it looks at the divisor.
rvm_cpu_exec_div_FlagsFirst ==
  /\ Executing(RVM_OP.DIV)
  /\ \/ /\ Source = 0
        /\ halt' = TRUE
        /\ flags' = flags \ {"RZ", "RN"}
        /\ rip' = NextRip
        /\ UNCHANGED <<rv, rsp, mem, rc>>
     \/ Source # 0 /\ WriteBack(Div(Destination, Source, flags))

rvm_cpu_exec_div ==
  /\ Executing(RVM_OP.DIV)
  /\ \/ Source = 0 /\ Stop /\ UNCHANGED rsp
     \/ Source # 0 /\ WriteBack(Div(Destination, Source, flags))

rvm_cpu_exec_mod ==
  /\ Executing(RVM_OP.MOD)
  /\ \/ Source = 0 /\ Stop /\ UNCHANGED rsp
     \/ Source # 0 /\ WriteBack(Mod(Destination, Source, flags))

rvm_cpu_exec_shl ==
  Executing(RVM_OP.SHL) /\ WriteBack(Shl(Destination, Source % 16, flags))

rvm_cpu_exec_shr ==
  Executing(RVM_OP.SHR) /\ WriteBack(Shr(Destination, Source % 16, flags))

-----------------------------------------------------------------------------
(***************************************************************************)
(* cpu_ctrlf.c                                                             *)
(***************************************************************************)
rvm_cpu_exec_cmp ==
  /\ Executing(RVM_OP.CMP)
  /\ flags' = Sub(Destination, Source).flags
  /\ rip' = NextRip
  /\ UNCHANGED <<rv, rsp, halt, mem, rc>>

Jump == /\ \/ BadAddress(Target) /\ Stop
           \/ /\ ~BadAddress(Target)
              /\ rip' = Target
              /\ UNCHANGED <<rv, flags, halt, mem, rc>>
        /\ UNCHANGED rsp

FallThrough == rip' = NextRip /\ UNCHANGED <<rv, rsp, flags, halt, mem, rc>>

rvm_cpu_exec_jmp == Executing(RVM_OP.JMP) /\ Jump

rvm_cpu_exec_jz ==
  /\ Executing(RVM_OP.JZ)
  /\ \/ "RZ" \in flags /\ Jump
     \/ "RZ" \notin flags /\ FallThrough

rvm_cpu_exec_jnz ==
  /\ Executing(RVM_OP.JNZ)
  /\ \/ "RZ" \notin flags /\ Jump
     \/ "RZ" \in flags /\ FallThrough

\* A stack whose check lets a frame through that does not fit.
CallOverflows_Late == rsp < RVM_MEMORY_STACK_START

CallOverflows == rsp < RVM_MEMORY_STACK_START + 2

\* A CALL that pushes before it validates the target.
rvm_cpu_exec_call_PushFirst ==
  /\ Executing(RVM_OP.CALL)
  /\ \/ CallOverflows /\ Stop /\ UNCHANGED rsp
     \/ /\ ~CallOverflows
        /\ rsp' = rsp - 2
        /\ mem' = rvm_memory_write_uint16(mem, rsp - 2, NextRip)
        /\ halt' = BadAddress(Target)
        /\ rip' = IF BadAddress(Target) THEN NextRip ELSE Target
        /\ UNCHANGED <<rv, flags, rc>>

\* A CALL that pushes its own address.
rvm_cpu_exec_call_PushesItself ==
  /\ Executing(RVM_OP.CALL)
  /\ \/ (BadAddress(Target) \/ CallOverflows) /\ Stop /\ UNCHANGED rsp
     \/ /\ ~BadAddress(Target) /\ ~CallOverflows
        /\ rsp' = rsp - 2
        /\ mem' = rvm_memory_write_uint16(mem, rsp - 2, rip)
        /\ rip' = Target
        /\ UNCHANGED <<rv, flags, halt, rc>>

rvm_cpu_exec_call ==
  /\ Executing(RVM_OP.CALL)
  /\ \/ (BadAddress(Target) \/ CallOverflows) /\ Stop /\ UNCHANGED rsp
     \/ /\ ~BadAddress(Target) /\ ~CallOverflows
        /\ rsp' = rsp - 2
        /\ mem' = rvm_memory_write_uint16(mem, rsp - 2, NextRip)
        /\ rip' = Target
        /\ UNCHANGED <<rv, flags, halt, rc>>

\* An empty stack taken for one more frame.
RetOnEmptyStack_OffByOne == rsp > RVM_MEMORY_STACK_END

RetOnEmptyStack == rsp > RVM_MEMORY_STACK_END - 1

ReturnAddress == rvm_memory_read_uint16(mem, rsp)

\* A RET that leaves its frame on the stack.
rvm_cpu_exec_ret_NoPop ==
  /\ Executing(RVM_OP.RET)
  /\ UNCHANGED rsp
  /\ \/ (RetOnEmptyStack \/ BadAddress(ReturnAddress)) /\ Stop
     \/ /\ ~RetOnEmptyStack /\ ~BadAddress(ReturnAddress)
        /\ rip' = ReturnAddress
        /\ UNCHANGED <<rv, flags, halt, mem, rc>>

\* The frame is gone before its address is checked.
rvm_cpu_exec_ret ==
  /\ Executing(RVM_OP.RET)
  /\ \/ RetOnEmptyStack /\ Stop /\ UNCHANGED rsp
     \/ /\ ~RetOnEmptyStack
        /\ rsp' = rsp + 2
        /\ \/ BadAddress(ReturnAddress) /\ Stop
           \/ /\ ~BadAddress(ReturnAddress)
              /\ rip' = ReturnAddress
              /\ UNCHANGED <<rv, flags, halt, mem, rc>>

-----------------------------------------------------------------------------
\* The first error return of rvm_cpu_cycle.  Those of rvm_cpu_execute are
\* unreachable: all sixteen opcodes have a handler.
RipOutOfBounds ==
  /\ Running
  /\ ~Fetchable
  /\ rc' = -1
  /\ UNCHANGED <<rv, rip, rsp, flags, halt, mem>>

rvm_cpu_cycle ==
  \/ rvm_cpu_exec_mov \/ rvm_cpu_exec_load \/ rvm_cpu_exec_store
  \/ rvm_cpu_exec_add \/ rvm_cpu_exec_sub \/ rvm_cpu_exec_mul
  \/ rvm_cpu_exec_div \/ rvm_cpu_exec_mod
  \/ rvm_cpu_exec_shl \/ rvm_cpu_exec_shr
  \/ rvm_cpu_exec_cmp
  \/ rvm_cpu_exec_jmp \/ rvm_cpu_exec_jz \/ rvm_cpu_exec_jnz
  \/ rvm_cpu_exec_call \/ rvm_cpu_exec_ret
  \/ RipOutOfBounds

Next == rvm_cpu_cycle

Spec == Init /\ [][Next]_vars

-----------------------------------------------------------------------------
(***************************************************************************)
(* Properties.                                                             *)
(***************************************************************************)
\* Every register and every byte keeps its width.
TypeOK ==
  /\ rv \in [Reg -> Word]
  /\ rip \in Word
  /\ rsp \in Word
  /\ flags \subseteq Flag
  /\ halt \in BOOLEAN
  /\ mem \in [Address -> Byte]
  /\ rc \in {0, -1}

\* RSP never leaves the stack region and always marks a whole number of
\* frames, whatever CALLs, RETs, faults and stores the program makes: the two
\* guards of rvm_cpu_exec_call and rvm_cpu_exec_ret are enough.
StackDiscipline ==
  /\ rsp \in RVM_MEMORY_STACK_START .. RVM_MEMORY_STACK_END
  /\ (RVM_MEMORY_STACK_END - rsp) % 2 = 0

\* RIP is even in every state, also after a RET to an address that a store
\* has put into a frame.
RipAligned == rip % 2 = 0

\* The asserts of rvm_memory_read_uint16 and rvm_memory_write_uint16, which
\* a build with NDEBUG does not have, hold at every call of the next cycle,
\* and what CALL and RET access lies in the stack region.
AssertsHold ==
  Running /\ Fetchable =>
    /\ InBounds(rip)
    /\ instr.opcode \in {RVM_OP.LOAD, RVM_OP.STORE} /\ ~BadAddress(Source)
         => InBounds(Source)
    /\ instr.opcode = RVM_OP.CALL /\ ~CallOverflows
         => rsp - 2 \in RVM_MEMORY_STACK_START .. RVM_MEMORY_STACK_END - 1
    /\ instr.opcode = RVM_OP.RET /\ ~RetOnEmptyStack
         => rsp \in RVM_MEMORY_STACK_START .. RVM_MEMORY_STACK_END - 1

\* Only a STORE can change the program, the heap or a live frame: the one
\* other instruction that writes, CALL, writes free bytes of the stack region.
WritesAreConfined ==
  [][ instr.opcode # RVM_OP.STORE =>
        \A a \in Address : mem'[a] # mem[a] =>
          RVM_MEMORY_STACK_START <= a /\ a < rsp ]_vars

\* An instruction that faults has had no effect on registers, flags and
\* memory.  Only a RET that took a bad address off the stack has moved RSP.
FaultsArePrecise ==
  [][ halt' =>
        /\ UNCHANGED <<rv, flags, mem>>
        /\ rsp' # rsp => instr.opcode = RVM_OP.RET /\ BadAddress(ReturnAddress) ]_vars

\* The live frames, the outermost first.
Depth == (RVM_MEMORY_STACK_END - rsp) \div 2
Frame(i) == rvm_memory_read_uint16(mem, RVM_MEMORY_STACK_END - 2 * i)
Frames == [i \in 1 .. Depth |-> Frame(i)]

\* Every live frame holds the address behind a CALL of the program.  It holds
\* for programs that contain no STORE.
FramesAreCallSites ==
  \A i \in 1 .. Depth :
    /\ Frame(i) \in 2 .. RVM_MEMORY_PROGRAM_END
    /\ rvm_decode(rvm_memory_read_uint16(mem, Frame(i) - 2)).opcode = RVM_OP.CALL

\* The processor implements the bounded stack of return addresses.
Kind == IF ~Fetchable THEN "none"
        ELSE CASE instr.opcode = RVM_OP.CALL  -> "call"
               [] instr.opcode = RVM_OP.RET   -> "ret"
               [] instr.opcode = RVM_OP.STORE -> "store"
               [] OTHER                       -> "other"

CS == INSTANCE CallStack WITH
        Capacity <- (RVM_MEMORY_STACK_END - RVM_MEMORY_STACK_START) \div 2,
        Landing  <- {addr \in Word : ~BadAddress(addr)},
        pc       <- rip,
        stack    <- Frames,
        kind     <- Kind,
        stopped  <- ~Running

\* Calls and returns behave as a last-in first-out stack.
ImplementsCallStack == CS!Spec

=============================================================================
