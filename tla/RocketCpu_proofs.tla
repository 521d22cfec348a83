-------------------------- MODULE RocketCpu_proofs --------------------------
(***************************************************************************)
(* Theorems about RocketCpu, for every layout that LayoutAssumption        *)
(* allows and every set of images.                                         *)
(***************************************************************************)
EXTENDS RocketCpu, TLAPS

-----------------------------------------------------------------------------
(***************************************************************************)
(* Words, fields and memory.                                               *)
(***************************************************************************)
\* A remainder modulo 2^16 is a word: what a cast to uint16_t yields.
LEMMA ModuloIsWord == ASSUME NEW n \in Int PROVE n % 65536 \in Word
BY DEF Word

\* The powers of two that the shifts use.
LEMMA PowersArePositive == ASSUME NEW k \in 0 .. 15 PROVE 2^k \in Nat /\ 2^k > 0
<1>0. k = 0 => 2^k = 1 OBVIOUS
<1>1. k = 1 => 2^k = 2 OBVIOUS
<1>2. k = 2 => 2^k = 4 OBVIOUS
<1>3. k = 3 => 2^k = 8 OBVIOUS
<1>4. k = 4 => 2^k = 16 OBVIOUS
<1>5. k = 5 => 2^k = 32 OBVIOUS
<1>6. k = 6 => 2^k = 64 OBVIOUS
<1>7. k = 7 => 2^k = 128 OBVIOUS
<1>8. k = 8 => 2^k = 256 OBVIOUS
<1>9. k = 9 => 2^k = 512 OBVIOUS
<1>10. k = 10 => 2^k = 1024 OBVIOUS
<1>11. k = 11 => 2^k = 2048 OBVIOUS
<1>12. k = 12 => 2^k = 4096 OBVIOUS
<1>13. k = 13 => 2^k = 8192 OBVIOUS
<1>14. k = 14 => 2^k = 16384 OBVIOUS
<1>15. k = 15 => 2^k = 32768 OBVIOUS
<1> QED BY <1>0, <1>1, <1>2, <1>3, <1>4, <1>5, <1>6, <1>7, <1>8, <1>9, <1>10, <1>11, <1>12, <1>13, <1>14, <1>15

\* A word divided or reduced by a positive number is a word.
LEMMA QuotientIsWord ==
  ASSUME NEW w \in Word, NEW n \in Nat, n > 0
  PROVE  w \div n \in Word /\ w % n \in Word
BY DEF Word

\* The fields of an instruction.
LEMMA DecodedFields ==
  ASSUME NEW w \in Word
  PROVE  /\ rvm_decode(w).raw = w
         /\ rvm_decode(w).opcode \in 0 .. 15
         /\ rvm_decode(w).reg \in Reg
         /\ rvm_decode(w).operand \in Word
         /\ BranchReg(w) \in Reg
         /\ BranchOffset(w) \in Int
<1>1. w \div 4096 \in 0 .. 15 BY DEF Word
<1>2. (w \div 512) % 8 \in Reg BY DEF Word, Reg
<1>3. w % 256 \in Word BY DEF Word
<1>4. w % 8 \in Reg BY DEF Word, Reg
<1>5. w % 2048 \in Int BY DEF Word
<1> QED BY <1>1, <1>2, <1>3, <1>4, <1>5 DEF rvm_decode, BranchReg, BranchOffset

\* An aligned or odd word inside memory can be read ...
LEMMA ReadIsWord ==
  ASSUME NEW m \in [Address -> Byte], NEW a \in Nat, InBounds(a)
  PROVE  rvm_memory_read_uint16(m, a) \in Word
<1>1. a \in Address /\ a + 1 \in Address
      BY LayoutAssumption DEF InBounds, Address
<1>2. m[a] \in Byte /\ m[a + 1] \in Byte BY <1>1
<1> QED BY <1>2 DEF rvm_memory_read_uint16, Word, Byte

\* ... and written.
LEMMA WriteIsMemory ==
  ASSUME NEW m \in [Address -> Byte], NEW a \in Nat, InBounds(a), NEW w \in Word
  PROVE  rvm_memory_write_uint16(m, a, w) \in [Address -> Byte]
<1>1. w % 256 \in Byte /\ w \div 256 \in Byte BY DEF Word, Byte
<1> QED BY <1>1 DEF rvm_memory_write_uint16

-----------------------------------------------------------------------------
(***************************************************************************)
(* The arithmetic operators yield a word and a set of flags.               *)
(***************************************************************************)
Outcome == [value : Word, flags : SUBSET Flag]

LEMMA AddSubType ==
  ASSUME NEW d \in Word, NEW s \in Word
  PROVE  Add(d, s) \in Outcome /\ Sub(d, s) \in Outcome
<1>1. (d + s) % 65536 \in Word /\ (d - s) % 65536 \in Word
      BY ModuloIsWord DEF Word
<1> QED BY <1>1 DEF Add, Sub, Outcome, ZeroNegative, SetIf, Flag

LEMMA MulType ==
  ASSUME NEW d \in Word, NEW s \in Word
  PROVE  MulOutcomes(d, s) \subseteq Outcome
<1>1. LowProduct(d, s) \in Word
  <2>1. s % 256 \in Int /\ s \div 256 \in Int /\ d \in Int BY DEF Word
  <2>2. d * (s % 256) \in Int /\ d * (s \div 256) \in Int BY <2>1
  <2>3. (d * (s \div 256)) % 256 \in Int BY <2>2
  <2> DEFINE n == d * (s % 256) + 256 * ((d * (s \div 256)) % 256)
  <2>4. n \in Int BY <2>2, <2>3
  <2> HIDE DEF n
  <2>5. n % 65536 \in Word BY <2>4, ModuloIsWord
  <2> QED BY <2>5 DEF n, LowProduct
<1> QED BY <1>1 DEF MulOutcomes, Outcome, ZeroNegative, SetIf, Flag

LEMMA DivModType ==
  ASSUME NEW d \in Word, NEW s \in Word, s # 0, NEW f \in SUBSET Flag
  PROVE  Div(d, s, f) \in Outcome /\ Mod(d, s, f) \in Outcome
<1>1. d \div s \in Word /\ d % s \in Word
  <2>1. s \in Nat /\ s > 0 BY DEF Word
  <2> QED BY <2>1, QuotientIsWord
<1> QED BY <1>1 DEF Div, Mod, Outcome, ZeroNegative, SetIf, Flag

LEMMA ShiftType ==
  ASSUME NEW d \in Word, NEW k \in 0 .. 15, NEW f \in SUBSET Flag
  PROVE  Shl(d, k, f) \in Outcome /\ Shr(d, k, f) \in Outcome
<1> DEFINE p == 2^k
<1>0. p \in Nat /\ p > 0 BY PowersArePositive
<1> HIDE DEF p
<1>1. d \div p \in Word BY <1>0, QuotientIsWord
<1>2. (d * p) % 65536 \in Word
  <2>1. d * p \in Int BY <1>0 DEF Word
  <2> QED BY <2>1, ModuloIsWord
<1> QED BY <1>1, <1>2 DEF p, Shl, Shr, Outcome, ZeroNegative, SetIf, Flag

-----------------------------------------------------------------------------
(***************************************************************************)
(* The inductive invariant.  RipAligned and TypeOK need each other's       *)
(* facts at the fetch, and the parity of RSP in StackDiscipline is what    *)
(* makes the guard of RET, rsp > STACK_END - 1, keep RSP inside the        *)
(* region: an RSP of STACK_END - 1 would pass it and overshoot.            *)
(***************************************************************************)
IInv == TypeOK /\ StackDiscipline /\ RipAligned

\* The parts of the invariant that arithmetic needs, without the functions.
LEMMA Pointers ==
  ASSUME IInv
  PROVE  /\ rip \in Nat /\ rip <= 65535 /\ rip % 2 = 0
         /\ rsp \in Nat /\ rsp <= 65535
<1>1. rip \in Word /\ rsp \in Word /\ rip % 2 = 0 BY DEF IInv, TypeOK, RipAligned
<1> QED BY <1>1 DEF Word

\* A fetch that passes the check stays inside the memory.
LEMMA FetchFits ==
  ASSUME IInv, Fetchable
  PROVE  InBounds(rip) /\ NextRip = rip + 2
<1>1. rip \in Nat /\ rip <= RVM_MEMORY_PROGRAM_END - 2 BY Pointers DEF Fetchable
<1>2. rip + 2 < RVM_MEMORY_SIZE /\ rip + 2 < 65536 BY <1>1, LayoutAssumption
<1>3. InBounds(rip) BY <1>1, <1>2, LayoutAssumption DEF InBounds
<1>4. NextRip = rip + 2 BY <1>1, <1>2 DEF NextRip, RVM_CPU_INSTRUCTION_SIZE
<1> QED BY <1>3, <1>4

\* What a handler is given.
LEMMA Operands ==
  ASSUME IInv, Fetchable
  PROVE  /\ instr.opcode \in 0 .. 15 /\ instr.reg \in Reg
         /\ NextRip \in Word /\ NextRip % 2 = 0
         /\ Destination \in Word /\ Source \in Word /\ Target \in Word
<1>1. rip \in Nat /\ InBounds(rip)
      BY Pointers, FetchFits
<1> DEFINE w == rvm_memory_read_uint16(mem, rip)
<1>2. w \in Word BY <1>1, ReadIsWord DEF IInv, TypeOK
<1> HIDE DEF w
<1>3. instr = rvm_decode(w) BY DEF instr, w
<1>4. /\ instr.raw \in Word /\ instr.opcode \in 0 .. 15 /\ instr.reg \in Reg
      /\ instr.operand \in Word
      /\ BranchReg(instr.raw) \in Reg /\ BranchOffset(instr.raw) \in Int
      BY <1>2, <1>3, DecodedFields
<1>5. NextRip \in Word /\ NextRip % 2 = 0
      BY Pointers DEF NextRip, RVM_CPU_INSTRUCTION_SIZE, Word
<1>6. Destination \in Word BY <1>4 DEF Destination, IInv, TypeOK
<1>7. Source \in Word
  <2>1. instr.operand % 8 \in Reg BY <1>4 DEF Word, Reg
  <2> QED BY <2>1, <1>4 DEF Source, IInv, TypeOK
<1>8. Target \in Word
  <2>1. (NextRip + BranchOffset(instr.raw)) % 65536 \in Word
        BY <1>4, <1>5, ModuloIsWord DEF Word
  <2> QED BY <2>1, <1>4 DEF Target, IInv, TypeOK
<1> QED BY <1>4, <1>5, <1>6, <1>7, <1>8

\* An address that passes the checks of the handlers is even and in bounds.
LEMMA GoodAddress ==
  ASSUME NEW a \in Word, ~BadAddress(a)
  PROVE  a % 2 = 0 /\ a \in Nat /\ InBounds(a)
BY LayoutAssumption DEF BadAddress, InBounds, Word

\* A fault keeps the invariant if RSP does.
LEMMA StopKeepsInv ==
  ASSUME IInv, Fetchable, Stop, UNCHANGED rsp
  PROVE  IInv'
BY Operands DEF IInv, TypeOK, StackDiscipline, RipAligned, Stop

LEMMA WriteBackKeepsInv ==
  ASSUME IInv, Fetchable, NEW outcome \in Outcome, WriteBack(outcome)
  PROVE  IInv'
BY Operands DEF IInv, TypeOK, StackDiscipline, RipAligned, WriteBack, Outcome

LEMMA SetRegisterKeepsInv ==
  ASSUME IInv, Fetchable, NEW w \in Word, SetRegister(w)
  PROVE  IInv'
BY Operands DEF IInv, TypeOK, StackDiscipline, RipAligned, SetRegister

LEMMA JumpKeepsInv ==
  ASSUME IInv, Fetchable, Jump
  PROVE  IInv'
<1>1. CASE BadAddress(Target) /\ Stop BY <1>1, StopKeepsInv DEF Jump
<1>2. CASE ~BadAddress(Target) /\ rip' = Target /\ UNCHANGED <<rv, flags, halt, mem, rc>>
      BY <1>2, Operands, GoodAddress
      DEF Jump, IInv, TypeOK, StackDiscipline, RipAligned
<1> QED BY <1>1, <1>2 DEF Jump

LEMMA FallThroughKeepsInv ==
  ASSUME IInv, Fetchable, FallThrough
  PROVE  IInv'
BY Operands DEF IInv, TypeOK, StackDiscipline, RipAligned, FallThrough

LEMMA StoreKeepsInv ==
  ASSUME IInv, rvm_cpu_exec_store
  PROVE  IInv'
<1>1. Fetchable BY DEF rvm_cpu_exec_store, Executing
<1>2. CASE BadAddress(Source) /\ Stop /\ UNCHANGED rsp BY <1>1, <1>2, StopKeepsInv
<1>3. CASE /\ ~BadAddress(Source)
           /\ mem' = rvm_memory_write_uint16(mem, Source, Destination)
           /\ rip' = NextRip
           /\ UNCHANGED <<rv, rsp, flags, halt, rc>>
  <2>1. mem' \in [Address -> Byte]
        BY <1>1, <1>3, Operands, GoodAddress, WriteIsMemory DEF IInv, TypeOK
  <2> QED BY <1>1, <1>3, <2>1, Operands DEF IInv, TypeOK, StackDiscipline, RipAligned
<1> QED BY <1>2, <1>3 DEF rvm_cpu_exec_store

\* Where CALL pushes: the two bytes below RSP lie in the stack region.
LEMMA PushFits ==
  ASSUME IInv, ~CallOverflows
  PROVE  /\ rsp - 2 \in RVM_MEMORY_STACK_START .. RVM_MEMORY_STACK_END - 2
         /\ rsp - 2 \in Nat /\ InBounds(rsp - 2)
         /\ (RVM_MEMORY_STACK_END - (rsp - 2)) % 2 = 0
BY LayoutAssumption DEF IInv, StackDiscipline, CallOverflows, InBounds

LEMMA CallKeepsInv ==
  ASSUME IInv, rvm_cpu_exec_call
  PROVE  IInv'
<1>1. Fetchable BY DEF rvm_cpu_exec_call, Executing
<1>2. CASE (BadAddress(Target) \/ CallOverflows) /\ Stop /\ UNCHANGED rsp
      BY <1>1, <1>2, StopKeepsInv
<1>3. CASE /\ ~BadAddress(Target) /\ ~CallOverflows
           /\ rsp' = rsp - 2
           /\ mem' = rvm_memory_write_uint16(mem, rsp - 2, NextRip)
           /\ rip' = Target
           /\ UNCHANGED <<rv, flags, halt, rc>>
  <2>1. mem' \in [Address -> Byte]
        BY <1>1, <1>3, Operands, PushFits, WriteIsMemory DEF IInv, TypeOK
  <2>2. StackDiscipline'
        BY <1>3, PushFits, LayoutAssumption DEF StackDiscipline
  <2>3. rsp' \in Word
        BY <1>3, PushFits, LayoutAssumption DEF Word
  <2>4. RipAligned' BY <1>1, <1>3, Operands, GoodAddress DEF RipAligned
  <2>5. TypeOK' BY <1>1, <1>3, <2>1, <2>3, Operands DEF IInv, TypeOK
  <2> QED BY <2>2, <2>4, <2>5 DEF IInv
<1> QED BY <1>2, <1>3 DEF rvm_cpu_exec_call

\* Where RET pops: on a stack that is not empty, RSP is at least a whole
\* frame below the end of the region.
LEMMA PopFits ==
  ASSUME IInv, ~RetOnEmptyStack
  PROVE  /\ rsp \in RVM_MEMORY_STACK_START .. RVM_MEMORY_STACK_END - 2
         /\ rsp \in Nat /\ InBounds(rsp)
         /\ (RVM_MEMORY_STACK_END - (rsp + 2)) % 2 = 0
BY LayoutAssumption DEF IInv, StackDiscipline, RetOnEmptyStack, InBounds

LEMMA RetKeepsInv ==
  ASSUME IInv, rvm_cpu_exec_ret
  PROVE  IInv'
<1>1. Fetchable BY DEF rvm_cpu_exec_ret, Executing
<1>2. CASE RetOnEmptyStack /\ Stop /\ UNCHANGED rsp BY <1>1, <1>2, StopKeepsInv
<1>3. ASSUME ~RetOnEmptyStack, rsp' = rsp + 2
      PROVE  StackDiscipline' /\ rsp' \in Word
      BY <1>3, PopFits, LayoutAssumption DEF StackDiscipline, Word
<1>4. CASE ~RetOnEmptyStack /\ rsp' = rsp + 2 /\ BadAddress(ReturnAddress) /\ Stop
  <2>1. RipAligned' /\ TypeOK'
        BY <1>1, <1>3, <1>4, Operands DEF IInv, TypeOK, RipAligned, Stop
  <2> QED BY <1>3, <1>4, <2>1 DEF IInv
<1>5. CASE /\ ~RetOnEmptyStack /\ rsp' = rsp + 2 /\ ~BadAddress(ReturnAddress)
           /\ rip' = ReturnAddress
           /\ UNCHANGED <<rv, flags, halt, mem, rc>>
  <2>1. ReturnAddress \in Word
        BY <1>5, PopFits, ReadIsWord DEF ReturnAddress, IInv, TypeOK
  <2>2. RipAligned' BY <1>5, <2>1, GoodAddress DEF RipAligned
  <2>3. TypeOK' BY <1>3, <1>5, <2>1 DEF IInv, TypeOK
  <2> QED BY <1>3, <1>5, <2>2, <2>3 DEF IInv
<1> QED BY <1>2, <1>4, <1>5 DEF rvm_cpu_exec_ret

-----------------------------------------------------------------------------
\* A machine that rvm_vm_create made and an image was loaded into.
LEMMA InitEstablishesInv == Init => IInv
<1> SUFFICES ASSUME Init PROVE IInv OBVIOUS
<1>1. PICK image \in Images : mem = Loaded(image, ZeroMemory) BY DEF Init
<1>2. image \in Seq(Byte) BY ImagesAssumption
<1>3. \A a \in Address : a < Len(image) => image[a + 1] \in Byte
      BY <1>2, LayoutAssumption DEF Address
<1>4. 0 \in Byte BY DEF Byte
<1>5. mem \in [Address -> Byte] BY <1>1, <1>3, <1>4 DEF Loaded, ZeroMemory
<1>6. RVM_MEMORY_STACK_END \in Word /\ 0 \in Word BY LayoutAssumption DEF Word
<1>7. TypeOK BY <1>5, <1>6 DEF Init, rvm_vm_create, TypeOK
<1>8. StackDiscipline BY LayoutAssumption DEF Init, rvm_vm_create, StackDiscipline
<1>9. RipAligned BY DEF Init, rvm_vm_create, RipAligned
<1> QED BY <1>7, <1>8, <1>9 DEF IInv

\* One step per handler.
LEMMA NextKeepsInv == IInv /\ [Next]_vars => IInv'
<1> SUFFICES ASSUME IInv, [Next]_vars PROVE IInv' OBVIOUS
<1> USE DEF Executing
<1>1. CASE rvm_cpu_exec_mov
      BY <1>1, Operands, SetRegisterKeepsInv DEF rvm_cpu_exec_mov
<1>2. CASE rvm_cpu_exec_load
  <2>1. CASE BadAddress(Source) /\ Stop /\ UNCHANGED rsp
        BY <1>2, <2>1, StopKeepsInv DEF rvm_cpu_exec_load
  <2>2. CASE /\ ~BadAddress(Source)
             /\ SetRegister(rvm_memory_read_uint16(mem, Source))
    <3>1. rvm_memory_read_uint16(mem, Source) \in Word
          BY <1>2, <2>2, Operands, GoodAddress, ReadIsWord
          DEF rvm_cpu_exec_load, IInv, TypeOK
    <3> QED BY <1>2, <2>2, <3>1, SetRegisterKeepsInv DEF rvm_cpu_exec_load
  <2> QED BY <1>2, <2>1, <2>2 DEF rvm_cpu_exec_load
<1>3. CASE rvm_cpu_exec_store BY <1>3, StoreKeepsInv
<1>4. CASE rvm_cpu_exec_add
      BY <1>4, Operands, AddSubType, WriteBackKeepsInv DEF rvm_cpu_exec_add
<1>5. CASE rvm_cpu_exec_sub
      BY <1>5, Operands, AddSubType, WriteBackKeepsInv DEF rvm_cpu_exec_sub
<1>6. CASE rvm_cpu_exec_mul
      BY <1>6, Operands, MulType, WriteBackKeepsInv DEF rvm_cpu_exec_mul
<1>7. CASE rvm_cpu_exec_div
  <2>1. CASE Source = 0 /\ Stop /\ UNCHANGED rsp
        BY <1>7, <2>1, StopKeepsInv DEF rvm_cpu_exec_div
  <2>2. CASE Source # 0 /\ WriteBack(Div(Destination, Source, flags))
        BY <1>7, <2>2, Operands, DivModType, WriteBackKeepsInv
        DEF rvm_cpu_exec_div, IInv, TypeOK
  <2> QED BY <1>7, <2>1, <2>2 DEF rvm_cpu_exec_div
<1>8. CASE rvm_cpu_exec_mod
  <2>1. CASE Source = 0 /\ Stop /\ UNCHANGED rsp
        BY <1>8, <2>1, StopKeepsInv DEF rvm_cpu_exec_mod
  <2>2. CASE Source # 0 /\ WriteBack(Mod(Destination, Source, flags))
        BY <1>8, <2>2, Operands, DivModType, WriteBackKeepsInv
        DEF rvm_cpu_exec_mod, IInv, TypeOK
  <2> QED BY <1>8, <2>1, <2>2 DEF rvm_cpu_exec_mod
<1>9. CASE rvm_cpu_exec_shl \/ rvm_cpu_exec_shr
  <2>1. Source % 16 \in 0 .. 15
        BY <1>9, Operands DEF rvm_cpu_exec_shl, rvm_cpu_exec_shr, Word
  <2>2. CASE rvm_cpu_exec_shl
        BY <2>1, <2>2, Operands, ShiftType, WriteBackKeepsInv
        DEF rvm_cpu_exec_shl, IInv, TypeOK
  <2>3. CASE rvm_cpu_exec_shr
        BY <2>1, <2>3, Operands, ShiftType, WriteBackKeepsInv
        DEF rvm_cpu_exec_shr, IInv, TypeOK
  <2> QED BY <1>9, <2>2, <2>3
<1>10. CASE rvm_cpu_exec_cmp
  <2>1. Sub(Destination, Source) \in Outcome
        BY <1>10, Operands, AddSubType DEF rvm_cpu_exec_cmp
  <2> QED BY <1>10, <2>1, Operands
          DEF rvm_cpu_exec_cmp, Outcome, IInv, TypeOK, StackDiscipline, RipAligned
<1>11. CASE rvm_cpu_exec_jmp \/ rvm_cpu_exec_jz \/ rvm_cpu_exec_jnz
       BY <1>11, JumpKeepsInv, FallThroughKeepsInv
       DEF rvm_cpu_exec_jmp, rvm_cpu_exec_jz, rvm_cpu_exec_jnz
<1>12. CASE rvm_cpu_exec_call BY <1>12, CallKeepsInv
<1>13. CASE rvm_cpu_exec_ret BY <1>13, RetKeepsInv
<1>14. CASE RipOutOfBounds
       BY <1>14 DEF RipOutOfBounds, IInv, TypeOK, StackDiscipline, RipAligned
<1>15. CASE UNCHANGED vars
       BY <1>15 DEF vars, IInv, TypeOK, StackDiscipline, RipAligned
<1> QED BY <1>1, <1>2, <1>3, <1>4, <1>5, <1>6, <1>7, <1>8, <1>9, <1>10, <1>11,
           <1>12, <1>13, <1>14, <1>15 DEF Next, rvm_cpu_cycle

-----------------------------------------------------------------------------
(***************************************************************************)
(* The theorems.                                                           *)
(***************************************************************************)
\* The inductive invariant holds in every reachable state.
THEOREM Invariance == Spec => []IInv
BY InitEstablishesInv, NextKeepsInv, PTL DEF Spec

\* Registers, flags and memory keep their types: no value ever exceeds the
\* width of its C type.
THEOREM TypeCorrect == Spec => []TypeOK
<1>1. IInv => TypeOK BY DEF IInv
<1> QED BY <1>1, Invariance, PTL

\* RSP stays in the stack region, a whole number of frames from its end,
\* for every layout whose stack region holds at least one frame.
THEOREM StackSafe == Spec => []StackDiscipline
<1>1. IInv => StackDiscipline BY DEF IInv
<1> QED BY <1>1, Invariance, PTL

\* RIP is always even, so instructions are never fetched across a boundary.
THEOREM InstructionsAligned == Spec => []RipAligned
<1>1. IInv => RipAligned BY DEF IInv
<1> QED BY <1>1, Invariance, PTL

\* No assertion of memory.h can fail, so a build without them behaves alike,
\* and CALL and RET touch nothing but the stack region.
THEOREM AssertsNeverFail == Spec => []AssertsHold
<1>1. ASSUME IInv PROVE AssertsHold
  <2> SUFFICES ASSUME Running, Fetchable PROVE AssertsHold BY DEF AssertsHold
  <2>1. InBounds(rip)
        BY <1>1, FetchFits
  <2>2. ~BadAddress(Source) => InBounds(Source) BY <1>1, Operands, GoodAddress
  <2>3. ~CallOverflows
          => rsp - 2 \in RVM_MEMORY_STACK_START .. RVM_MEMORY_STACK_END - 1
        BY <1>1, PushFits, LayoutAssumption
  <2>4. ~RetOnEmptyStack
          => rsp \in RVM_MEMORY_STACK_START .. RVM_MEMORY_STACK_END - 1
        BY <1>1, PopFits, LayoutAssumption
  <2> QED BY <2>1, <2>2, <2>3, <2>4 DEF AssertsHold
<1> QED BY <1>1, Invariance, PTL

\* A word write changes no byte but its own two.
LEMMA WriteIsLocal ==
  ASSUME NEW m \in [Address -> Byte], NEW a \in Nat, NEW w \in Word,
         NEW b \in Address, rvm_memory_write_uint16(m, a, w)[b] # m[b]
  PROVE  b \in {a, a + 1}
BY DEF rvm_memory_write_uint16

\* Only a STORE can change the program, the heap or a live frame.
THEOREM WritesConfined == Spec => WritesAreConfined
<1> DEFINE Confined == instr.opcode # RVM_OP.STORE =>
                         \A a \in Address : mem'[a] # mem[a] =>
                           RVM_MEMORY_STACK_START <= a /\ a < rsp
<1>1. ASSUME IInv, Next PROVE Confined
  <2>1. CASE rvm_cpu_exec_call
    <3>1. CASE UNCHANGED mem BY <3>1
    <3>2. CASE ~CallOverflows /\ mem' = rvm_memory_write_uint16(mem, rsp - 2, NextRip)
      <4>1. NextRip \in Word
            BY <1>1, <2>1, Operands DEF rvm_cpu_exec_call, Executing
      <4>2. mem \in [Address -> Byte] /\ rsp \in Int
            BY <1>1, Pointers DEF IInv, TypeOK
      <4>3. rsp - 2 \in Nat /\ RVM_MEMORY_STACK_START <= rsp - 2
            BY <1>1, <3>2, PushFits, LayoutAssumption
      <4>4. ASSUME NEW a \in Address, mem'[a] # mem[a]
            PROVE  a \in {rsp - 2, rsp - 2 + 1}
            BY <3>2, <4>1, <4>2, <4>3, <4>4, WriteIsLocal
      <4> QED BY <4>2, <4>3, <4>4, LayoutAssumption
    <3> QED BY <2>1, <3>1, <3>2 DEF rvm_cpu_exec_call, Stop
  <2>2. CASE rvm_cpu_exec_store BY <2>2 DEF rvm_cpu_exec_store, Executing
  <2>3. CASE UNCHANGED mem BY <2>3
  <2>4. ~rvm_cpu_exec_call /\ ~rvm_cpu_exec_store => UNCHANGED mem
        BY <1>1
        DEF Next, rvm_cpu_cycle, rvm_cpu_exec_mov, rvm_cpu_exec_load,
            rvm_cpu_exec_add, rvm_cpu_exec_sub, rvm_cpu_exec_mul,
            rvm_cpu_exec_div, rvm_cpu_exec_mod, rvm_cpu_exec_shl,
            rvm_cpu_exec_shr, rvm_cpu_exec_cmp, rvm_cpu_exec_jmp,
            rvm_cpu_exec_jz, rvm_cpu_exec_jnz, rvm_cpu_exec_ret,
            RipOutOfBounds, SetRegister, WriteBack, Jump, FallThrough, Stop
  <2> QED BY <2>1, <2>2, <2>3, <2>4
<1>2. IInv /\ [Next]_vars => [Confined]_vars BY <1>1
<1> QED BY <1>2, Invariance, PTL DEF Spec, WritesAreConfined

\* A faulting instruction has had no effect, but for a RET that has popped.
THEOREM FaultPrecision == Spec => FaultsArePrecise
<1> DEFINE Precise == halt' =>
      /\ UNCHANGED <<rv, flags, mem>>
      /\ rsp' # rsp => instr.opcode = RVM_OP.RET /\ BadAddress(ReturnAddress)
<1>1. ASSUME Next PROVE Precise
  <2>1. ~halt
        BY <1>1
        DEF Next, rvm_cpu_cycle, Executing, Running, RipOutOfBounds,
            rvm_cpu_exec_mov, rvm_cpu_exec_load, rvm_cpu_exec_store,
            rvm_cpu_exec_add, rvm_cpu_exec_sub, rvm_cpu_exec_mul,
            rvm_cpu_exec_div, rvm_cpu_exec_mod, rvm_cpu_exec_shl,
            rvm_cpu_exec_shr, rvm_cpu_exec_cmp, rvm_cpu_exec_jmp,
            rvm_cpu_exec_jz, rvm_cpu_exec_jnz, rvm_cpu_exec_call, rvm_cpu_exec_ret
  <2>2. CASE rvm_cpu_exec_ret
        BY <2>1, <2>2 DEF rvm_cpu_exec_ret, Executing, Stop
  <2>3. CASE rvm_cpu_exec_store \/ rvm_cpu_exec_call
        BY <2>1, <2>3 DEF rvm_cpu_exec_store, rvm_cpu_exec_call, Stop
  <2>4. CASE rvm_cpu_exec_jmp \/ rvm_cpu_exec_jz \/ rvm_cpu_exec_jnz
        BY <2>1, <2>4
        DEF rvm_cpu_exec_jmp, rvm_cpu_exec_jz, rvm_cpu_exec_jnz, Jump,
            FallThrough, Stop
  <2>5. CASE rvm_cpu_exec_mov \/ rvm_cpu_exec_load
        BY <2>1, <2>5 DEF rvm_cpu_exec_mov, rvm_cpu_exec_load, SetRegister, Stop
  <2>6. CASE \/ rvm_cpu_exec_add \/ rvm_cpu_exec_sub \/ rvm_cpu_exec_mul
             \/ rvm_cpu_exec_div \/ rvm_cpu_exec_mod \/ rvm_cpu_exec_shl
             \/ rvm_cpu_exec_shr \/ rvm_cpu_exec_cmp
        BY <2>1, <2>6
        DEF rvm_cpu_exec_add, rvm_cpu_exec_sub, rvm_cpu_exec_mul,
            rvm_cpu_exec_div, rvm_cpu_exec_mod, rvm_cpu_exec_shl,
            rvm_cpu_exec_shr, rvm_cpu_exec_cmp, WriteBack, Stop
  <2>7. CASE RipOutOfBounds BY <2>1, <2>7 DEF RipOutOfBounds
  <2> QED BY <1>1, <2>2, <2>3, <2>4, <2>5, <2>6, <2>7 DEF Next, rvm_cpu_cycle
<1>2. [Next]_vars => [Precise]_vars BY <1>1
<1> QED BY <1>2, PTL DEF Spec, FaultsArePrecise

=============================================================================
