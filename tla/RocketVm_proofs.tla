-------------------------- MODULE RocketVm_proofs --------------------------
(***************************************************************************)
(* Theorems about rocketrun, for every layout that LayoutAssumption allows *)
(* and every file.  The lemmas about its steps say nothing of how the file *)
(* changes between them, only that it remains a sequence of bytes.         *)
(***************************************************************************)
EXTENDS RocketVm, RocketCpu_proofs

-----------------------------------------------------------------------------
(***************************************************************************)
(* The inductive invariant.  What ExitStatus says of the end is prepared   *)
(* in every phase: before the image is loaded the processor is as          *)
(* rvm_vm_create made it, and from then on the loaded file is known to be  *)
(* whole and to fit.  That a cycle never both halts and fails is what      *)
(* makes the two exits of rvm_vm_run exclude each other.                   *)
(***************************************************************************)
Phase == {"start", "opened", "measured", "read", "running", "exited"}

\* The file as far as it has been read.
Transfer ==
  /\ buf \in Seq(Byte)
  /\ size \in Nat
  /\ phase \in {"start", "opened"} => size = 0 /\ buf = <<>>
  /\ phase = "measured" => Len(buf) < size
  /\ phase = "read" => 0 < size /\ Len(buf) = size
  /\ phase = "running" => Len(buf) = size /\ size \in 1 .. RVM_MEMORY_SIZE

LoaderInv ==
  /\ phase \in Phase
  /\ Transfer
  /\ phase \in Phase \ {"running", "exited"} => Running
  /\ ~(halt /\ rc = -1)
  /\ ExitStatus

VmInv == IInv /\ LoaderInv

-----------------------------------------------------------------------------
\* What rvm_vm_create leaves, with memory of any contents.
LEMMA CreatedMachine == ASSUME rvm_vm_create, mem \in [Address -> Byte] PROVE IInv
<1>1. RVM_MEMORY_STACK_END \in Word /\ 0 \in Word BY LayoutAssumption DEF Word
<1>2. TypeOK BY <1>1 DEF rvm_vm_create, TypeOK
<1>3. StackDiscipline BY LayoutAssumption DEF rvm_vm_create, StackDiscipline
<1>4. RipAligned BY DEF rvm_vm_create, RipAligned
<1> QED BY <1>2, <1>3, <1>4 DEF IInv

LEMMA ZeroIsMemory == ZeroMemory \in [Address -> Byte]
BY DEF ZeroMemory, Byte

\* The memcpy of the image yields bytes.
LEMMA LoadedIsMemory ==
  ASSUME NEW image, image \in Seq(Byte), NEW memory, memory \in [Address -> Byte]
  PROVE  Loaded(image, memory) \in [Address -> Byte]
<1>1. \A a \in Address : a < Len(image) => image[a + 1] \in Byte
      BY LayoutAssumption DEF Address
<1> QED BY <1>1 DEF Loaded

\* Nothing is read before the program has been loaded.
LEMMA VmInitEstablishesInv == VmInit => VmInv
<1> SUFFICES ASSUME VmInit PROVE VmInv OBVIOUS
<1>1. IInv BY CreatedMachine, ZeroIsMemory DEF VmInit
<1>2. Transfer BY DEF VmInit, Transfer
<1>3. LoaderInv BY <1>2 DEF VmInit, rvm_vm_create, LoaderInv, Phase, Running, ExitStatus
<1> QED BY <1>1, <1>3 DEF VmInv

-----------------------------------------------------------------------------
(***************************************************************************)
(* The steps.                                                              *)
(***************************************************************************)
\* rvm_cpu_cycle is called only while the machine runs; a fault halts and
\* returns 0, and the one error return does not halt.
LEMMA CycleHaltsOrFails == rvm_cpu_cycle => Running /\ ~(halt' /\ rc' = -1)
<1>1. rvm_cpu_cycle => Running
      BY DEF rvm_cpu_cycle, Executing, RipOutOfBounds,
             rvm_cpu_exec_mov, rvm_cpu_exec_load, rvm_cpu_exec_store,
             rvm_cpu_exec_add, rvm_cpu_exec_sub, rvm_cpu_exec_mul,
             rvm_cpu_exec_div, rvm_cpu_exec_mod, rvm_cpu_exec_shl,
             rvm_cpu_exec_shr, rvm_cpu_exec_cmp, rvm_cpu_exec_jmp,
             rvm_cpu_exec_jz, rvm_cpu_exec_jnz, rvm_cpu_exec_call,
             rvm_cpu_exec_ret
<1>2. rvm_cpu_cycle => RipOutOfBounds \/ UNCHANGED rc
      BY DEF rvm_cpu_cycle, Stop, SetRegister, WriteBack, Jump, FallThrough,
             rvm_cpu_exec_mov, rvm_cpu_exec_load, rvm_cpu_exec_store,
             rvm_cpu_exec_add, rvm_cpu_exec_sub, rvm_cpu_exec_mul,
             rvm_cpu_exec_div, rvm_cpu_exec_mod, rvm_cpu_exec_shl,
             rvm_cpu_exec_shr, rvm_cpu_exec_cmp, rvm_cpu_exec_jmp,
             rvm_cpu_exec_jz, rvm_cpu_exec_jnz, rvm_cpu_exec_call,
             rvm_cpu_exec_ret
<1> QED BY <1>1, <1>2 DEF RipOutOfBounds, Running

\* The processor's invariant survives every step of the loader.
LEMMA RocketrunKeepsInv == ASSUME VmInv, rocketrun PROVE IInv'
<1>1. CASE Load
  <2>1. mem' \in [Address -> Byte]
        BY <1>1, LoadedIsMemory DEF Load, VmInv, LoaderInv, Transfer, IInv, TypeOK
  <2> QED BY <1>1, <2>1 DEF Load, VmInv, IInv, TypeOK, StackDiscipline, RipAligned
<1>2. CASE Cycle BY <1>2, NextKeepsInv DEF Cycle, VmInv, Next
<1>3. CASE UNCHANGED vars BY <1>3, NextKeepsInv DEF VmInv
<1>4. rocketrun => Load \/ Cycle \/ UNCHANGED vars
      BY DEF rocketrun, Advance, LibraryError, Usage, Open, Measure, EmptyFile,
             Read, ShortRead, LoadTooLarge, Finish, CycleFailed, Exit, cpu
<1> QED BY <1>1, <1>2, <1>3, <1>4

\* Every way out of main, and what is known on it.
LEMMA ExitKeepsInv ==
  ASSUME LoaderInv, phase # "exited", NEW status, Exit(status),
         halt => phase = "running" /\ status = 0,
         rc = -1 => phase = "running" /\ status = -1,
         status = 0 /\ size # 0 => halt
  PROVE  LoaderInv'
<1>1. UNCHANGED <<halt, rc, size, buf>> /\ phase' = "exited" /\ exit' = status
      BY DEF Exit, cpu, vars
<1>2. Transfer' BY <1>1 DEF LoaderInv, Transfer
<1>3. ExitStatus' BY <1>1 DEF LoaderInv, Transfer, ExitStatus
<1> QED BY <1>1, <1>2, <1>3 DEF LoaderInv, Phase

\* The reads deliver bytes of the file as it is at that moment, at most as
\* many as ftell has promised.
LEMMA ReadKeepsTransfer ==
  ASSUME Transfer, file \in Seq(Byte), Read
  PROVE  Transfer' /\ phase' \in {"measured", "read"}
<1>1. PICK n \in Len(buf) + 1 .. size :
        /\ n <= Len(file)
        /\ buf' = buf \o SubSeq(file, Len(buf) + 1, n)
        /\ phase' = IF n = size THEN "read" ELSE "measured"
      BY DEF Read
<1>2. buf \in Seq(Byte) /\ size \in Nat BY DEF Transfer
<1>3. n \in Nat /\ Len(buf) \in Nat /\ Len(buf) + 1 <= n /\ n <= size BY <1>2
<1>4. /\ SubSeq(file, Len(buf) + 1, n) \in Seq(Byte)
      /\ Len(SubSeq(file, Len(buf) + 1, n)) = n - Len(buf)
      BY <1>1, <1>3
<1>5. buf' \in Seq(Byte) /\ Len(buf') = n BY <1>1, <1>2, <1>3, <1>4
<1>6. size' = size BY DEF Read
<1>7. CASE n = size BY <1>1, <1>2, <1>3, <1>5, <1>6, <1>7 DEF Transfer
<1>8. CASE n # size BY <1>1, <1>2, <1>3, <1>5, <1>6, <1>8 DEF Transfer
<1> QED BY <1>7, <1>8, <1>1

\* One step per action of rocketrun.
LEMMA RocketrunKeepsLoaderInv ==
  ASSUME VmInv, file \in Seq(Byte), rocketrun
  PROVE  LoaderInv'
<1> USE DEF Proceed
<1>0. LoaderInv /\ Transfer BY DEF VmInv, LoaderInv
<1>1. CASE Usage
      BY <1>0, <1>1, ExitKeepsInv DEF Usage, LoaderInv, Transfer, Phase, Running
<1>2. CASE EmptyFile \/ ShortRead \/ LoadTooLarge \/ LibraryError
  <2>1. phase \in Phase \ {"running", "exited"} /\ Exit(-1)
        BY <1>2 DEF EmptyFile, ShortRead, LoadTooLarge, LibraryError, Phase
  <2> QED BY <1>0, <2>1, ExitKeepsInv DEF LoaderInv, Running
<1>3. CASE Open
      BY <1>0, <1>3 DEF Open, cpu, vars, LoaderInv, Transfer, Phase, Running, ExitStatus
<1>4. CASE Measure
  <2>1. Len(file) \in Nat /\ Len(file) > 0 BY <1>4 DEF Measure
  <2>2. Len(buf) = 0 BY <1>0, <1>4 DEF Measure, Transfer
  <2>3. Transfer' BY <1>0, <1>4, <2>1, <2>2 DEF Measure, Transfer
  <2> QED BY <1>0, <1>4, <2>3
          DEF Measure, cpu, vars, LoaderInv, Phase, Running, ExitStatus
<1>5. CASE Read
  <2>1. Transfer' /\ phase' \in {"measured", "read"} BY <1>0, <1>5, ReadKeepsTransfer
  <2> QED BY <1>0, <1>5, <2>1
          DEF Read, cpu, vars, LoaderInv, Phase, Running, ExitStatus
<1>6. CASE Load
  <2>1. size \in 1 .. RVM_MEMORY_SIZE
        BY <1>0, <1>6, LayoutAssumption DEF Load, TooLarge, Transfer
  <2>2. Transfer' BY <1>0, <1>6, <2>1 DEF Load, Transfer
  <2> QED BY <1>0, <1>6, <2>2 DEF Load, LoaderInv, Phase, Running, ExitStatus
<1>7. CASE Cycle
  <2>1. ~(halt' /\ rc' = -1) BY <1>7, CycleHaltsOrFails DEF Cycle
  <2>2. Transfer' BY <1>0, <1>7 DEF Cycle, loader, Transfer
  <2> QED BY <1>0, <1>7, <2>1, <2>2 DEF Cycle, loader, LoaderInv, ExitStatus
<1>8. CASE Finish BY <1>0, <1>8, ExitKeepsInv DEF Finish, LoaderInv
<1>9. CASE CycleFailed BY <1>0, <1>9, ExitKeepsInv DEF CycleFailed, LoaderInv
<1> QED BY <1>1, <1>2, <1>3, <1>4, <1>5, <1>6, <1>7, <1>8, <1>9 DEF rocketrun, Advance

\* What another process does to the file does not concern this one.
LEMMA RunnerUntouched ==
  ASSUME VmInv, UNCHANGED <<cpu, loader>>
  PROVE  VmInv'
<1>1. IInv' BY NextKeepsInv DEF VmInv, cpu
<1>2. LoaderInv' BY DEF VmInv, LoaderInv, Transfer, Running, ExitStatus, cpu, vars, loader
<1> QED BY <1>1, <1>2 DEF VmInv

-----------------------------------------------------------------------------
(***************************************************************************)
(* The theorems.                                                           *)
(***************************************************************************)
\* The invariant of the processor and that of the loader, together with the
\* file, in every state of rocketrun.
THEOREM VmInvariance == VmSpec => [](VmInv /\ file \in Seq(Byte))
<1>1. VmInit => VmInv /\ file \in Seq(Byte)
      BY VmInitEstablishesInv, ImagesAssumption DEF VmInit
<1>2. VmInv /\ file \in Seq(Byte) /\ [rocketrun]_vmVars => (VmInv /\ file \in Seq(Byte))'
  <2> SUFFICES ASSUME VmInv, file \in Seq(Byte), [rocketrun]_vmVars
               PROVE  VmInv' /\ file' \in Seq(Byte)
      OBVIOUS
  <2>1. CASE rocketrun
    <3>1. UNCHANGED file
          BY <2>1 DEF rocketrun, Advance, LibraryError, Usage, Open, Measure, EmptyFile,
                      Read, ShortRead, Load, LoadTooLarge, Cycle, Finish, CycleFailed, Exit
    <3> QED BY <2>1, <3>1, RocketrunKeepsInv, RocketrunKeepsLoaderInv DEF VmInv
  <2>2. CASE UNCHANGED vmVars BY <2>2, RunnerUntouched DEF vmVars, cpu
  <2> QED BY <2>1, <2>2
<1> QED BY <1>1, <1>2, PTL DEF VmSpec

\* The exit status of rocketrun: what it does and does not say about the
\* program that ran, for files of every size and content.
THEOREM ExitStatusTells == VmSpec => []ExitStatus
<1>1. VmInv => ExitStatus BY DEF VmInv, LoaderInv
<1> QED BY <1>1, VmInvariance, PTL

\* The processor keeps its widths and its stack region also between the
\* steps of the loader, which writes the memory behind its back.
THEOREM MachineStaysSafe == VmSpec => [](TypeOK /\ StackDiscipline /\ RipAligned)
<1>1. VmInv => TypeOK /\ StackDiscipline /\ RipAligned BY DEF VmInv, IInv
<1> QED BY <1>1, VmInvariance, PTL

=============================================================================
