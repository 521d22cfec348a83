------------------------------ MODULE RocketVm ------------------------------
(***************************************************************************)
(* A run of rocketrun: main, rvm_vm_load with rvm_io_read_file, and the    *)
(* loop of rvm_vm_run around the processor.  The file is read in several   *)
(* library calls, between which another process may change it.             *)
(***************************************************************************)
EXTENDS RocketCpu

VARIABLES
  phase,    \* how far main has come
  size,     \* what ftell reported
  buf,      \* what fread delivered
  exit,     \* the value main returns; 0 until it does
  file      \* the bytes at the path of the program

cpu == vars
loader == <<phase, size, buf, exit>>
vmVars == <<vars, loader, file>>

\* The machine that rvm_vm_create returns exists from the start: nothing
\* reads it before.
VmInit ==
  /\ rvm_vm_create
  /\ mem = ZeroMemory
  /\ phase = "start"
  /\ size = 0
  /\ buf = <<>>
  /\ exit = 0
  /\ file \in Images

-----------------------------------------------------------------------------
\* Every path out of main.
Exit(status) ==
  /\ phase' = "exited"
  /\ exit' = status
  /\ UNCHANGED <<cpu, size, buf, file>>

Proceed(from, to) == phase = from /\ phase' = to

\* main without an argument.
Usage == phase = "start" /\ Exit(0)

\* access, the allocation of the machine and fopen succeed; none of them
\* looks into the file.
Open == Proceed("start", "opened") /\ UNCHANGED <<cpu, size, buf, exit, file>>

\* fseek to the end and ftell.
Measure ==
  /\ Proceed("opened", "measured")
  /\ file # <<>>
  /\ size' = Len(file)
  /\ UNCHANGED <<cpu, buf, exit, file>>

EmptyFile == phase = "opened" /\ file = <<>> /\ Exit(-1)

\* A read that takes a short count for success and leaves the rest of the
\* buffer as malloc returned it, here zero.
Read_ShortAccepted ==
  /\ Proceed("measured", "read")
  /\ buf' = [i \in 1 .. size |-> IF i <= Len(file) THEN file[i] ELSE 0]
  /\ UNCHANGED <<cpu, size, exit, file>>

\* fread of size bytes may take several reads of the file, each of which
\* delivers some of the bytes that are there at that moment.
Read ==
  /\ phase = "measured"
  /\ \E n \in Len(buf) + 1 .. size :
       /\ n <= Len(file)
       /\ buf' = buf \o SubSeq(file, Len(buf) + 1, n)
       /\ phase' = IF n = size THEN "read" ELSE "measured"
  /\ UNCHANGED <<cpu, size, exit, file>>

\* The file ends before size bytes are read.
ShortRead ==
  phase = "measured" /\ Len(file) <= Len(buf) /\ Exit(-1)

\* access, malloc, fopen, fseek, ftell or fread reports an error.
LibraryError ==
  phase \in {"start", "opened", "measured"} /\ Exit(-1)

TooLarge == size > RVM_MEMORY_SIZE

Load ==
  /\ Proceed("read", "running")
  /\ ~TooLarge
  /\ mem' = Loaded(buf, mem)
  /\ UNCHANGED <<rv, rip, rsp, flags, halt, rc, size, buf, exit, file>>

LoadTooLarge == phase = "read" /\ TooLarge /\ Exit(-1)

-----------------------------------------------------------------------------
\* rvm_vm_run
Cycle == phase = "running" /\ rvm_cpu_cycle /\ UNCHANGED <<loader, file>>

\* An exit status that reports a fault of the program as a failure, which
\* the code does not.
Finish_FaultsFail == phase = "running" /\ halt /\ Exit(IF rsp = RVM_MEMORY_STACK_END THEN 0 ELSE -1)

Finish == phase = "running" /\ halt /\ Exit(0)

CycleFailed == phase = "running" /\ ~halt /\ rc = -1 /\ Exit(-1)

\* A step of rocketrun in which no library call fails.
Advance ==
  \/ Usage \/ Open \/ Measure \/ EmptyFile
  \/ Read \/ ShortRead \/ Load \/ LoadTooLarge
  \/ Cycle \/ Finish \/ CycleFailed

rocketrun == Advance \/ LibraryError

(***************************************************************************)
(* rocketrun is one thread that is never blocked for ever, so a step it    *)
(* can take it takes; that a library call fails is never assumed.          *)
(***************************************************************************)
VmSpec == VmInit /\ [][rocketrun]_vmVars /\ WF_vmVars(Advance)

-----------------------------------------------------------------------------
(***************************************************************************)
(* Properties.                                                             *)
(***************************************************************************)
\* What the exit status of rocketrun says: 0 for every halt, that of a fault
\* included, and -1 for a file that cannot be loaded and for a program that
\* ran out of the program region.  A program that has halted or has been run
\* to the end of that region is a whole file that fits the memory.
ExitStatus ==
  phase = "exited" =>
    /\ halt => exit = 0
    /\ rc = -1 => exit = -1
    /\ halt \/ rc = -1 => size = Len(buf) /\ size \in 1 .. RVM_MEMORY_SIZE
    /\ exit = 0 /\ size # 0 => halt

=============================================================================
