-------------------------- MODULE RocketToolchain --------------------------
(***************************************************************************)
(* rocketasm and rocketrun on one file: the assembler, from the text to    *)
(* the bytes on disk, writes the path that the machine loads and runs.     *)
(* Nothing synchronises the two processes; rocketrun may be started when   *)
(* rocketasm has returned, or at any moment before.                        *)
(*                                                                         *)
(* Between fwrite and the file is the buffer of stdio, which is written    *)
(* out whenever the library likes, when fclose is called, and at exit.     *)
(* The Release build of rocketasm is modelled: its assertions are in       *)
(* RocketAssembler.                                                        *)
(***************************************************************************)
EXTENDS RocketVm

CONSTANTS
  Texts,        \* what the input file may hold
  Capacity, UINT16_MAX, LongIsWide     \* see RocketParser and RocketLexer

VARIABLES
  src, tokens, held,   \* the front end of rocketasm, see RocketParser
  program,     \* what it has parsed
  asm,         \* how far main of rocketasm has come
  out,         \* the words it has handed to fwrite
  pending,     \* the bytes of them that are still in the buffer of stdio
  old,         \* what was in the file before
  launched     \* how far rocketasm had come when rocketrun was started

text == <<src, tokens, held>>
output == <<out, pending>>
assembler == <<text, program, asm, output>>
runner == <<cpu, loader>>
toolVars == <<runner, file, assembler, old, launched>>

\* The two halves of rocketasm, with what is proved about them.  The second
\* starts with what the first has built and not in its own Init, so that no
\* program has to be given.  The build has no assertions.
P == INSTANCE RocketParser_proofs WITH phase <- asm
A == INSTANCE RocketAssembler_proofs WITH phase <- asm, Programs <- {}, NDEBUG <- TRUE

ASSUME FrontEndAssumption ==
  /\ Capacity \in Nat \ {0}
  /\ UINT16_MAX \in Word
  /\ LongIsWide \in BOOLEAN
  /\ \A t \in Texts : t \in Seq(STRING)

ToolInit ==
  /\ VmInit
  /\ P!Init
  /\ out = <<>>
  /\ pending = <<>>
  /\ old = file
  /\ launched = "never"

-----------------------------------------------------------------------------
(***************************************************************************)
(* rocketasm.                                                              *)
(***************************************************************************)
\* What only one of the two processes knows.
AsmOnly == UNCHANGED <<runner, old, launched>>

Parse == P!FrontEnd /\ UNCHANGED <<output, file>> /\ AsmOnly

ResolveLabels == A!Resolve /\ UNCHANGED <<text, pending, file>> /\ AsmOnly

\* fopen(path, "wb") empties the file, if it succeeds.
OpenOutput ==
  /\ A!OpenOutput
  /\ file' = IF asm' = "emitting" THEN <<>> ELSE file
  /\ UNCHANGED <<text, pending>>
  /\ AsmOnly

\* Bytes of a word in the order of a big-endian machine.
WordBytes_BigEndian(word) == <<word \div 256, word % 256>>

WordBytes(word) == <<word % 256, word \div 256>>

\* fwrite copies the word into the buffer.
Emit ==
  /\ A!EmitWord
  /\ pending' = pending \o WordBytes(out'[Len(out')])
  /\ UNCHANGED <<text, file>>
  /\ AsmOnly

\* The library writes some of the buffer to the file.
Flush ==
  /\ asm = "emitting"
  /\ \E n \in 1 .. Len(pending) :
       /\ file' = file \o SubSeq(pending, 1, n)
       /\ pending' = SubSeq(pending, n + 1, Len(pending))
  /\ UNCHANGED <<text, program, asm, out>>
  /\ AsmOnly

\* A write fails; what was in the buffer is lost, and fwrite may still have
\* reported that it took all of it.
FlushFails ==
  /\ asm = "emitting"
  /\ pending # <<>>
  /\ pending' = <<>>
  /\ UNCHANGED <<text, program, asm, out, file>>
  /\ AsmOnly

\* The last flush, of fclose or of exit; it too may fail.
LastFlush ==
  /\ \E n \in 0 .. Len(pending) : file' = file \o SubSeq(pending, 1, n)
  /\ pending' = <<>>

CloseOutput == A!CloseOutput /\ LastFlush /\ UNCHANGED text /\ AsmOnly

\* rsm_emit_binary returns without fclose; exit closes the file.
EmitFails == A!EmitFails /\ LastFlush /\ UNCHANGED text /\ AsmOnly

rocketasm ==
  \/ Parse \/ ResolveLabels \/ OpenOutput \/ Emit \/ Flush \/ FlushFails
  \/ CloseOutput \/ EmitFails

-----------------------------------------------------------------------------
\* Every step of rocketrun; the first ends with the fopen.
Run ==
  /\ rocketrun
  /\ launched' = IF phase = "start" THEN asm ELSE launched
  /\ UNCHANGED <<assembler, old>>

RunAdvances == Run /\ Advance

ToolNext == rocketasm \/ Run

(***************************************************************************)
(* Two threads that wait for nothing, each of which goes on as long as it  *)
(* can.                                                                    *)
(***************************************************************************)
ToolSpec ==
  ToolInit /\ [][ToolNext]_toolVars /\ WF_toolVars(rocketasm) /\ WF_toolVars(RunAdvances)

-----------------------------------------------------------------------------
(***************************************************************************)
(* Properties.                                                             *)
(***************************************************************************)
\* Where rocketasm can end.
AsmEnded == {"usage", "error", "rejected", "failed", "done"}

\* No write has failed: every byte is in the file or in the buffer.
NothingLost == Len(file) + Len(pending) >= 2 * Len(out)

\* What a rocketrun that raced with the assembler runs: bytes of the old file
\* up to some point and of the new program from there on, at the places they
\* have in these files, and never anything else.
RunsOldThenNew ==
  LET Emitted(i) == WordBytes(out[(i + 1) \div 2])[IF i % 2 = 1 THEN 1 ELSE 2]
  IN  NothingLost => \E k \in 0 .. Len(buf) :
        /\ k <= Len(old) /\ SubSeq(buf, 1, k) = SubSeq(old, 1, k)
        /\ 2 * Len(out) >= Len(buf) \/ k = Len(buf)
        /\ \A i \in k + 1 .. Len(buf) : buf[i] = Emitted(i)

\* A rocketrun started after a successful rocketasm has the whole program in
\* its memory, each instruction where the fetch looks for it.
RunsWhatWasAssembled ==
  launched = "done" /\ phase = "running" /\ NothingLost =>
    /\ size = 2 * Len(program.instrs)
    /\ \A i \in 1 .. Len(program.instrs) :
         2 * i <= RVM_MEMORY_PROGRAM_END =>
           rvm_memory_read_uint16(mem, 2 * i - 2) = out[i]

\* What the processor finds in a word of an operand of its line, the first or
\* the second of them: STORE has its address first, and a branch nothing but
\* a label or a register.
OperandFound(word, operand, isFirst) ==
  LET d        == rvm_decode(word)
      transfer == d.opcode \in P!Transfers
      inReg    == ~transfer /\ (isFirst <=> d.opcode # RVM_OP.STORE)
      isReg    == operand.type = "REG"
  IN  /\ inReg => d.reg = operand.value
      /\ transfer /\ isFirst /\ isReg =>
           BranchMode(word) = RVM_MODE_REG /\ BranchReg(word) = operand.value
      /\ ~transfer /\ ~inReg /\ isReg =>
           d.mode = RVM_MODE_REG /\ d.operand % 8 = operand.value
      /\ ~transfer /\ ~inReg /\ operand.type = "NUMBER" /\ operand.value \in Byte =>
           d.mode = RVM_MODE_IMM_OR_ADDR /\ d.operand = operand.value

\* From the characters of a line to what the processor decodes when RIP gets
\* there: the operation, the registers and the numbers, as far as they are
\* bytes, in the order in which the line has them.
RunsTheText ==
  launched = "done" /\ phase = "running" /\ NothingLost =>
    \A n \in DOMAIN tokens :
      LET addr == 2 * P!OpcodesBefore(n)
          word == rvm_memory_read_uint16(mem, addr)
      IN  tokens[n].type = "OPCODE" /\ addr + 2 <= RVM_MEMORY_PROGRAM_END =>
            /\ rvm_decode(word).opcode = tokens[n].value
            /\ \A k \in P!Mentioned(n) :
                 OperandFound(word, tokens[k], \A l \in P!Mentioned(n) : k <= l)

\* The transfer the next cycle executes is one that jumps.
Taken == \/ instr.opcode \in {RVM_OP.JMP, RVM_OP.CALL}
         \/ instr.opcode = RVM_OP.JZ /\ "RZ" \in flags
         \/ instr.opcode = RVM_OP.JNZ /\ "RZ" \notin flags

\* A transfer to a label that is taken and does not fault continues with the
\* instruction that follows the first definition of the label in the text.
BranchFollowsTheText ==
  phase = "running" /\ launched = "done" /\ NothingLost /\ Running /\ Fetchable
    /\ Taken /\ ~halt' /\ program.instrs[(rip \div 2) + 1].opr1.type = "LABEL" =>
  \E j \in DOMAIN program.labels :
    /\ program.labels[j].name = program.instrs[(rip \div 2) + 1].opr1.label
    /\ \A k \in 1 .. j - 1 : program.labels[k].name # program.labels[j].name
    /\ rip' = 2 * program.labels[j].address

\* The branches of the running program go where the text says, from the label
\* the parser has read to the RIP of the machine.
BranchesFollowTheText == [][BranchFollowsTheText]_toolVars

\* Text that names a label it does not define as a branch target never costs
\* the file that was there: it is found before the file is opened.
UndefinedTargetsKeepTheFile ==
  LET Undefined(opr) ==
        opr.type = "LABEL" /\ \A j \in DOMAIN program.labels : program.labels[j].name # opr.label
  IN  asm \in AsmEnded /\ (\E i \in DOMAIN program.instrs : Undefined(program.instrs[i].opr1))
        => file = old

\* Both processes end, whatever the other one does, if the programs in the
\* texts and in the old file have no backward jump.
BothEnd == <>(asm \in AsmEnded) /\ <>(phase = "exited")

\* rsm_emit_binary says "written to" and returns 0 (emitter.c:33): then the
\* file holds the program.
SuccessMeansWritten ==
  asm = "done" =>
    /\ Len(file) = 2 * Len(program.instrs)
    /\ \A i \in DOMAIN out : <<file[2 * i - 1], file[2 * i]>> = WordBytes(out[i])

=============================================================================
