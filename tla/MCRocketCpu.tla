---------------------------- MODULE MCRocketCpu ----------------------------
(***************************************************************************)
(* Programs for the model checker: every program of a few instructions     *)
(* taken from a menu.  In the small machine of the .cfg files (48 bytes, a *)
(* program region of 16, a stack of three frames) every boundary of the    *)
(* layout is within reach of such a program, and the program runs into     *)
(* the zero bytes behind it, which are MOV rv0, 0.                         *)
(***************************************************************************)
EXTENDS RocketCpu, MCImages

\* Calls and returns: forward, onto themselves, through a register.
Calls ==
  { EncodeRelative(RVM_OP.CALL, -2), EncodeRelative(RVM_OP.CALL, 2),
    EncodeIndirect(RVM_OP.CALL, 0), rvm_ret,
    EncodeRelative(RVM_OP.JZ, 2), EncodeRelative(RVM_OP.JMP, -4),
    Imm(RVM_OP.MOV, 0, 4) }

\* Transfers to an odd address, out of memory and into the heap.
Jumps ==
  { EncodeRelative(RVM_OP.CALL, 1), EncodeRelative(RVM_OP.JMP, 64),
    EncodeRelative(RVM_OP.JNZ, -7), EncodeIndirect(RVM_OP.JMP, 0),
    Imm(RVM_OP.MOV, 0, 46), Imm(RVM_OP.CMP, 0, 4) }

\* Loads and stores: of the program, of the stack and beyond memory.  The
\* even address 28 straddles the first two frames, at 29 and 27.
Memory ==
  { Imm(RVM_OP.LOAD, 0, 28), Imm(RVM_OP.LOAD, 0, 48),
    Imm(RVM_OP.STORE, 0, 4), Imm(RVM_OP.STORE, 0, 28),
    Imm(RVM_OP.STORE, 0, 31), Rr(RVM_OP.STORE, 0, 0) }

\* Arithmetic; no jump, so that no register can count for ever.
Arithmetic ==
  { Imm(op, 0, imm) : op \in 3 .. 10, imm \in {0, 1, 9, 255} }
    \cup { Rr(op, 0, 1) : op \in 3 .. 10 }
    \cup { Imm(RVM_OP.MOV, 0, 255), Imm(RVM_OP.MOV, 1, 255),
           Rr(RVM_OP.MUL, 0, 0), Rr(RVM_OP.MOV, 1, 0),
           EncodeRelative(RVM_OP.JZ, 0), EncodeRelative(RVM_OP.JNZ, 0) }

StoreImages   == Programs(Calls \cup Jumps \cup Memory, 3)
NoStoreImages == Programs(Calls, 4) \cup Programs(Arithmetic, 3)

-----------------------------------------------------------------------------
(***************************************************************************)
(* A program for the layout of memory.h itself.                            *)
(***************************************************************************)
\* A jump to the last word of the program region, 0x7FFE.
LastWord == << Imm(RVM_OP.MOV, 0, 127), Imm(RVM_OP.SHL, 0, 8),
               Imm(RVM_OP.ADD, 0, 254), EncodeIndirect(RVM_OP.JMP, 0) >>

LastWordImages == {BytesOf(LastWord)}

-----------------------------------------------------------------------------
\* specification/Architecture.md:60 gives the program the bytes 0x0000 to
\* 0x7FFF: a cycle should fail only where no whole instruction is left.
ProgramRegionIsExecutable == rc = -1 => rip + 1 > RVM_MEMORY_PROGRAM_END

=============================================================================
