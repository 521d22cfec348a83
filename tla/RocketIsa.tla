----------------------------- MODULE RocketIsa -----------------------------
(***************************************************************************)
(* The 16-bit instruction set shared by the assembler and the machine:     *)
(* rocketvm/common/isa.  An instruction is one word.  Formats A and B are  *)
(*     opcode:4 | reg:3 | mode:1 | operand:8                               *)
(* and format C, the control transfers, is                                 *)
(*     opcode:4 | mode:1 | operand:11                                      *)
(* Fields are taken out of and put into a word with \div, % and *, which   *)
(* is what the shifts and masks of the C code compute on a uint16_t.       *)
(***************************************************************************)
EXTENDS Integers

Byte == 0 .. 2^8 - 1
Word == 0 .. 2^16 - 1
Reg  == 0 .. 7

\* The offsets that fit in format C.
Simm11 == -1024 .. 1023

\* rvm_opcode_t: every one of the sixteen values is assigned.
RVM_OP == [ MOV |-> 0,  LOAD |-> 1,  STORE |-> 2,  ADD |-> 3,  SUB |-> 4,
            MUL |-> 5,  DIV  |-> 6,  MOD   |-> 7,  SHL |-> 8,  SHR |-> 9,
            CMP |-> 10, JMP  |-> 11, JZ    |-> 12, JNZ |-> 13,
            CALL |-> 14, RET |-> 15 ]

RVM_MODE_IMM_OR_ADDR == 0
RVM_MODE_REG         == 1

(***************************************************************************)
(* Encoding.  rvm_encode serves every rvm_<op>_imm, _reg and _addr helper  *)
(* of formats A and B; the last three serve the helpers of format C.       *)
(***************************************************************************)
\* A mode that is shifted into the register.
rvm_encode_ModeShifted(opcode, reg, mode, operand) ==
  (opcode % 16) * 4096 + (reg % 8) * 512 + (mode % 2) * 512 + (operand % 256)

rvm_encode(opcode, reg, mode, operand) ==
  (opcode % 16) * 4096 + (reg % 8) * 512 + (mode % 2) * 256 + (operand % 256)

EncodeRelative(opcode, simm) ==
  (opcode % 16) * 4096 + RVM_MODE_IMM_OR_ADDR * 2048 + (simm % 2048)

EncodeIndirect(opcode, reg) ==
  (opcode % 16) * 4096 + RVM_MODE_REG * 2048 + (reg % 8)

rvm_ret == RVM_OP.RET * 4096

(***************************************************************************)
(* Decoding.  rvm_decode splits every word as format A; the handlers of    *)
(* the control transfers take their own fields from raw.                   *)
(***************************************************************************)
rvm_decode(w) ==
  [ raw     |-> w,
    opcode  |-> w \div 4096,
    reg     |-> (w \div 512) % 8,
    mode    |-> (w \div 256) % 2,
    operand |-> w % 256 ]

BranchMode(w) == (w \div 2048) % 2
BranchReg(w)  == w % 8

\* Bit 10 is the sign of an 11-bit offset: raw | 0xF800 read as an int16_t.
BranchOffset(w) ==
  LET raw == w % 2048
  IN  IF raw >= 1024 THEN raw - 2048 ELSE raw

=============================================================================
