-------------------------- MODULE RocketAssembler --------------------------
(***************************************************************************)
(* The back end of rocketasm: what main does with a parsed program, from   *)
(* rsm_resolve_labels to the end of rsm_emit_binary.  A program is what    *)
(* rsm_parser_parse builds, see RocketProgram.                             *)
(***************************************************************************)
EXTENDS RocketProgram

CONSTANTS
  Programs,   \* the programs the parser hands over
  NDEBUG      \* whether the build drops the assertions of isa/encoder.h

ASSUME BuildAssumption == NDEBUG \in BOOLEAN
ASSUME ProgramsAssumption == \A p \in Programs : IsParsed(p)

VARIABLES
  program,    \* [instrs, labels]
  phase,      \* how far main has come
  out         \* the words in the output file; it holds something else before

vars == <<program, phase, out>>

-----------------------------------------------------------------------------
(***************************************************************************)
(* Labels.                                                                 *)
(***************************************************************************)
\* A check that forgets the first operand.
resolve_labels_Opr2Only(p) ==
  \A i \in DOMAIN p.instrs :
    p.instrs[i].opr2.type = "LABEL" =>
      find_label_address(p, p.instrs[i].opr2.label) # Undefined

\* rsm_resolve_labels looks at branch targets only, not at [label].
resolve_labels(p) ==
  \A i \in DOMAIN p.instrs : \A opr \in {"opr1", "opr2"} :
    p.instrs[i][opr].type = "LABEL" =>
      find_label_address(p, p.instrs[i][opr].label) # Undefined

\* The cast to int16_t in rsm_encode_instr.
Int16(n) == ((n + 32768) % 65536) - 32768

Invalid == -1

\* A distance from the instruction itself, not from the next one.
resolve_label_FromSelf(p, name, idx) ==
  LET addr == find_label_address(p, name)
  IN  IF addr = Undefined THEN Invalid ELSE (addr - idx) * 2

\* rsm_resolve_label: the distance in bytes from the instruction after idx.
\* It is even, so that -1 can stand for an error.
resolve_label(p, name, idx) ==
  LET addr == find_label_address(p, name)
  IN  IF addr = Undefined THEN Invalid ELSE (addr - idx - 1) * 2

-----------------------------------------------------------------------------
(***************************************************************************)
(* rsm_encode_instr.  idx counts from 0.                                   *)
(***************************************************************************)
\* A memory operand that is always taken for an address.
MemoryWord_AlwaysDirect(p, opcode, reg, m) ==
  IF m.mem = "LABEL" /\ find_label_address(p, m.label) = Undefined THEN Invalid
  ELSE rvm_encode(opcode, reg, RVM_MODE_IMM_OR_ADDR,
                  IF m.mem = "LABEL" THEN find_label_address(p, m.label) ELSE m.value)

\* A memory operand whose label is not checked.
MemoryWord_Unchecked(p, opcode, reg, m) ==
  rvm_encode(opcode, reg,
             IF m.mem = "REG" THEN RVM_MODE_REG ELSE RVM_MODE_IMM_OR_ADDR,
             IF m.mem = "LABEL" THEN find_label_address(p, m.label) ELSE m.value)

\* LOAD and STORE; the address is cast to uint8_t.
MemoryWord(p, opcode, reg, m) ==
  LET addr == IF m.mem = "LABEL" THEN find_label_address(p, m.label) ELSE m.value
  IN  IF m.mem = "LABEL" /\ addr = Undefined THEN Invalid
      ELSE rvm_encode(opcode, reg,
                      IF m.mem = "REG" THEN RVM_MODE_REG ELSE RVM_MODE_IMM_OR_ADDR,
                      addr)

encode_instr(p, instr, idx) ==
  LET op == instr.opcode
      a  == instr.opr1
      b  == instr.opr2
  IN  CASE op \in TwoOperand /\ a.type = "REG" /\ b.type = "IMM" ->
             rvm_encode(op, a.value, RVM_MODE_IMM_OR_ADDR, b.value)
        [] op \in TwoOperand /\ a.type = "REG" /\ b.type = "REG" ->
             rvm_encode(op, a.value, RVM_MODE_REG, b.value)
        [] op = RVM_OP.LOAD /\ a.type = "REG" /\ b.type = "MEM" ->
             MemoryWord(p, op, a.value, b)
        [] op = RVM_OP.STORE /\ a.type = "MEM" /\ b.type = "REG" ->
             MemoryWord(p, op, b.value, a)
        [] op \in Transfers /\ a.type = "LABEL"
             /\ resolve_label(p, a.label, idx) # Invalid ->
             EncodeRelative(op, Int16(resolve_label(p, a.label, idx)))
        [] op \in Transfers /\ a.type = "REG" -> EncodeIndirect(op, a.value)
        [] op = RVM_OP.RET -> rvm_ret
        [] OTHER -> Invalid

\* The assertion of the helpers rvm_jmp_imm, rvm_jz_imm, rvm_jnz_imm and
\* rvm_call_imm: a label within reach of an 11-bit offset.
Asserted(p, instr, idx) ==
  instr.opcode \in Transfers /\ instr.opr1.type = "LABEL"
    /\ resolve_label(p, instr.opr1.label, idx) # Invalid =>
    Int16(resolve_label(p, instr.opr1.label, idx)) \in Simm11

-----------------------------------------------------------------------------
(***************************************************************************)
(* main and rsm_emit_binary.                                               *)
(***************************************************************************)
Init == /\ program \in Programs
        /\ phase = "parsed"
        /\ out = <<>>

Resolve ==
  /\ phase = "parsed"
  /\ phase' = IF resolve_labels(program) THEN "resolved" ELSE "failed"
  /\ UNCHANGED <<program, out>>

\* fopen(path, "wb") empties the file that was there.
OpenOutput ==
  /\ phase = "resolved"
  /\ phase' \in {"emitting", "failed"}
  /\ UNCHANGED <<program, out>>

Current == program.instrs[Len(out) + 1]

More == phase = "emitting" /\ Len(out) < Len(program.instrs)

\* A loop that does not look at what rsm_encode_instr returned.
EmitWord_Unchecked ==
  /\ More
  /\ NDEBUG \/ Asserted(program, Current, Len(out))
  /\ out' = Append(out, encode_instr(program, Current, Len(out)))
  /\ UNCHANGED <<program, phase>>

EmitWord ==
  LET word == encode_instr(program, Current, Len(out))
  IN  /\ More
      /\ NDEBUG \/ Asserted(program, Current, Len(out))
      /\ word # Invalid
      /\ out' = Append(out, word)
      /\ UNCHANGED <<program, phase>>

\* The words before the bad instruction stay in the file.
EmitFails ==
  /\ More
  /\ encode_instr(program, Current, Len(out)) = Invalid
  /\ phase' = "failed"
  /\ UNCHANGED <<program, out>>

\* abort() does not flush: some of the words may never reach the file.
AssertFails ==
  /\ More
  /\ ~NDEBUG
  /\ ~Asserted(program, Current, Len(out))
  /\ phase' = "aborted"
  /\ \E n \in 0 .. Len(out) : out' = SubSeq(out, 1, n)
  /\ UNCHANGED program

CloseOutput ==
  /\ phase = "emitting"
  /\ Len(out) = Len(program.instrs)
  /\ phase' = "done"
  /\ UNCHANGED <<program, out>>

Next == Resolve \/ OpenOutput \/ EmitWord \/ EmitFails \/ AssertFails \/ CloseOutput

Spec == Init /\ [][Next]_vars

-----------------------------------------------------------------------------
(***************************************************************************)
(* Properties: what the words mean to the processor, which loads word i,   *)
(* counted from 1, at address 2 * i - 2 and has RIP = 2 * i when the       *)
(* instruction executes.                                                   *)
(***************************************************************************)
\* A file of words, never of more than the program has instructions.
TypeOK ==
  /\ phase \in {"parsed", "resolved", "emitting", "failed", "aborted", "done"}
  /\ out \in Seq(Word)
  /\ Len(out) <= Len(program.instrs)
  /\ phase = "done" => Len(out) = Len(program.instrs)

Instr(i) == program.instrs[i]

\* Every emitted transfer to a label, forward or backward, lands on the
\* instruction that follows a definition of the label, the first one if
\* rsm_parser_parse has let a second one pass.
BranchesReachTheirLabels ==
  \A i \in DOMAIN out :
    Instr(i).opcode \in Transfers /\ Instr(i).opr1.type = "LABEL" =>
      /\ BranchMode(out[i]) = RVM_MODE_IMM_OR_ADDR
      /\ \E j \in DOMAIN program.labels :
           /\ program.labels[j].name = Instr(i).opr1.label
           /\ \A k \in 1 .. j - 1 : program.labels[k].name # Instr(i).opr1.label
           /\ (2 * i + BranchOffset(out[i]) - 2 * program.labels[j].address) % 65536 = 0

\* The processor decodes from a word the operation, the register and the
\* operand of the source instruction.
OperandsSurvive ==
  \A i \in DOMAIN out :
    LET d == rvm_decode(out[i])
        a == Instr(i).opr1
        b == Instr(i).opr2
        Denotes(opr) == IF opr.type = "REG" \/ opr.mem = "REG"
                        THEN d.mode = RVM_MODE_REG /\ d.operand % 8 = opr.value
                        ELSE /\ d.mode = RVM_MODE_IMM_OR_ADDR
                             /\ opr.mem # "LABEL" => d.operand = opr.value
    IN  /\ d.opcode = Instr(i).opcode
        /\ d.opcode \in TwoOperand \cup {RVM_OP.LOAD} => d.reg = a.value /\ Denotes(b)
        /\ d.opcode = RVM_OP.STORE => d.reg = b.value /\ Denotes(a)
        /\ d.opcode \in Transfers /\ a.type = "REG" =>
             BranchMode(out[i]) = RVM_MODE_REG /\ BranchReg(out[i]) = a.value

\* A program is assembled only if every label it uses is defined, those in
\* brackets included, which rsm_resolve_labels does not look at.  The parser
\* lets a branch have a second operand; if that is in brackets, nobody reads it.
NothingUndefinedIsAssembled ==
  phase = "done" =>
    \A i \in DOMAIN out : \A opr \in {"opr1", "opr2"} :
      (\/ Instr(i)[opr].type = "LABEL"
       \/ Instr(i)[opr].mem = "LABEL" /\ Instr(i).opcode \notin Transfers) =>
        \E j \in DOMAIN program.labels : program.labels[j].name = Instr(i)[opr].label

=============================================================================
