----------------------- MODULE RocketAssembler_proofs -----------------------
(***************************************************************************)
(* Proofs about the back end of the assembler, for every set of programs   *)
(* that satisfies ProgramsAssumption, of any length.  First what the       *)
(* fields of an encoded word are, then what a label lookup finds, then     *)
(* which word rsm_encode_instr returns, and last the invariant of the      *)
(* loop in rsm_emit_binary, from which the four theorems follow.           *)
(***************************************************************************)
EXTENDS RocketAssembler, TLAPS, NaturalsInduction, WellFoundedInduction

-----------------------------------------------------------------------------
(***************************************************************************)
(* What the processor decodes from an encoded word.                        *)
(***************************************************************************)
\* Formats A and B: the fields come back, cut to their widths.
LEMMA EncodedFields ==
  ASSUME NEW op, op \in 0 .. 15, NEW reg, reg \in Nat, NEW mode, mode \in {0, 1},
         NEW opr, opr \in Nat, NEW w, w = rvm_encode(op, reg, mode, opr)
  PROVE  /\ w \in Word
         /\ rvm_decode(w).opcode = op
         /\ rvm_decode(w).reg = reg % 8
         /\ rvm_decode(w).mode = mode
         /\ rvm_decode(w).operand = opr % 256
<1>1. PICK r \in 0 .. 7 : r = reg % 8 OBVIOUS
<1>2. PICK b \in 0 .. 255 : b = opr % 256 OBVIOUS
<1>3. w = op * 4096 + r * 512 + mode * 256 + b BY <1>1, <1>2 DEF rvm_encode
<1>4. w \in Word /\ w \div 4096 = op BY <1>3 DEF Word
<1>5. (w \div 512) % 8 = r
  <2>1. w \div 512 = 8 * op + r BY <1>3
  <2> QED BY <2>1
<1>6. (w \div 256) % 2 = mode
  <2>1. w \div 256 = 16 * op + 2 * r + mode BY <1>3
  <2> QED BY <2>1
<1>7. w % 256 = b BY <1>3
<1> QED BY <1>1, <1>2, <1>4, <1>5, <1>6, <1>7 DEF rvm_decode

\* Format C with an offset: it comes back if it fits in 11 bits.
LEMMA RelativeFields ==
  ASSUME NEW op, op \in 0 .. 15, NEW s, s \in Int, NEW w, w = EncodeRelative(op, s)
  PROVE  /\ w \in Word
         /\ rvm_decode(w).opcode = op
         /\ BranchMode(w) = RVM_MODE_IMM_OR_ADDR
         /\ s \in Simm11 => BranchOffset(w) = s
<1>1. PICK u \in 0 .. 2047 : u = s % 2048 OBVIOUS
<1>2. w = op * 4096 + u BY <1>1 DEF EncodeRelative, RVM_MODE_IMM_OR_ADDR
<1>3. w \in Word /\ w \div 4096 = op /\ w % 2048 = u BY <1>2 DEF Word
<1>4. BranchMode(w) = RVM_MODE_IMM_OR_ADDR
  <2>1. w \div 2048 = 2 * op BY <1>2
  <2> QED BY <2>1 DEF BranchMode, RVM_MODE_IMM_OR_ADDR
<1>5. ASSUME s \in Simm11 PROVE BranchOffset(w) = s
  <2>1. -1024 <= s /\ s <= 1023 BY <1>5 DEF Simm11
  <2>2. CASE s >= 0
    <3>1. u = s BY <1>1, <2>1, <2>2
    <3> QED BY <1>3, <2>1, <3>1 DEF BranchOffset
  <2>3. CASE s < 0
    <3>1. u = s + 2048 BY <1>1, <2>1, <2>3
    <3> QED BY <1>3, <2>1, <3>1 DEF BranchOffset
  <2> QED BY <2>2, <2>3
<1> QED BY <1>3, <1>4, <1>5 DEF rvm_decode

\* Format C with a register.
LEMMA IndirectFields ==
  ASSUME NEW op \in 0 .. 15, NEW reg \in Reg, NEW w, w = EncodeIndirect(op, reg)
  PROVE  /\ w \in Word
         /\ rvm_decode(w).opcode = op
         /\ BranchMode(w) = RVM_MODE_REG
         /\ BranchReg(w) = reg
<1>1. reg \in 0 .. 7 BY DEF Reg
<1>2. w = op * 4096 + 2048 + reg BY <1>1 DEF EncodeIndirect, RVM_MODE_REG
<1>3. w \in Word /\ w \div 4096 = op /\ w % 8 = reg BY <1>1, <1>2 DEF Word
<1>4. w \div 2048 = 2 * op + 1 BY <1>1, <1>2
<1> QED BY <1>3, <1>4 DEF rvm_decode, BranchMode, BranchReg, RVM_MODE_REG

\* The cast to int16_t loses a multiple of 65536.
LEMMA Int16Wraps ==
  ASSUME NEW n \in Int
  PROVE  Int16(n) \in Int /\ (n - Int16(n)) % 65536 = 0
BY DEF Int16

-----------------------------------------------------------------------------
(***************************************************************************)
(* Labels.                                                                 *)
(***************************************************************************)
\* A set of natural numbers that is not empty has a least element.
LEMMA LeastNatural ==
  ASSUME NEW T \in SUBSET Nat, T # {}
  PROVE  \E x \in T : \A y \in T : x <= y
<1> DEFINE R == {p \in Nat \X Nat : p[1] < p[2]}
<1>1. IsWellFoundedOn(R, Nat) BY NatLessThanWellFounded DEF OpToRel
<1>2. \A x, y \in Nat : x < y => <<x, y>> \in R OBVIOUS
<1> HIDE DEF R
<1>3. PICK x \in T : \A y \in T : <<y, x>> \notin R BY <1>1, WFMin
<1>4. ASSUME NEW y \in T PROVE x <= y
  <2>1. x \in Nat /\ y \in Nat OBVIOUS
  <2>2. ~(y < x) BY <1>2, <1>3, <2>1
  <2> QED BY <2>1, <2>2
<1> QED BY <1>4

\* What a lookup finds is the first definition of the name.
LEMMA FirstDefinition ==
  ASSUME NEW p, IsParsed(p), NEW name, find_label_address(p, name) # Undefined
  PROVE  \E j \in DOMAIN p.labels :
           /\ p.labels[j].name = name
           /\ \A k \in 1 .. j - 1 : p.labels[k].name # name
           /\ find_label_address(p, name) = p.labels[j].address
           /\ p.labels[j].address \in Word
<1> DEFINE named == {i \in DOMAIN p.labels : p.labels[i].name = name}
<1>1. DOMAIN p.labels = 1 .. Len(p.labels) /\ Len(p.labels) \in Nat
      BY DEF IsParsed, IsArray
<1>2. named \in SUBSET Nat BY <1>1
<1>3. named # {} BY DEF find_label_address
<1>4. PICK j : j = CHOOSE i \in named : \A k \in named : i <= k OBVIOUS
<1>5. j \in named /\ \A k \in named : j <= k
  <2> HIDE DEF named
  <2>1. \E i \in named : \A k \in named : i <= k BY <1>2, <1>3, LeastNatural
  <2> QED BY <1>4, <2>1
<1>6. find_label_address(p, name) = p.labels[j].address
      BY <1>3, <1>4 DEF find_label_address
<1>7. ASSUME NEW k \in 1 .. j - 1 PROVE p.labels[k].name # name
  <2>1. k \in DOMAIN p.labels /\ k < j BY <1>1, <1>2, <1>5
  <2> QED BY <1>2, <1>5, <2>1
<1>8. p.labels[j].address \in Word BY <1>5 DEF IsParsed
<1> QED BY <1>5, <1>6, <1>7, <1>8

-----------------------------------------------------------------------------
(***************************************************************************)
(* What an encoded instruction is, one lemma for each kind of operation.   *)
(***************************************************************************)
\* The opcodes fall into five kinds.
LEMMA OpcodeKinds ==
  ASSUME NEW op \in 0 .. 15
  PROVE  \/ op \in TwoOperand /\ op \notin Transfers
            /\ op # RVM_OP.LOAD /\ op # RVM_OP.STORE /\ op # RVM_OP.RET
         \/ op = RVM_OP.LOAD /\ op \notin Transfers /\ op \notin TwoOperand
            /\ op # RVM_OP.STORE /\ op # RVM_OP.RET
         \/ op = RVM_OP.STORE /\ op \notin Transfers /\ op \notin TwoOperand
            /\ op # RVM_OP.LOAD /\ op # RVM_OP.RET
         \/ op \in Transfers /\ op \notin TwoOperand
            /\ op # RVM_OP.LOAD /\ op # RVM_OP.STORE /\ op # RVM_OP.RET
         \/ op = RVM_OP.RET /\ op \notin TwoOperand /\ op \notin Transfers
            /\ op # RVM_OP.LOAD /\ op # RVM_OP.STORE
BY DEF TwoOperand, Transfers, RVM_OP

\* MOV, the arithmetic and CMP take a register, then a number or a register.
LEMMA EncodeTwoOperand ==
  ASSUME NEW p, NEW instr, instr.opcode \in TwoOperand, NEW idx,
         instr.opcode \in 0 .. 15, encode_instr(p, instr, idx) # Invalid
  PROVE  /\ instr.opr1.type = "REG"
         /\ instr.opr2.type \in {"IMM", "REG"}
         /\ encode_instr(p, instr, idx) =
              rvm_encode(instr.opcode, instr.opr1.value,
                         IF instr.opr2.type = "REG" THEN RVM_MODE_REG
                         ELSE RVM_MODE_IMM_OR_ADDR, instr.opr2.value)
<1> USE DEF encode_instr
<1> HIDE DEF rvm_encode
<1>1. instr.opcode \notin Transfers /\ instr.opcode # RVM_OP.LOAD
      /\ instr.opcode # RVM_OP.STORE /\ instr.opcode # RVM_OP.RET
      BY OpcodeKinds
<1> QED BY <1>1

\* LOAD and STORE take a register and a memory operand.
LEMMA EncodeMemory ==
  ASSUME NEW p, NEW instr, instr.opcode \in {RVM_OP.LOAD, RVM_OP.STORE}, NEW idx,
         instr.opcode \in 0 .. 15, encode_instr(p, instr, idx) # Invalid
  PROVE  \/ /\ instr.opcode = RVM_OP.LOAD
            /\ instr.opr1.type = "REG" /\ instr.opr2.type = "MEM"
            /\ encode_instr(p, instr, idx) =
                 MemoryWord(p, instr.opcode, instr.opr1.value, instr.opr2)
         \/ /\ instr.opcode = RVM_OP.STORE
            /\ instr.opr1.type = "MEM" /\ instr.opr2.type = "REG"
            /\ encode_instr(p, instr, idx) =
                 MemoryWord(p, instr.opcode, instr.opr2.value, instr.opr1)
<1> USE DEF encode_instr
<1>1. instr.opcode \notin Transfers /\ instr.opcode \notin TwoOperand
      /\ instr.opcode # RVM_OP.RET /\ RVM_OP.LOAD # RVM_OP.STORE
      BY OpcodeKinds DEF RVM_OP
<1> QED BY <1>1

\* A branch takes a label that is defined, or a register.
LEMMA EncodeBranch ==
  ASSUME NEW p, NEW instr, instr.opcode \in Transfers, NEW idx,
         instr.opcode \in 0 .. 15, encode_instr(p, instr, idx) # Invalid
  PROVE  \/ /\ instr.opr1.type = "LABEL"
            /\ resolve_label(p, instr.opr1.label, idx) # Invalid
            /\ encode_instr(p, instr, idx) =
                 EncodeRelative(instr.opcode, Int16(resolve_label(p, instr.opr1.label, idx)))
         \/ /\ instr.opr1.type = "REG"
            /\ encode_instr(p, instr, idx) = EncodeIndirect(instr.opcode, instr.opr1.value)
<1> USE DEF encode_instr
<1>1. instr.opcode \notin TwoOperand /\ instr.opcode # RVM_OP.LOAD
      /\ instr.opcode # RVM_OP.STORE /\ instr.opcode # RVM_OP.RET
      BY OpcodeKinds
<1> QED BY <1>1

\* RET takes nothing.
LEMMA EncodeRet ==
  ASSUME NEW p, NEW instr, instr.opcode = RVM_OP.RET, NEW idx
  PROVE  encode_instr(p, instr, idx) = rvm_ret
<1> USE DEF encode_instr
<1>1. instr.opcode \notin TwoOperand /\ instr.opcode # RVM_OP.LOAD
      /\ instr.opcode # RVM_OP.STORE /\ instr.opcode \notin Transfers
      BY DEF TwoOperand, Transfers, RVM_OP
<1> QED BY <1>1

\* What a LOAD or a STORE keeps of its two operands.
LEMMA MemoryFields ==
  ASSUME NEW p, IsParsed(p), NEW op \in {RVM_OP.LOAD, RVM_OP.STORE}, NEW reg \in Reg,
         NEW m, IsParsedOperand(m), MemoryWord(p, op, reg, m) # Invalid
  PROVE  LET d == rvm_decode(MemoryWord(p, op, reg, m))
         IN  /\ MemoryWord(p, op, reg, m) \in Word
             /\ d.opcode = op
             /\ d.reg = reg
             /\ m.mem = "REG" => d.mode = RVM_MODE_REG /\ d.operand % 8 = m.value
             /\ m.mem # "REG" => d.mode = RVM_MODE_IMM_OR_ADDR
             /\ m.mem \notin {"REG", "LABEL"} => d.operand = m.value % 256
             /\ m.mem = "LABEL" => find_label_address(p, m.label) # Undefined
<1> DEFINE addr == IF m.mem = "LABEL" THEN find_label_address(p, m.label) ELSE m.value
           mode == IF m.mem = "REG" THEN RVM_MODE_REG ELSE RVM_MODE_IMM_OR_ADDR
<1>1. /\ MemoryWord(p, op, reg, m) = rvm_encode(op, reg, mode, addr)
      /\ m.mem = "LABEL" => find_label_address(p, m.label) # Undefined
      <2> HIDE DEF rvm_encode
      <2> QED BY DEF MemoryWord
<1>2. addr \in Nat
  <2>1. CASE m.mem = "LABEL"
    <3>1. addr \in Word BY <1>1, <2>1, FirstDefinition
    <3> QED BY <3>1 DEF Word
  <2>2. CASE m.mem # "LABEL" BY <2>2 DEF IsParsedOperand, Word
  <2> QED BY <2>1, <2>2
<1>3. op \in 0 .. 15 BY DEF RVM_OP
<1>4. reg \in Nat /\ reg % 8 = reg BY DEF Reg
<1>5. mode \in {0, 1} BY DEF RVM_MODE_REG, RVM_MODE_IMM_OR_ADDR
<1>6. m.mem = "REG" => m.value \in Reg BY DEF IsParsedOperand
<1>7. m.mem = "REG" => (addr % 256) % 8 = m.value BY <1>6 DEF Reg
<1>8. m.mem \notin {"REG", "LABEL"} => addr = m.value OBVIOUS
<1>9. m.mem = "REG" => mode = RVM_MODE_REG OBVIOUS
<1>10. m.mem # "REG" => mode = RVM_MODE_IMM_OR_ADDR OBVIOUS
<1> HIDE DEF addr, mode
<1>11. PICK w : w = rvm_encode(op, reg, mode, addr) OBVIOUS
<1>12. /\ w \in Word /\ rvm_decode(w).opcode = op /\ rvm_decode(w).reg = reg % 8
       /\ rvm_decode(w).mode = mode /\ rvm_decode(w).operand = addr % 256
  <2>1. reg \in Nat BY <1>4
  <2> QED BY <1>2, <1>3, <2>1, <1>5, <1>11, EncodedFields
<1>13. MemoryWord(p, op, reg, m) = w BY <1>1, <1>11
<1> QED BY <1>1, <1>4, <1>7, <1>8, <1>9, <1>10, <1>12, <1>13

\* A label that is found has a distance; one that is not has none.
LEMMA Distance ==
  ASSUME NEW p, IsParsed(p), NEW name, NEW idx \in Nat,
         resolve_label(p, name, idx) # Invalid
  PROVE  /\ find_label_address(p, name) # Undefined
         /\ resolve_label(p, name, idx) \in Int
         /\ \E j \in DOMAIN p.labels :
              /\ p.labels[j].name = name
              /\ \A k \in 1 .. j - 1 : p.labels[k].name # name
              /\ p.labels[j].address \in Word
              /\ resolve_label(p, name, idx) = 2 * p.labels[j].address - 2 * idx - 2
<1>1. find_label_address(p, name) # Undefined
      /\ resolve_label(p, name, idx) = (find_label_address(p, name) - idx - 1) * 2
      BY DEF resolve_label
<1>2. PICK j \in DOMAIN p.labels :
              /\ p.labels[j].name = name
              /\ \A k \in 1 .. j - 1 : p.labels[k].name # name
              /\ find_label_address(p, name) = p.labels[j].address
              /\ p.labels[j].address \in Word
      BY <1>1, FirstDefinition
<1>3. PICK a \in Word : a = p.labels[j].address BY <1>2
<1>4. a \in Nat BY DEF Word
<1>5. resolve_label(p, name, idx) = (a - idx - 1) * 2 BY <1>1, <1>2, <1>3
<1>6. (a - idx - 1) * 2 = 2 * a - 2 * idx - 2 /\ (a - idx - 1) * 2 \in Int BY <1>4
<1> QED BY <1>1, <1>2, <1>3, <1>5, <1>6

\* Every encoded instruction is a word with the opcode of the source.
LEMMA EncodedWord ==
  ASSUME NEW p, IsParsed(p), NEW instr, IsParsedInstr(instr), NEW idx \in Nat,
         encode_instr(p, instr, idx) # Invalid
  PROVE  /\ encode_instr(p, instr, idx) \in Word
         /\ rvm_decode(encode_instr(p, instr, idx)).opcode = instr.opcode
<1>1. instr.opcode \in 0 .. 15 /\ IsParsedOperand(instr.opr1) /\ IsParsedOperand(instr.opr2)
      BY DEF IsParsedInstr
<1>2. PICK w : w = encode_instr(p, instr, idx) OBVIOUS
<1>3. CASE instr.opcode \in TwoOperand
  <2> DEFINE mode == IF instr.opr2.type = "REG" THEN RVM_MODE_REG ELSE RVM_MODE_IMM_OR_ADDR
  <2>1. w = rvm_encode(instr.opcode, instr.opr1.value, mode, instr.opr2.value)
        BY <1>1, <1>2, <1>3, EncodeTwoOperand
  <2>2. instr.opr1.value \in Nat /\ instr.opr2.value \in Nat
        BY <1>1 DEF IsParsedOperand, Word
  <2>3. mode \in {0, 1} BY DEF RVM_MODE_REG, RVM_MODE_IMM_OR_ADDR
  <2> HIDE DEF mode
  <2> QED BY <1>1, <1>2, <2>1, <2>2, <2>3, EncodedFields
<1>4. CASE instr.opcode \in {RVM_OP.LOAD, RVM_OP.STORE}
  <2>1. instr.opr1.type = "REG" => instr.opr1.value \in Reg BY <1>1 DEF IsParsedOperand
  <2>2. instr.opr2.type = "REG" => instr.opr2.value \in Reg BY <1>1 DEF IsParsedOperand
  <2>3. \/ /\ instr.opr1.type = "REG"
           /\ w = MemoryWord(p, instr.opcode, instr.opr1.value, instr.opr2)
        \/ /\ instr.opr2.type = "REG"
           /\ w = MemoryWord(p, instr.opcode, instr.opr2.value, instr.opr1)
        BY <1>1, <1>2, <1>4, EncodeMemory
  <2>4. w # Invalid BY <1>2
  <2> QED BY <1>1, <1>2, <1>4, <2>1, <2>2, <2>3, <2>4, MemoryFields
<1>5. CASE instr.opcode \in Transfers
  <2>1. CASE instr.opr1.type = "REG" /\ w = EncodeIndirect(instr.opcode, instr.opr1.value)
    <3>1. instr.opr1.value \in Reg BY <1>1, <2>1 DEF IsParsedOperand
    <3> QED BY <1>1, <1>2, <2>1, <3>1, IndirectFields
  <2>2. CASE /\ resolve_label(p, instr.opr1.label, idx) # Invalid
             /\ w = EncodeRelative(instr.opcode, Int16(resolve_label(p, instr.opr1.label, idx)))
    <3>1. Int16(resolve_label(p, instr.opr1.label, idx)) \in Int
          BY <2>2, Distance, Int16Wraps
    <3> QED BY <1>1, <1>2, <2>2, <3>1, RelativeFields
  <2> QED BY <1>1, <1>2, <1>5, <2>1, <2>2, EncodeBranch
<1>6. CASE instr.opcode = RVM_OP.RET
  <2>1. w = 61440 /\ instr.opcode = 15 BY <1>2, <1>6, EncodeRet DEF rvm_ret, RVM_OP
  <2>2. w \in Word /\ w \div 4096 = instr.opcode BY <2>1 DEF Word
  <2> QED BY <1>2, <2>2 DEF rvm_decode
<1>7. \/ instr.opcode \in TwoOperand \/ instr.opcode \in {RVM_OP.LOAD, RVM_OP.STORE}
      \/ instr.opcode \in Transfers \/ instr.opcode = RVM_OP.RET
      BY <1>1, OpcodeKinds
<1> QED BY <1>3, <1>4, <1>5, <1>6, <1>7

-----------------------------------------------------------------------------
(***************************************************************************)
(* The inductive invariant.  A word in the file is the encoding of its     *)
(* instruction, whatever is decoded from it later; that it is a word at    *)
(* all, and in reach of the assertion, is what EmitWord has looked at.     *)
(***************************************************************************)
Resolved == phase \in {"resolved", "emitting", "done"} => resolve_labels(program)

Encoded(i) ==
  /\ i \in DOMAIN program.instrs
  /\ out[i] = encode_instr(program, Instr(i), i - 1)
  /\ out[i] # Invalid
  /\ NDEBUG \/ Asserted(program, Instr(i), i - 1)

AInv == /\ IsParsed(program)
        /\ TypeOK
        /\ Resolved
        /\ \A i \in DOMAIN out : Encoded(i)

\* Nothing is in the file before EmitWord.
LEMMA AssemblerInit == Init => AInv
<1> SUFFICES ASSUME Init PROVE AInv OBVIOUS
<1>1. IsParsed(program) /\ phase = "parsed" /\ out = <<>> BY ProgramsAssumption DEF Init
<1>2. Len(program.instrs) \in Nat BY <1>1 DEF IsParsed, IsArray
<1>3. TypeOK BY <1>1, <1>2 DEF TypeOK
<1>4. Resolved BY <1>1 DEF Resolved
<1> QED BY <1>1, <1>3, <1>4 DEF AInv

\* EmitWord adds the encoding of the next instruction behind the others.
LEMMA EmitWordStep ==
  ASSUME AInv, EmitWord
  PROVE  AInv'
<1> DEFINE word == encode_instr(program, Current, Len(out))
<1>1. /\ IsParsed(program)
      /\ out \in Seq(Word) /\ Len(out) \in Nat
      /\ TypeOK /\ Resolved /\ \A i \in DOMAIN out : Encoded(i)
      BY DEF AInv, TypeOK
<1>2. /\ phase = "emitting" /\ Len(out) < Len(program.instrs)
      /\ NDEBUG \/ Asserted(program, Current, Len(out))
      /\ word # Invalid
      /\ out' = Append(out, word)
      /\ phase' = phase /\ program' = program
      BY DEF EmitWord, More
<1>3. /\ Len(program.instrs) \in Nat /\ DOMAIN program.instrs = 1 .. Len(program.instrs)
      /\ \A i \in DOMAIN program.instrs : IsParsedInstr(program.instrs[i])
      BY <1>1 DEF IsParsed, IsArray
<1>4. Len(out) + 1 \in DOMAIN program.instrs BY <1>1, <1>2, <1>3
<1>5. word \in Word
  <2>1. IsParsedInstr(Current) BY <1>3, <1>4 DEF Current
  <2> QED BY <1>1, <1>2, <2>1, EncodedWord
<1>6. /\ out' \in Seq(Word) /\ Len(out') = Len(out) + 1
      /\ DOMAIN out' = DOMAIN out \cup {Len(out) + 1}
      /\ \A i \in DOMAIN out : out'[i] = out[i]
      /\ out'[Len(out) + 1] = word
  <2> HIDE DEF word
  <2> QED BY <1>1, <1>2, <1>5
<1>7. TypeOK'
  <2>1. Len(out') <= Len(program.instrs') BY <1>1, <1>2, <1>3, <1>6
  <2>2. phase' = "emitting" BY <1>2
  <2> QED BY <1>6, <2>1, <2>2 DEF TypeOK
<1>8. Resolved' BY <1>1, <1>2 DEF Resolved
<1>9. ASSUME NEW i \in DOMAIN out PROVE Encoded(i)'
  <2>1. Encoded(i) BY <1>1
  <2> QED BY <1>2, <1>6, <2>1 DEF Encoded, Instr
<1>10. PICK last \in Nat : last = Len(out) + 1 BY <1>1
<1>11. Encoded(last)'
  <2>1. last - 1 = Len(out) BY <1>1, <1>10
  <2>2. Instr(last)' = Current BY <1>2, <1>10 DEF Instr, Current
  <2>3. out'[last] = word BY <1>6, <1>10
  <2> QED BY <1>2, <1>4, <1>10, <2>1, <2>2, <2>3 DEF Encoded
<1>12. \A i \in DOMAIN out' : Encoded(i)' BY <1>6, <1>9, <1>10, <1>11
<1> QED BY <1>1, <1>2, <1>7, <1>8, <1>12 DEF AInv

\* An abort leaves a beginning of the file.
LEMMA AssertFailsStep ==
  ASSUME AInv, AssertFails
  PROVE  AInv'
<1>1. /\ IsParsed(program)
      /\ out \in Seq(Word) /\ Len(out) \in Nat /\ Len(out) <= Len(program.instrs)
      /\ \A i \in DOMAIN out : Encoded(i)
      BY DEF AInv, TypeOK
<1>2. Len(program.instrs) \in Nat BY <1>1 DEF IsParsed, IsArray
<1>3. phase' = "aborted" /\ program' = program BY DEF AssertFails
<1>4. PICK n \in 0 .. Len(out) : out' = SubSeq(out, 1, n) BY DEF AssertFails
<1>5. /\ out' \in Seq(Word) /\ Len(out') = n /\ DOMAIN out' \subseteq DOMAIN out
      /\ \A i \in DOMAIN out' : out'[i] = out[i]
      BY <1>1, <1>4
<1>6. TypeOK' BY <1>1, <1>2, <1>3, <1>5 DEF TypeOK
<1>7. Resolved' BY <1>3 DEF Resolved
<1>8. ASSUME NEW i \in DOMAIN out' PROVE Encoded(i)'
  <2>1. Encoded(i) BY <1>1, <1>5
  <2> QED BY <1>3, <1>5, <2>1 DEF Encoded, Instr
<1> QED BY <1>1, <1>3, <1>6, <1>7, <1>8 DEF AInv

\* The other steps leave the file alone.
LEMMA AssemblerStep == AInv /\ [Next]_vars => AInv'
<1> SUFFICES ASSUME AInv, [Next]_vars PROVE AInv' OBVIOUS
<1>1. ASSUME program' = program, out' = out,
             phase' \in {"resolved", "failed", "emitting", "done"},
             Resolved', phase' = "done" => Len(out) = Len(program.instrs)
      PROVE  AInv'
  <2>1. TypeOK' BY <1>1 DEF AInv, TypeOK
  <2>2. \A i \in DOMAIN out : Encoded(i)' BY <1>1 DEF AInv, Encoded, Instr
  <2> QED BY <1>1, <2>1, <2>2 DEF AInv
<1>2. CASE Resolve
  <2>1. phase' = IF resolve_labels(program) THEN "resolved" ELSE "failed" BY <1>2 DEF Resolve
  <2>2. program' = program /\ out' = out BY <1>2 DEF Resolve
  <2>3. Resolved' BY <2>1, <2>2 DEF Resolved
  <2> QED BY <1>1, <2>1, <2>2, <2>3
<1>3. CASE OpenOutput
  <2>1. /\ phase = "resolved" /\ phase' \in {"emitting", "failed"}
        /\ program' = program /\ out' = out
        BY <1>3 DEF OpenOutput
  <2>2. Resolved' BY <2>1 DEF AInv, Resolved
  <2> QED BY <1>1, <2>1, <2>2
<1>4. CASE EmitWord BY <1>4, EmitWordStep
<1>5. CASE EmitFails
  <2>1. phase' = "failed" /\ program' = program /\ out' = out BY <1>5 DEF EmitFails
  <2>2. Resolved' BY <2>1 DEF Resolved
  <2> QED BY <1>1, <2>1, <2>2
<1>6. CASE AssertFails BY <1>6, AssertFailsStep
<1>7. CASE CloseOutput
  <2>1. /\ phase = "emitting" /\ phase' = "done" /\ Len(out) = Len(program.instrs)
        /\ program' = program /\ out' = out
        BY <1>7 DEF CloseOutput
  <2>2. Resolved' BY <2>1 DEF AInv, Resolved
  <2> QED BY <1>1, <2>1, <2>2
<1>8. CASE UNCHANGED vars
  <2>1. program' = program /\ phase' = phase /\ out' = out BY <1>8 DEF vars
  <2> QED BY <2>1 DEF AInv, TypeOK, Resolved, Encoded, Instr
<1> QED BY <1>2, <1>3, <1>4, <1>5, <1>6, <1>7, <1>8 DEF Next

\* The invariant holds in every state of the assembler.
LEMMA AssemblerInvariant == Spec => []AInv
BY AssemblerInit, AssemblerStep, PTL DEF Spec

-----------------------------------------------------------------------------
(***************************************************************************)
(* The theorems.                                                           *)
(***************************************************************************)
\* What the invariant says of one word of the file.
LEMMA EmittedWord ==
  ASSUME AInv, NEW i \in DOMAIN out
  PROVE  /\ IsParsed(program) /\ i \in Nat /\ i - 1 \in Nat
         /\ i \in DOMAIN program.instrs
         /\ IsParsedInstr(Instr(i))
         /\ encode_instr(program, Instr(i), i - 1) # Invalid
         /\ out[i] = encode_instr(program, Instr(i), i - 1)
         /\ NDEBUG \/ Asserted(program, Instr(i), i - 1)
<1>1. IsParsed(program) BY DEF AInv
<1>2. Encoded(i) BY DEF AInv
<1>3. i \in DOMAIN program.instrs BY <1>2 DEF Encoded
<1>4. IsParsedInstr(Instr(i)) BY <1>1, <1>3 DEF IsParsed, Instr
<1>5. i \in Nat /\ i - 1 \in Nat BY <1>1, <1>3 DEF IsParsed, IsArray
<1> QED BY <1>1, <1>2, <1>3, <1>4, <1>5 DEF Encoded

\* The file holds words, at most one for each instruction, and all of them
\* when the loop of rsm_emit_binary has come to its end.
THEOREM AssemblerTypeOK == Spec => []TypeOK
<1>1. AInv => TypeOK BY DEF AInv
<1> QED BY <1>1, AssemblerInvariant, PTL

\* The distance from word i to the label its instruction names, in bytes.
DistanceOf(i) == resolve_label(program, Instr(i).opr1.label, i - 1)

\* An emitted branch to a label has the distance to its first definition, as
\* an int16_t, if that fits the word.
LEMMA BranchWord ==
  ASSUME AInv, NEW i \in DOMAIN out,
         Instr(i).opcode \in Transfers, Instr(i).opr1.type = "LABEL",
         Int16(DistanceOf(i)) \in Simm11
  PROVE  /\ BranchMode(out[i]) = RVM_MODE_IMM_OR_ADDR
         /\ BranchOffset(out[i]) = Int16(DistanceOf(i))
         /\ DistanceOf(i) \in Int
         /\ \E j \in DOMAIN program.labels :
              /\ program.labels[j].name = Instr(i).opr1.label
              /\ \A k \in 1 .. j - 1 : program.labels[k].name # Instr(i).opr1.label
              /\ program.labels[j].address \in Word
              /\ DistanceOf(i) = 2 * program.labels[j].address - 2 * i
<1>1. /\ IsParsed(program) /\ i \in Nat /\ i - 1 \in Nat
      /\ Instr(i).opcode \in 0 .. 15
      /\ encode_instr(program, Instr(i), i - 1) # Invalid
      /\ out[i] = encode_instr(program, Instr(i), i - 1)
      BY EmittedWord DEF IsParsedInstr
<1>2. /\ DistanceOf(i) # Invalid
      /\ out[i] = EncodeRelative(Instr(i).opcode, Int16(DistanceOf(i)))
      BY <1>1, EncodeBranch DEF DistanceOf
<1>3. /\ DistanceOf(i) \in Int
      /\ \E j \in DOMAIN program.labels :
           /\ program.labels[j].name = Instr(i).opr1.label
           /\ \A k \in 1 .. j - 1 : program.labels[k].name # Instr(i).opr1.label
           /\ program.labels[j].address \in Word
           /\ DistanceOf(i) = 2 * program.labels[j].address - 2 * (i - 1) - 2
      BY <1>1, <1>2, Distance DEF DistanceOf
<1>4. PICK j \in DOMAIN program.labels :
        /\ program.labels[j].name = Instr(i).opr1.label
        /\ \A k \in 1 .. j - 1 : program.labels[k].name # Instr(i).opr1.label
        /\ program.labels[j].address \in Word
        /\ DistanceOf(i) = 2 * program.labels[j].address - 2 * (i - 1) - 2
      BY <1>3
<1>5. DistanceOf(i) = 2 * program.labels[j].address - 2 * i
  <2>1. PICK a \in Nat : a = program.labels[j].address BY <1>4 DEF Word
  <2>2. DistanceOf(i) = 2 * a - 2 * (i - 1) - 2 BY <1>4, <2>1
  <2> QED BY <1>1, <2>1, <2>2
<1>6. BranchMode(out[i]) = RVM_MODE_IMM_OR_ADDR
      /\ BranchOffset(out[i]) = Int16(DistanceOf(i))
  <2>1. PICK op \in 0 .. 15 : op = Instr(i).opcode BY <1>1
  <2>2. PICK s \in Int : s = Int16(DistanceOf(i)) BY <1>3, Int16Wraps
  <2>3. s \in Simm11 BY <2>2
  <2>4. PICK w : w = out[i] OBVIOUS
  <2>5. w = EncodeRelative(op, s) BY <1>2, <2>1, <2>2, <2>4
  <2>6. BranchMode(w) = RVM_MODE_IMM_OR_ADDR /\ BranchOffset(w) = s
        BY <2>1, <2>3, <2>5, RelativeFields
  <2> QED BY <2>2, <2>4, <2>6
<1> QED BY <1>3, <1>4, <1>5, <1>6

\* A distance within reach is its own int16_t.
LEMMA ReachIsInt16 == ASSUME NEW d, d \in Simm11 PROVE Int16(d) = d /\ d \in Int
<1>1. PICK e \in Int : e = d /\ -1024 <= e /\ e <= 1023 BY DEF Simm11
<1>2. (e + 32768) % 65536 = e + 32768 BY <1>1
<1> QED BY <1>1, <1>2 DEF Int16

\* In a build that keeps the assertions of isa/encoder.h, every branch that
\* rsm_emit_binary writes lands where its label is first defined, whatever the
\* length of the program and the direction of the branch.
THEOREM BranchesLand ==
  ASSUME NDEBUG = FALSE
  PROVE  Spec => []BranchesReachTheirLabels
<1>1. ASSUME AInv PROVE BranchesReachTheirLabels
  <2> SUFFICES ASSUME NEW i \in DOMAIN out,
                      Instr(i).opcode \in Transfers, Instr(i).opr1.type = "LABEL"
               PROVE  /\ BranchMode(out[i]) = RVM_MODE_IMM_OR_ADDR
                      /\ \E j \in DOMAIN program.labels :
                           /\ program.labels[j].name = Instr(i).opr1.label
                           /\ \A k \in 1 .. j - 1 : program.labels[k].name # Instr(i).opr1.label
                           /\ (2 * i + BranchOffset(out[i])
                                - 2 * program.labels[j].address) % 65536 = 0
               BY DEF BranchesReachTheirLabels
  <2>1. i \in Int /\ Instr(i).opcode \in 0 .. 15
        BY <1>1, EmittedWord DEF IsParsedInstr
  <2>2. Int16(DistanceOf(i)) \in Simm11
    <3>1. /\ Asserted(program, Instr(i), i - 1)
          /\ encode_instr(program, Instr(i), i - 1) # Invalid
          BY <1>1, EmittedWord
    <3>2. DistanceOf(i) # Invalid BY <2>1, <3>1, EncodeBranch DEF DistanceOf
    <3> QED BY <3>1, <3>2 DEF Asserted, DistanceOf
  <2>3. PICK j \in DOMAIN program.labels :
          /\ program.labels[j].name = Instr(i).opr1.label
          /\ \A k \in 1 .. j - 1 : program.labels[k].name # Instr(i).opr1.label
          /\ program.labels[j].address \in Word
          /\ DistanceOf(i) = 2 * program.labels[j].address - 2 * i
        BY <1>1, <2>2, BranchWord
  <2>4. /\ BranchMode(out[i]) = RVM_MODE_IMM_OR_ADDR
        /\ BranchOffset(out[i]) = Int16(DistanceOf(i)) /\ DistanceOf(i) \in Int
        BY <1>1, <2>2, BranchWord
  <2>5. (2 * i + BranchOffset(out[i]) - 2 * program.labels[j].address) % 65536 = 0
    <3>1. PICK d \in Int : d = DistanceOf(i) BY <2>4
    <3>2. PICK s \in Int : s = BranchOffset(out[i]) /\ (d - s) % 65536 = 0
          BY <2>4, <3>1, Int16Wraps
    <3>3. PICK a \in Nat : a = program.labels[j].address BY <2>3 DEF Word
    <3>4. d = 2 * a - 2 * i BY <2>3, <3>1, <3>3
    <3>5. 2 * i + s - 2 * a = -(d - s) BY <2>1, <3>4
    <3>6. (2 * i + s - 2 * a) % 65536 = 0 BY <3>2, <3>5
    <3> QED BY <3>2, <3>3, <3>6
  <2> QED BY <2>3, <2>4, <2>5
<1> QED BY <1>1, AssemblerInvariant, PTL

\* What the word of a two-operand instruction, a LOAD or a STORE says of the
\* operand that is not its register, and of the register of a branch.
DenotedBy(w, opr) ==
  LET d == rvm_decode(w)
  IN  IF opr.type = "REG" \/ opr.mem = "REG"
      THEN d.mode = RVM_MODE_REG /\ d.operand % 8 = opr.value
      ELSE /\ d.mode = RVM_MODE_IMM_OR_ADDR
           /\ opr.mem # "LABEL" /\ opr.value \in Byte => d.operand = opr.value

IndirectBy(w, opr) ==
  opr.type = "REG" => BranchMode(w) = RVM_MODE_REG /\ BranchReg(w) = opr.value

\* What a word keeps of the operands of its instruction.
LEMMA OperandsOfWord ==
  ASSUME AInv, NEW i \in DOMAIN out,
         NEW op, op = Instr(i).opcode, NEW a, a = Instr(i).opr1, NEW b, b = Instr(i).opr2
  PROVE  /\ rvm_decode(out[i]).opcode = op
         /\ op \in TwoOperand \cup {RVM_OP.LOAD} =>
              a.type = "REG" /\ rvm_decode(out[i]).reg = a.value /\ DenotedBy(out[i], b)
         /\ op = RVM_OP.STORE =>
              b.type = "REG" /\ rvm_decode(out[i]).reg = b.value /\ DenotedBy(out[i], a)
         /\ op \in Transfers => a.type \in {"REG", "LABEL"} /\ IndirectBy(out[i], a)
<1>1. /\ IsParsed(program) /\ i - 1 \in Nat /\ i \in DOMAIN program.instrs
      /\ IsParsedInstr(Instr(i))
      /\ encode_instr(program, Instr(i), i - 1) # Invalid
      /\ out[i] = encode_instr(program, Instr(i), i - 1)
      BY EmittedWord
<1>2. op \in 0 .. 15 /\ IsParsedOperand(a) /\ IsParsedOperand(b)
      BY <1>1 DEF IsParsedInstr
<1>3. PICK w : w = out[i] OBVIOUS
<1>4. PICK instr : instr = Instr(i) /\ op = instr.opcode /\ a = instr.opr1 /\ b = instr.opr2
       OBVIOUS
<1>5. PICK d : d = rvm_decode(w) OBVIOUS
<1>6. d.opcode = op BY <1>1, <1>3, <1>5, EncodedWord
<1>7. /\ a.type = "REG" => a.value \in Reg
      /\ b.type = "REG" => b.value \in Reg
      BY <1>2 DEF IsParsedOperand
<1>8. ASSUME op \in TwoOperand
      PROVE  a.type = "REG" /\ d.reg = a.value /\ DenotedBy(w, b)
  <2> DEFINE mode == IF b.type = "REG" THEN RVM_MODE_REG ELSE RVM_MODE_IMM_OR_ADDR
  <2>1. a.type = "REG" /\ b.type \in {"IMM", "REG"}
        /\ w = rvm_encode(op, a.value, mode, b.value)
        BY <1>1, <1>2, <1>3, <1>8, EncodeTwoOperand
  <2>2. a.value \in Reg /\ b.value \in Nat /\ b.mem = "NONE"
        BY <1>2, <1>7, <2>1 DEF IsParsedOperand, Word
  <2>3. a.value \in Nat /\ a.value % 8 = a.value BY <2>2 DEF Reg
  <2>4. mode \in {0, 1} BY DEF RVM_MODE_REG, RVM_MODE_IMM_OR_ADDR
  <2>5. d.reg = a.value /\ d.mode = mode /\ d.operand = b.value % 256
    <3> HIDE DEF mode
    <3>1. d.reg = a.value % 8 /\ d.mode = mode /\ d.operand = b.value % 256
          BY <1>2, <1>5, <2>1, <2>2, <2>3, <2>4, EncodedFields
    <3> QED BY <2>3, <3>1
  <2>6. b.type = "REG" => d.operand % 8 = b.value BY <1>7, <2>5 DEF Reg
  <2>7. b.value \in Byte => d.operand = b.value BY <2>5 DEF Byte
  <2> QED BY <1>5, <2>1, <2>2, <2>5, <2>6, <2>7 DEF DenotedBy
<1>9. ASSUME op \in {RVM_OP.LOAD, RVM_OP.STORE}, NEW reg \in Reg, NEW m, IsParsedOperand(m),
             m.type = "MEM", w = MemoryWord(program, op, reg, m)
      PROVE  d.reg = reg /\ DenotedBy(w, m)
  <2>1. MemoryWord(program, op, reg, m) # Invalid BY <1>1, <1>3, <1>9
  <2>2. /\ d.reg = reg
        /\ m.mem = "REG" => d.mode = RVM_MODE_REG /\ d.operand % 8 = m.value
        /\ m.mem # "REG" => d.mode = RVM_MODE_IMM_OR_ADDR
        /\ m.mem \notin {"REG", "LABEL"} => d.operand = m.value % 256
        BY <1>1, <1>5, <1>9, <2>1, MemoryFields
  <2>3. m.value \in Byte => m.value % 256 = m.value BY DEF Byte
  <2> QED BY <1>5, <1>9, <2>2, <2>3 DEF DenotedBy
<1>10. ASSUME op = RVM_OP.LOAD PROVE a.type = "REG" /\ d.reg = a.value /\ DenotedBy(w, b)
  <2>1. a.type = "REG" /\ b.type = "MEM" /\ w = MemoryWord(program, op, a.value, b)
    <3>1. instr.opcode \in {RVM_OP.LOAD, RVM_OP.STORE} /\ instr.opcode # RVM_OP.STORE
          BY <1>10, <1>4 DEF RVM_OP
    <3>2. instr.opcode \in 0 .. 15 /\ encode_instr(program, instr, i - 1) # Invalid
          BY <1>1, <1>2, <1>4
    <3>3. /\ instr.opr1.type = "REG" /\ instr.opr2.type = "MEM"
          /\ encode_instr(program, instr, i - 1)
               = MemoryWord(program, instr.opcode, instr.opr1.value, instr.opr2)
          BY <3>1, <3>2, EncodeMemory
    <3> QED BY <1>1, <1>3, <1>4, <3>3
  <2> QED BY <1>2, <1>7, <1>9, <1>10, <2>1
<1>11. ASSUME op = RVM_OP.STORE PROVE b.type = "REG" /\ d.reg = b.value /\ DenotedBy(w, a)
  <2>1. b.type = "REG" /\ a.type = "MEM" /\ w = MemoryWord(program, op, b.value, a)
    <3>1. instr.opcode \in {RVM_OP.LOAD, RVM_OP.STORE} /\ instr.opcode # RVM_OP.LOAD
          BY <1>11, <1>4 DEF RVM_OP
    <3>2. instr.opcode \in 0 .. 15 /\ encode_instr(program, instr, i - 1) # Invalid
          BY <1>1, <1>2, <1>4
    <3>3. /\ instr.opr2.type = "REG" /\ instr.opr1.type = "MEM"
          /\ encode_instr(program, instr, i - 1)
               = MemoryWord(program, instr.opcode, instr.opr2.value, instr.opr1)
          BY <3>1, <3>2, EncodeMemory
    <3> QED BY <1>1, <1>3, <1>4, <3>3
  <2> QED BY <1>2, <1>7, <1>9, <1>11, <2>1
<1>12. ASSUME op \in Transfers PROVE a.type \in {"REG", "LABEL"} /\ IndirectBy(w, a)
  <2>1. a.type \in {"REG", "LABEL"} /\ (a.type = "REG" => w = EncodeIndirect(op, a.value))
        BY <1>1, <1>2, <1>3, <1>12, EncodeBranch
  <2>2. ASSUME a.type = "REG" PROVE BranchMode(w) = RVM_MODE_REG /\ BranchReg(w) = a.value
        BY <1>2, <1>7, <2>1, <2>2, IndirectFields
  <2> QED BY <2>1, <2>2 DEF IndirectBy
<1> QED BY <1>3, <1>5, <1>6, <1>8, <1>10, <1>11, <1>12

\* A program whose numbers fit in the byte an instruction has for them; the
\* numbers of a branch never reach a word.
NarrowImmediates(p) ==
  \A i \in DOMAIN p.instrs : \A opr \in {"opr1", "opr2"} :
    p.instrs[i].opcode \notin Transfers => p.instrs[i][opr].value \in Byte

\* The cast to uint8_t in rsm_encode_instr is the only place where an operand
\* can be lost: if the numbers are bytes, the processor decodes from a word the
\* operation, the registers and the number that the source has.
THEOREM NarrowOperandsSurvive ==
  ASSUME \A p \in Programs : NarrowImmediates(p)
  PROVE  Spec => []OperandsSurvive
<1>1. ASSUME AInv, program \in Programs, NEW i \in DOMAIN out
      PROVE  LET d == rvm_decode(out[i])
                 a == Instr(i).opr1
                 b == Instr(i).opr2
                 Denotes(opr) == IF opr.type = "REG" \/ opr.mem = "REG"
                                 THEN d.mode = RVM_MODE_REG /\ d.operand % 8 = opr.value
                                 ELSE /\ d.mode = RVM_MODE_IMM_OR_ADDR
                                      /\ opr.mem # "LABEL" => d.operand = opr.value
             IN  /\ d.opcode = Instr(i).opcode
                 /\ d.opcode \in TwoOperand \cup {RVM_OP.LOAD} => d.reg = a.value /\ Denotes(b)
                 /\ d.opcode = RVM_OP.STORE => d.reg = b.value /\ Denotes(a)
                 /\ d.opcode \in Transfers /\ a.type = "REG" =>
                      BranchMode(out[i]) = RVM_MODE_REG /\ BranchReg(out[i]) = a.value
  <2>1. PICK op, a, b : op = Instr(i).opcode /\ a = Instr(i).opr1 /\ b = Instr(i).opr2
        OBVIOUS
  <2>2. i \in DOMAIN program.instrs /\ op \in 0 .. 15
        BY <1>1, <2>1, EmittedWord DEF IsParsedInstr
  <2>3. op \notin Transfers => a.value \in Byte /\ b.value \in Byte
        BY <1>1, <2>1, <2>2 DEF NarrowImmediates, Instr
  <2>4. op \in TwoOperand \cup {RVM_OP.LOAD, RVM_OP.STORE} => op \notin Transfers
        BY <2>2, OpcodeKinds
  <2>5. /\ rvm_decode(out[i]).opcode = op
        /\ op \in TwoOperand \cup {RVM_OP.LOAD} =>
             rvm_decode(out[i]).reg = a.value /\ DenotedBy(out[i], b)
        /\ op = RVM_OP.STORE => rvm_decode(out[i]).reg = b.value /\ DenotedBy(out[i], a)
        /\ op \in Transfers => IndirectBy(out[i], a)
        BY <1>1, <2>1, OperandsOfWord
  <2> QED BY <2>1, <2>3, <2>4, <2>5, Zenon DEF DenotedBy, IndirectBy
<1>2. AInv /\ program \in Programs => OperandsSurvive BY <1>1 DEF OperandsSurvive
<1>3. Init => program \in Programs BY DEF Init
<1>4. program \in Programs /\ [Next]_vars => (program \in Programs)'
      BY DEF Next, Resolve, OpenOutput, EmitWord, EmitFails, AssertFails, CloseOutput, vars
<1> QED BY <1>2, <1>3, <1>4, AssemblerInvariant, PTL DEF Spec

\* rsm_resolve_labels looks at branch targets only and rsm_encode_instr at the
\* labels in brackets; together they leave no label undefined that is used.
THEOREM LabelsAreDefined == Spec => []NothingUndefinedIsAssembled
<1>1. ASSUME AInv, phase = "done", NEW i \in DOMAIN out, NEW opr \in {"opr1", "opr2"},
             \/ Instr(i)[opr].type = "LABEL"
             \/ Instr(i)[opr].mem = "LABEL" /\ Instr(i).opcode \notin Transfers
      PROVE  find_label_address(program, Instr(i)[opr].label) # Undefined
  <2>1. /\ IsParsed(program) /\ i - 1 \in Nat /\ i \in DOMAIN program.instrs
        /\ IsParsedInstr(Instr(i))
        /\ encode_instr(program, Instr(i), i - 1) # Invalid
        BY <1>1, EmittedWord
  <2>2. /\ Instr(i).opcode \in 0 .. 15
        /\ IsParsedOperand(Instr(i).opr1) /\ IsParsedOperand(Instr(i).opr2)
        BY <2>1 DEF IsParsedInstr
  <2>3. CASE Instr(i)[opr].type = "LABEL"
    <3>1. resolve_labels(program) BY <1>1 DEF AInv, Resolved
    <3> QED BY <2>1, <2>3, <3>1 DEF resolve_labels, Instr
  <2>4. CASE Instr(i)[opr].mem = "LABEL" /\ Instr(i).opcode \notin Transfers
    <3>1. IsParsedOperand(Instr(i)[opr]) BY <2>2
    <3>2. Instr(i)[opr].type = "MEM" BY <2>4, <3>1 DEF IsParsedOperand
    <3>3. Instr(i).opcode \notin TwoOperand BY <2>1, <2>2, <3>2, EncodeTwoOperand
    <3>4. Instr(i).opcode # RVM_OP.RET
      <4>1. Instr(i).opcode = RVM_OP.RET => Instr(i)[opr] = NoOperand
            BY <2>1 DEF IsParsedInstr
      <4>2. NoOperand.mem # "LABEL" BY DEF NoOperand
      <4> QED BY <2>4, <4>1, <4>2
    <3>5. Instr(i).opcode \in {RVM_OP.LOAD, RVM_OP.STORE}
          BY <2>2, <2>4, <3>3, <3>4, OpcodeKinds
    <3>6. \E reg \in Reg :
            MemoryWord(program, Instr(i).opcode, reg, Instr(i)[opr]) # Invalid
      <4>1. /\ Instr(i).opr1.type = "REG" => Instr(i).opr1.value \in Reg
            /\ Instr(i).opr2.type = "REG" => Instr(i).opr2.value \in Reg
            BY <2>2 DEF IsParsedOperand
      <4>2. CASE /\ Instr(i).opr1.type = "REG" /\ Instr(i).opr2.type = "MEM"
                 /\ MemoryWord(program, Instr(i).opcode, Instr(i).opr1.value, Instr(i).opr2)
                      # Invalid
        <5>1. opr = "opr2" BY <3>2, <4>2
        <5> QED BY <4>1, <4>2, <5>1
      <4>3. CASE /\ Instr(i).opr1.type = "MEM" /\ Instr(i).opr2.type = "REG"
                 /\ MemoryWord(program, Instr(i).opcode, Instr(i).opr2.value, Instr(i).opr1)
                      # Invalid
        <5>1. opr = "opr1" BY <3>2, <4>3
        <5> QED BY <4>1, <4>3, <5>1
      <4> QED BY <2>1, <2>2, <3>5, <4>2, <4>3, EncodeMemory
    <3> QED BY <2>1, <2>4, <3>1, <3>5, <3>6, MemoryFields
  <2> QED BY <1>1, <2>3, <2>4
<1>2. ASSUME NEW name, find_label_address(program, name) # Undefined
      PROVE  \E j \in DOMAIN program.labels : program.labels[j].name = name
  <2>1. {j \in DOMAIN program.labels : program.labels[j].name = name} # {}
        BY <1>2 DEF find_label_address
  <2> QED BY <2>1
<1>3. AInv => NothingUndefinedIsAssembled
  BY <1>1, <1>2 DEF NothingUndefinedIsAssembled
<1> QED BY <1>3, AssemblerInvariant, PTL

=============================================================================
