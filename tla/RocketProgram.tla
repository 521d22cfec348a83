--------------------------- MODULE RocketProgram ---------------------------
(***************************************************************************)
(* rsm_program_t, which the parser builds and the encoder reads:           *)
(* instructions with two operands each, and labels, both in arrays that    *)
(* grow.  An operand is [type, mem, value, label]: mem is the kind of a    *)
(* MEM operand, value a number or a register and label a name, which the   *)
(* code keeps in a union.  The address of a label is the number of         *)
(* instructions before it.                                                 *)
(***************************************************************************)
EXTENDS RocketIsa, Sequences

Transfers == {RVM_OP.JMP, RVM_OP.JZ, RVM_OP.JNZ, RVM_OP.CALL}

TwoOperand == {RVM_OP.MOV} \cup RVM_OP.ADD .. RVM_OP.CMP

NoOperand == [type |-> "NONE", mem |-> "NONE", value |-> 0, label |-> <<>>]

\* The program without instructions; capacity is 1024 in the code.
rsm_program_create(capacity) ==
  [ instrs |-> <<>>, instr_capacity |-> capacity,
    labels |-> <<>>, label_capacity |-> capacity ]

\* An array is full one element too late.
InstrsFull_Late(p) == Len(p.instrs) > p.instr_capacity

\* A push has to call realloc first.
InstrsFull(p) == Len(p.instrs) >= p.instr_capacity
LabelsFull(p) == Len(p.labels) >= p.label_capacity

\* The two pushes, when realloc succeeds or is not needed.
rsm_program_push_instr(p, instr) ==
  [p EXCEPT !.instrs = Append(@, instr),
            !.instr_capacity = IF InstrsFull(p) THEN 2 * @ ELSE @]

rsm_program_push_label(p, label) ==
  [p EXCEPT !.labels = Append(@, label),
            !.label_capacity = IF LabelsFull(p) THEN 2 * @ ELSE @]

Undefined == -1

\* A lookup that finds the last definition.
find_label_address_Last(p, name) ==
  LET named == {i \in DOMAIN p.labels : p.labels[i].name = name}
  IN  IF named = {} THEN Undefined
      ELSE p.labels[CHOOSE i \in named : \A j \in named : i >= j].address

\* rsm_program_find_label_address: the first definition wins.
find_label_address(p, name) ==
  LET named == {i \in DOMAIN p.labels : p.labels[i].name = name}
  IN  IF named = {} THEN Undefined
      ELSE p.labels[CHOOSE i \in named : \A j \in named : i <= j].address

(***************************************************************************)
(* What rsm_encode_instr relies on and rsm_parser_parse sees to: opcodes   *)
(* of the enumeration, registers that exist, numbers that are not          *)
(* negative, a kind of memory operand where there is one, no operand       *)
(* behind RET, and labels whose addresses have 16 bits.                    *)
(***************************************************************************)
IsParsedOperand(opr) ==
  /\ opr.value \in Nat
  /\ "REG" \in {opr.type, opr.mem} => opr.value \in Reg
  /\ opr.type = "MEM" <=> opr.mem # "NONE"

IsParsedInstr(instr) ==
  /\ instr.opcode \in 0 .. 15
  /\ IsParsedOperand(instr.opr1) /\ IsParsedOperand(instr.opr2)
  /\ instr.opcode = RVM_OP.RET => instr.opr1 = NoOperand /\ instr.opr2 = NoOperand

IsArray(s) == Len(s) \in Nat /\ DOMAIN s = 1 .. Len(s)

IsParsed(p) ==
  /\ IsArray(p.instrs) /\ \A i \in DOMAIN p.instrs : IsParsedInstr(p.instrs[i])
  /\ IsArray(p.labels) /\ \A j \in DOMAIN p.labels : p.labels[j].address \in Word

=============================================================================
