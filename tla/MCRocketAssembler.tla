------------------------- MODULE MCRocketAssembler -------------------------
(***************************************************************************)
(* Programs for the model checker, all of them programs that               *)
(* rsm_parser_parse accepts: a menu of instructions of every shape, with   *)
(* labels in every place, defined twice or not at all, and long programs   *)
(* whose branches are at the limit of their reach.                         *)
(***************************************************************************)
EXTENDS RocketAssembler

CONSTANTS L1, L2    \* names of labels

None     == NoOperand
R(reg)   == [NoOperand EXCEPT !.type = "REG", !.value = reg]
I(imm)   == [NoOperand EXCEPT !.type = "IMM", !.value = imm]
L(name)  == [NoOperand EXCEPT !.type = "LABEL", !.label = name]
AtI(imm) == [I(imm)  EXCEPT !.type = "MEM", !.mem = "IMM"]
AtR(reg) == [R(reg)  EXCEPT !.type = "MEM", !.mem = "REG"]
AtL(nm)  == [L(nm)   EXCEPT !.type = "MEM", !.mem = "LABEL"]

Ins(op, a, b) == [opcode |-> op, opr1 |-> a, opr2 |-> b]

\* Immediates are bytes and branches have a label or a register.
Menu ==
  { Ins(RVM_OP.MOV, R(7), I(255)),       Ins(RVM_OP.ADD, R(1), R(7)),
    Ins(RVM_OP.CMP, R(7), I(128)),       Ins(RVM_OP.LOAD, R(5), AtR(3)),
    Ins(RVM_OP.LOAD, R(4), AtL(L1)),     Ins(RVM_OP.STORE, AtI(254), R(7)),
    Ins(RVM_OP.STORE, AtL(L2), R(2)),    Ins(RVM_OP.JMP, L(L1), None),
    Ins(RVM_OP.JZ, L(L2), L(L1)),        Ins(RVM_OP.CALL, R(6), None),
    Ins(RVM_OP.JNZ, R(0), AtL(L2)),
    Ins(RVM_OP.JNZ, I(4), None),         Ins(RVM_OP.RET, None, None) }

\* Labels come in the order of their addresses, as the parser meets them.
LabelLists(n) ==
  LET Labels == [name : {L1, L2}, address : 0 .. n]
  IN  {<<>>} \cup {<<x>> : x \in Labels}
        \cup {<<x, y>> : x, y \in Labels}

Short(menu, n) ==
  { [instrs |-> is, labels |-> ls] :
      is \in [1 .. n -> menu],
      ls \in {l \in LabelLists(n) : Len(l) = 2 => l[1].address <= l[2].address} }

\* A branch at one end of n further instructions, its label at the other.
Forward(n) ==
  [ instrs |-> [i \in 1 .. n + 1 |-> IF i = 1 THEN Ins(RVM_OP.JMP, L(L1), None)
                                     ELSE Ins(RVM_OP.RET, None, None)],
    labels |-> <<[name |-> L1, address |-> n + 1]>> ]

Backward(n) ==
  [ instrs |-> [i \in 1 .. n + 1 |-> IF i = n + 1 THEN Ins(RVM_OP.CALL, L(L1), None)
                                     ELSE Ins(RVM_OP.RET, None, None)],
    labels |-> <<[name |-> L1, address |-> 0]>> ]

\* 511 instructions are the most that an offset of 11 bits can cross.
Reach == {Forward(511), Forward(512), Backward(511), Backward(512)}

AllPrograms == Short(Menu, 3) \cup Reach

-----------------------------------------------------------------------------
\* examples/simple.rsm:33, an immediate that does not fit in a byte.
WidePrograms == Short({ Ins(RVM_OP.MOV, R(0), I(256)),
                        Ins(RVM_OP.MOV, R(1), I(10)),
                        Ins(RVM_OP.LOAD, R(3), AtR(0)),
                        Ins(RVM_OP.RET, None, None) }, 2)

\* README.md:58 lists [label] among the memory operands, next to [addr].  A
\* label stands for an instruction, whose address is twice its index.
LabelOperandsAreAddresses ==
  \A i \in DOMAIN out :
    Instr(i).opcode = RVM_OP.LOAD /\ Instr(i).opr2.mem = "LABEL" =>
      rvm_decode(out[i]).operand = 2 * find_label_address(program, Instr(i).opr2.label)

\* specification/Architecture.md:250 has JMP SIMM11, and the parser accepts a
\* number as the operand of a branch: once the labels are resolved, every
\* instruction should have an encoding.
AcceptedIsEncodable ==
  LET UsesBrackets == \E i \in DOMAIN program.instrs :
        "LABEL" \in {Instr(i).opr1.mem, Instr(i).opr2.mem}
  IN  phase = "emitting" /\ Len(out) < Len(program.instrs) /\ ~UsesBrackets =>
        encode_instr(program, Current, Len(out)) # Invalid

=============================================================================
