------------------------ MODULE RocketParser_proofs ------------------------
(***************************************************************************)
(* Proofs about the front end of the assembler, for every set of texts     *)
(* and for texts of every length.  First where the lookahead of an         *)
(* instruction ends, then what the operands are and the invariant of the   *)
(* loop of rsm_parser_parse; then that a text it accepts and the program   *)
(* it builds say the same; and that it accepts the texts of the grammar    *)
(* and no others.  Up to there all that is used of the lexer is            *)
(* LexerReturnsTokens.  The last two sections are about the characters: no *)
(* word is cut in two, and comments are blank.                             *)
(***************************************************************************)
EXTENDS RocketParser, RocketLexer_proofs, FiniteSetTheorems

\* The lexer returns tokens for every text of the run.
LEMMA TextsHaveTokens == \A text \in Texts : IsTokens(Tokens(text))
BY TextsAssumption, LexerReturnsTokens

-----------------------------------------------------------------------------
(***************************************************************************)
(* The lookahead.                                                          *)
(***************************************************************************)
\* There is a token behind every one that is not EOF.
LEMMA Ahead ==
  ASSUME IsTokens(tokens), NEW n \in 1 .. Len(tokens), At(n).type # "EOF"
  PROVE  n + 1 \in 1 .. Len(tokens)
<1>1. Len(tokens) \in Nat /\ n \in DOMAIN tokens BY DEF IsTokens
<1>2. At(n) = tokens[n] BY <1>1 DEF At
<1>3. n # Len(tokens) BY <1>1, <1>2 DEF IsTokens
<1> QED BY <1>1, <1>3

\* The token the parser looks at is one of the text.
LEMMA AtIsToken ==
  ASSUME IsTokens(tokens), NEW n \in Nat \ {0}
  PROVE  IsToken(At(n))
<1>1. (IF n > Len(tokens) THEN Len(tokens) ELSE n) \in DOMAIN tokens BY DEF IsTokens
<1> QED BY <1>1 DEF At, IsTokens

\* An operand that is not invalid ends before the text does.
LEMMA BehindOperand ==
  ASSUME IsTokens(tokens), NEW n \in 1 .. Len(tokens), parse_operand(n).type # "INVALID"
  PROVE  Behind(n) \in 1 .. Len(tokens)
<1>1. Len(tokens) \in Nat BY DEF IsTokens
<1>2. CASE InBrackets(n)
  <2>1. /\ At(n).type # "EOF" /\ At(n + 1).type # "EOF" /\ At(n + 2).type # "EOF"
        BY <1>2 DEF InBrackets, MemType
  <2>2. n + 1 \in 1 .. Len(tokens) BY <2>1, Ahead
  <2>3. n + 1 + 1 \in 1 .. Len(tokens) BY <2>1, <2>2, Ahead
  <2>4. n + 1 + 1 = n + 2 /\ n + 2 + 1 = n + 3 BY <1>1
  <2>5. n + 2 + 1 \in 1 .. Len(tokens) BY <2>1, <2>3, <2>4, Ahead
  <2> QED BY <1>2, <2>4, <2>5 DEF Behind
<1>3. CASE ~InBrackets(n)
  <2>1. At(n).type \in DOMAIN OperandType
        BY <1>3 DEF parse_operand, Operand
  <2>2. At(n).type # "EOF" BY <2>1 DEF OperandType
  <2>3. n + 1 \in 1 .. Len(tokens) BY <2>2, Ahead
  <2> QED BY <1>3, <2>3 DEF Behind
<1> QED BY <1>2, <1>3

\* An instruction that is read as far as the push ends before the text does.
LEMMA LookaheadInText ==
  ASSUME IsTokens(tokens), NEW n \in 1 .. Len(tokens), At(n).type = "OPCODE", parse_opcode(n)
  PROVE  Lookahead(n) \in 1 .. Len(tokens)
<1>1. n + 1 \in 1 .. Len(tokens) BY Ahead
<1>2. "INVALID" \notin {InstrAt(n).opr1.type, InstrAt(n).opr2.type} BY DEF parse_opcode
<1>3. CASE ~HasOpr1(n)
  <2>1. ~HasOpr2(n) BY <1>3 DEF HasOpr2
  <2> QED BY <1>1, <1>3, <2>1 DEF Lookahead
<1>4. CASE HasOpr1(n)
  <2>1. parse_operand(n + 1).type # "INVALID" BY <1>2, <1>4 DEF InstrAt
  <2>2. Behind(n + 1) \in 1 .. Len(tokens) BY <1>1, <2>1, BehindOperand
  <2>3. CASE ~HasOpr2(n) BY <1>4, <2>2, <2>3 DEF Lookahead
  <2>4. CASE HasOpr2(n)
    <3>1. parse_operand(Behind(n + 1) + 1).type # "INVALID" BY <1>2, <2>4 DEF InstrAt
    <3>2. At(Behind(n + 1)).type = "COMMA" BY <2>4 DEF HasOpr2
    <3>3. At(Behind(n + 1)).type # "EOF" BY <3>2
    <3>4. Behind(n + 1) + 1 \in 1 .. Len(tokens) BY <2>2, <3>3, Ahead
    <3>5. Behind(Behind(n + 1) + 1) \in 1 .. Len(tokens) BY <3>1, <3>4, BehindOperand
    <3> QED BY <2>4, <3>5 DEF Lookahead
  <2> QED BY <2>3, <2>4
<1> QED BY <1>3, <1>4

-----------------------------------------------------------------------------
(***************************************************************************)
(* The operands.                                                           *)
(***************************************************************************)
\* An operand that is not invalid has the value of its kind.
LEMMA OperandContract ==
  ASSUME IsTokens(tokens), NEW n \in Nat \ {0}, parse_operand(n).type # "INVALID"
  PROVE  IsParsedOperand(parse_operand(n))
<1>1. IsToken(At(n)) /\ IsToken(At(n + 1)) BY AtIsToken
<1>2. CASE InBrackets(n)
  <2>1. At(n + 1).type \in {"NUMBER", "REG", "IDENT"} BY <1>2 DEF InBrackets, MemType
  <2>2. parse_operand(n) = Operand("MEM", MemType[At(n + 1).type], At(n + 1))
        BY <1>2 DEF parse_operand, InBrackets, OperandType
  <2> QED BY <1>1, <2>1, <2>2 DEF IsParsedOperand, IsToken, Operand, MemType
<1>3. CASE ~InBrackets(n)
  <2>1. At(n).type \in {"NUMBER", "REG", "IDENT"}
        /\ parse_operand(n) = Operand(OperandType[At(n).type], "NONE", At(n))
        BY <1>3 DEF parse_operand, Operand, OperandType
  <2> QED BY <1>1, <2>1 DEF IsParsedOperand, IsToken, Operand, OperandType
<1> QED BY <1>2, <1>3

\* So has every instruction that gets as far as the push.
LEMMA InstrContract ==
  ASSUME IsTokens(tokens), NEW n \in 1 .. Len(tokens), At(n).type = "OPCODE", parse_opcode(n)
  PROVE  IsParsedInstr(InstrAt(n))
<1>1. Len(tokens) \in Nat BY DEF IsTokens
<1>2. IsToken(At(n)) /\ At(n).value \in 0 .. 15 BY AtIsToken DEF IsToken
<1>3. InstrAt(n).opr1.type # "INVALID" /\ InstrAt(n).opr2.type # "INVALID" BY DEF parse_opcode
<1>4. IsParsedOperand(NoOperand) BY DEF IsParsedOperand, NoOperand
<1>5. IsParsedOperand(InstrAt(n).opr1)
  <2>1. CASE HasOpr1(n)
    <3>1. InstrAt(n).opr1 = parse_operand(n + 1) BY <2>1 DEF InstrAt
    <3> QED BY <1>1, <1>3, <3>1, OperandContract
  <2>2. CASE ~HasOpr1(n) BY <1>4, <2>2 DEF InstrAt
  <2> QED BY <2>1, <2>2
<1>6. IsParsedOperand(InstrAt(n).opr2)
  <2>1. CASE HasOpr2(n)
    <3>1. InstrAt(n).opr2 = parse_operand(Behind(n + 1) + 1) BY <2>1 DEF InstrAt
    <3>2. Behind(n + 1) + 1 \in Nat \ {0} BY <1>1 DEF Behind
    <3> QED BY <1>3, <3>1, <3>2, OperandContract
  <2>2. CASE ~HasOpr2(n) BY <1>4, <2>2 DEF InstrAt
  <2> QED BY <2>1, <2>2
<1>7. At(n).value = RVM_OP.RET => InstrAt(n).opr1 = NoOperand /\ InstrAt(n).opr2 = NoOperand
      BY DEF InstrAt, HasOpr1, HasOpr2
<1>8. InstrAt(n).opcode = At(n).value BY DEF InstrAt
<1> QED BY <1>2, <1>5, <1>6, <1>7, <1>8 DEF IsParsedInstr

-----------------------------------------------------------------------------
(***************************************************************************)
(* The inductive invariant.  The arrays hold instructions that start at a  *)
(* token and labels that have the name of one; their capacities can be     *)
(* doubled because they are not 0; and the parser has taken a token as     *)
(* soon as it is in its loop.                                              *)
(***************************************************************************)
OpcodeTokens == {n \in 1 .. Len(tokens) : At(n).type = "OPCODE" /\ parse_opcode(n)}

InstrsRead == {InstrAt(n) : n \in OpcodeTokens}

LabelsRead == [name : {At(n).ident : n \in 1 .. Len(tokens)}, address : Word]

ProgramOK ==
  program \in [ instrs : Seq(InstrsRead), instr_capacity : Nat \ {0},
                labels : Seq(LabelsRead), label_capacity : Nat \ {0} ]

PInv == /\ src \in Texts /\ tokens = Tokens(src)
        /\ TypeOK
        /\ phase = "parsing" => held # 0
        /\ ProgramOK

\* A program of such arrays is one the encoder can rely on.
LEMMA ContractKept ==
  ASSUME IsTokens(tokens), ProgramOK
  PROVE  KeepsTheContract
<1>1. program.instrs \in Seq(InstrsRead) /\ program.labels \in Seq(LabelsRead) BY DEF ProgramOK
<1>2. IsArray(program.instrs) /\ IsArray(program.labels) BY <1>1 DEF IsArray
<1>3. ASSUME NEW i \in DOMAIN program.instrs PROVE IsParsedInstr(program.instrs[i])
  <2>1. program.instrs[i] \in InstrsRead BY <1>1
  <2>2. PICK n \in OpcodeTokens : program.instrs[i] = InstrAt(n) BY <2>1 DEF InstrsRead
  <2> QED BY <2>2, InstrContract DEF OpcodeTokens
<1>4. ASSUME NEW j \in DOMAIN program.labels PROVE program.labels[j].address \in Word
  <2>1. program.labels[j] \in LabelsRead BY <1>1
  <2> QED BY <2>1 DEF LabelsRead
<1> QED BY <1>2, <1>3, <1>4 DEF KeepsTheContract, IsParsed

\* The two pushes keep a program a program, and double a capacity in time.
LEMMA PushInstrOK ==
  ASSUME NEW I, NEW L, NEW instr \in I,
         NEW p \in [ instrs : Seq(I), instr_capacity : Nat \ {0},
                     labels : Seq(L), label_capacity : Nat \ {0} ],
         Len(p.instrs) <= p.instr_capacity, Len(p.labels) <= p.label_capacity,
         NEW q, q = rsm_program_push_instr(p, instr)
  PROVE  /\ q \in [ instrs : Seq(I), instr_capacity : Nat \ {0},
                    labels : Seq(L), label_capacity : Nat \ {0} ]
         /\ Len(q.instrs) <= q.instr_capacity /\ Len(q.labels) <= q.label_capacity
<1>1. /\ p.instrs \in Seq(I) /\ p.labels \in Seq(L)
      /\ p.instr_capacity \in Nat \ {0} /\ p.label_capacity \in Nat \ {0}
      /\ Len(p.instrs) \in Nat
      OBVIOUS
<1>2. PICK cap : cap = IF InstrsFull(p) THEN 2 * p.instr_capacity ELSE p.instr_capacity OBVIOUS
<1>3. cap \in Nat \ {0} /\ Len(p.instrs) + 1 <= cap BY <1>1, <1>2 DEF InstrsFull
<1>4. Append(p.instrs, instr) \in Seq(I) /\ Len(Append(p.instrs, instr)) = Len(p.instrs) + 1
      BY <1>1
<1>5. q = [ instrs |-> Append(p.instrs, instr), instr_capacity |-> cap,
            labels |-> p.labels, label_capacity |-> p.label_capacity ]
      BY <1>2 DEF rsm_program_push_instr
<1> QED BY <1>1, <1>3, <1>4, <1>5

\* The same for a label.
LEMMA PushLabelOK ==
  ASSUME NEW I, NEW L, NEW label \in L,
         NEW p \in [ instrs : Seq(I), instr_capacity : Nat \ {0},
                     labels : Seq(L), label_capacity : Nat \ {0} ],
         Len(p.instrs) <= p.instr_capacity, Len(p.labels) <= p.label_capacity,
         NEW q, q = rsm_program_push_label(p, label)
  PROVE  /\ q \in [ instrs : Seq(I), instr_capacity : Nat \ {0},
                    labels : Seq(L), label_capacity : Nat \ {0} ]
         /\ Len(q.instrs) <= q.instr_capacity /\ Len(q.labels) <= q.label_capacity
<1>1. /\ p.instrs \in Seq(I) /\ p.labels \in Seq(L)
      /\ p.instr_capacity \in Nat \ {0} /\ p.label_capacity \in Nat \ {0}
      /\ Len(p.labels) \in Nat
      OBVIOUS
<1>2. PICK cap : cap = IF LabelsFull(p) THEN 2 * p.label_capacity ELSE p.label_capacity OBVIOUS
<1>3. cap \in Nat \ {0} /\ Len(p.labels) + 1 <= cap BY <1>1, <1>2 DEF LabelsFull
<1>4. Append(p.labels, label) \in Seq(L) /\ Len(Append(p.labels, label)) = Len(p.labels) + 1
      BY <1>1
<1>5. q = [ instrs |-> p.instrs, instr_capacity |-> p.instr_capacity,
            labels |-> Append(p.labels, label), label_capacity |-> cap ]
      BY <1>2 DEF rsm_program_push_label
<1> QED BY <1>1, <1>3, <1>4, <1>5

\* What has been read depends on the tokens only.
LEMMA SameText ==
  ASSUME tokens' = tokens
  PROVE  InstrsRead' = InstrsRead /\ LabelsRead' = LabelsRead
<1>1. LabelsRead' = LabelsRead BY DEF LabelsRead, At
<1>2. \A n : InstrAt(n)' = InstrAt(n)
      BY DEF At, InstrAt, HasOpr1, HasOpr2, EndsLine, Behind, InBrackets, parse_operand
<1>3. \A n : Lookahead(n)' = Lookahead(n)
      BY DEF At, Lookahead, HasOpr1, HasOpr2, EndsLine, Behind, InBrackets, parse_operand
<1>4. ASSUME NEW n PROVE parse_opcode(n)' <=> parse_opcode(n)
      BY <1>2, <1>3 DEF parse_opcode, EndsLine, At, WellTyped
<1>5. OpcodeTokens' = OpcodeTokens BY <1>4 DEF OpcodeTokens, At
<1>6. InstrsRead' = InstrsRead BY <1>2, <1>5 DEF InstrsRead
<1> QED BY <1>1, <1>6

\* The parser starts with an empty program, before its first token.
LEMMA ParserInit == Init => PInv
<1> SUFFICES ASSUME Init PROVE PInv OBVIOUS
<1>1. /\ src \in Texts /\ tokens = Tokens(src) /\ held = 0 /\ phase = "start"
      /\ program = [ instrs |-> <<>>, instr_capacity |-> Capacity,
                     labels |-> <<>>, label_capacity |-> Capacity ]
      BY DEF Init, rsm_program_create
<1>2. IsTokens(tokens) BY <1>1, TextsHaveTokens
<1>3. held \in 0 .. Len(tokens) BY <1>1, <1>2 DEF IsTokens
<1>4. ProgramOK BY <1>1, CapacityAssumption DEF ProgramOK
<1>5. TypeOK BY <1>1, <1>3, CapacityAssumption DEF TypeOK
<1> QED BY <1>1, <1>4, <1>5 DEF PInv

\* Every turn of the loop keeps the invariant.
LEMMA ParserStep == PInv /\ [Next]_vars => PInv'
<1> SUFFICES ASSUME PInv, [Next]_vars PROVE PInv' OBVIOUS
<1>1. /\ src \in Texts /\ tokens = Tokens(src) /\ IsTokens(tokens)
      /\ TypeOK /\ ProgramOK
      /\ Len(tokens) \in Nat /\ held \in 0 .. Len(tokens)
      /\ phase = "parsing" => held \in 1 .. Len(tokens)
  <2>1. src \in Texts /\ tokens = Tokens(src) /\ TypeOK /\ ProgramOK BY DEF PInv
  <2>2. IsTokens(tokens) BY <2>1, TextsHaveTokens
  <2>3. Len(tokens) \in Nat BY <2>2 DEF IsTokens
  <2>4. held \in 0 .. Len(tokens) BY <2>1 DEF TypeOK
  <2>5. phase = "parsing" => held # 0 BY DEF PInv
  <2> QED BY <2>1, <2>2, <2>3, <2>4, <2>5
<1>2. ASSUME src' = src, tokens' = tokens, program' = program,
             phase' \in {"start", "parsing"} \cup Ended, held' \in 0 .. Len(tokens),
             phase' = "parsing" => held' # 0
      PROVE  PInv'
  <2>1. InstrsRead' = InstrsRead /\ LabelsRead' = LabelsRead
        BY <1>2, SameText
  <2>2. ProgramOK' BY <1>1, <1>2, <2>1 DEF ProgramOK
  <2>3. TypeOK' BY <1>1, <1>2 DEF TypeOK
  <2> QED BY <1>1, <1>2, <2>2, <2>3 DEF PInv
<1>3. CASE Usage BY <1>1, <1>2, <1>3 DEF Usage, Ended
<1>4. CASE SetupFails BY <1>1, <1>2, <1>4 DEF SetupFails, Ended
<1>5. CASE Start
  <2>1. 1 \in 0 .. Len(tokens) BY <1>1 DEF IsTokens
  <2>2. /\ phase' = "parsing" /\ held' = 1
        /\ src' = src /\ tokens' = tokens /\ program' = program
        BY <1>5 DEF Start
  <2> QED BY <1>2, <2>1, <2>2
<1>6. CASE NewLine
  <2>1. phase = "parsing" /\ At(held).type # "EOF" BY <1>6 DEF NewLine, Holding
  <2>2. held + 1 \in 1 .. Len(tokens) BY <1>1, <2>1, Ahead
  <2>3. held' = held + 1 /\ src' = src /\ tokens' = tokens /\ program' = program
        /\ phase' = "parsing"
        BY <1>6, <2>1 DEF NewLine
  <2> QED BY <1>1, <1>2, <2>2, <2>3
<1>7. CASE EndOfText BY <1>1, <1>2, <1>7 DEF EndOfText, Ended
<1>8. CASE Reject BY <1>1, <1>2, <1>8 DEF Reject, Ended
<1>9. CASE PushFails BY <1>1, <1>2, <1>9 DEF PushFails, Ended
<1>10. ASSUME src' = src, tokens' = tokens, phase' = phase, phase = "parsing",
              held' \in 1 .. Len(tokens), ProgramOK',
              Len(program'.instrs) <= program'.instr_capacity,
              Len(program'.labels) <= program'.label_capacity
       PROVE  PInv'
  <2>1. held' \in 0 .. Len(tokens') /\ held' # 0 BY <1>1, <1>10
  <2>2. TypeOK' BY <1>10, <2>1 DEF TypeOK
  <2> QED BY <1>1, <1>10, <2>1, <2>2 DEF PInv
<1>11. CASE Label
  <2> DEFINE label == [name |-> At(held).ident,
                       address |-> Len(program.instrs) % (UINT16_MAX + 1)]
  <2>1. /\ phase = "parsing" /\ At(held).type = "IDENT" /\ At(held + 1).type = "COLON"
        /\ program' = rsm_program_push_label(program, label)
        /\ held' = held + 2 /\ src' = src /\ tokens' = tokens /\ phase' = phase
        BY <1>11 DEF Label, AtLabel, Holding
  <2>2. held + 1 \in 1 .. Len(tokens) BY <1>1, <2>1, Ahead
  <2>3. held + 1 + 1 \in 1 .. Len(tokens) BY <1>1, <2>1, <2>2, Ahead
  <2>4. label \in LabelsRead
    <3>1. Len(program.instrs) \in Nat BY <1>1 DEF ProgramOK
    <3>2. PICK n \in Nat : n = Len(program.instrs) BY <3>1
    <3>3. UINT16_MAX \in Nat /\ UINT16_MAX <= 65535 BY AddressAssumption DEF Word
    <3>4. n % (UINT16_MAX + 1) \in 0 .. UINT16_MAX BY <3>3
    <3>5. n % (UINT16_MAX + 1) \in Word BY <3>3, <3>4 DEF Word
    <3> QED BY <1>1, <2>1, <3>2, <3>5 DEF LabelsRead
  <2>5. LabelsRead' = LabelsRead /\ InstrsRead' = InstrsRead
        BY <2>1, SameText
  <2>6. /\ program' \in [ instrs : Seq(InstrsRead), instr_capacity : Nat \ {0},
                          labels : Seq(LabelsRead), label_capacity : Nat \ {0} ]
        /\ Len(program'.instrs) <= program'.instr_capacity
        /\ Len(program'.labels) <= program'.label_capacity
        BY <1>1, <2>1, <2>4, PushLabelOK DEF ProgramOK, TypeOK
  <2>7. ProgramOK' BY <2>5, <2>6 DEF ProgramOK
  <2>8. held' \in 1 .. Len(tokens) BY <1>1, <2>1, <2>3
  <2> QED BY <1>10, <2>1, <2>6, <2>7, <2>8
<1>12. CASE Instruction
  <2>1. /\ phase = "parsing" /\ At(held).type = "OPCODE" /\ parse_opcode(held)
        /\ program' = rsm_program_push_instr(program, InstrAt(held))
        /\ held' = Lookahead(held) /\ src' = src /\ tokens' = tokens /\ phase' = phase
        BY <1>12 DEF Instruction, Holding
  <2>2. InstrAt(held) \in InstrsRead BY <1>1, <2>1 DEF InstrsRead, OpcodeTokens
  <2>3. LabelsRead' = LabelsRead /\ InstrsRead' = InstrsRead
        BY <2>1, SameText
  <2>4. /\ program' \in [ instrs : Seq(InstrsRead), instr_capacity : Nat \ {0},
                          labels : Seq(LabelsRead), label_capacity : Nat \ {0} ]
        /\ Len(program'.instrs) <= program'.instr_capacity
        /\ Len(program'.labels) <= program'.label_capacity
        BY <1>1, <2>1, <2>2, PushInstrOK DEF ProgramOK, TypeOK
  <2>5. ProgramOK' BY <2>3, <2>4 DEF ProgramOK
  <2>6. held' \in 1 .. Len(tokens) BY <1>1, <2>1, LookaheadInText
  <2> QED BY <1>10, <2>1, <2>4, <2>5, <2>6
<1>13. CASE UNCHANGED vars
  <2>1. src' = src /\ tokens' = tokens /\ held' = held /\ program' = program /\ phase' = phase
        BY <1>13 DEF vars
  <2> QED BY <1>1, <1>2, <2>1 DEF TypeOK
<1>14. CASE Returned BY <1>13, <1>14 DEF Returned
<1> QED BY <1>3, <1>4, <1>5, <1>6, <1>7, <1>8, <1>9, <1>11, <1>12, <1>13, <1>14
        DEF Next, FrontEnd

\* The invariant holds in every state of the front end.
LEMMA ParserInvariant == Spec => []PInv
BY ParserInit, ParserStep, PTL DEF Spec

-----------------------------------------------------------------------------
(***************************************************************************)
(* The theorems.                                                           *)
(***************************************************************************)
\* rsm_parser_parse never asks for a token behind EOF, whatever an instruction
\* has in its brackets, and neither of the two arrays of a program is written
\* behind its end, however often it has grown.
THEOREM ParserTypeOK == Spec => []TypeOK
<1>1. PInv => TypeOK BY DEF PInv
<1> QED BY <1>1, ParserInvariant, PTL

\* rsm_parser_parse hands over only what rsm_encode_instr can rely on: the
\* assumption on programs from which the assembler's theorems follow.
THEOREM ParserKeepsTheContract == Spec => []KeepsTheContract
<1>1. ASSUME PInv PROVE KeepsTheContract
  <2>1. IsTokens(tokens) BY <1>1, TextsHaveTokens DEF PInv
  <2>2. ProgramOK BY <1>1 DEF PInv
  <2> QED BY <2>1, <2>2, ContractKept
<1> QED BY <1>1, ParserInvariant, PTL

-----------------------------------------------------------------------------
(***************************************************************************)
(* The line of an instruction.                                             *)
(***************************************************************************)
\* The token of an operand, inside its brackets.
OperandAt(n) == IF InBrackets(n) THEN n + 1 ELSE n

LEMMA AtText ==
  ASSUME IsTokens(tokens), NEW n, n \in 1 .. Len(tokens)
  PROVE  n \in Nat /\ n \in DOMAIN tokens /\ At(n) = tokens[n]
BY DEF IsTokens, At

\* The tokens of an operand that is not invalid.
LEMMA OperandTokens ==
  ASSUME IsTokens(tokens), NEW n, n - 1 \in 1 .. Len(tokens), n \in 1 .. Len(tokens),
         tokens[n - 1].type \in {"OPCODE", "COMMA"}, parse_operand(n).type # "INVALID"
  PROVE  /\ Behind(n) \in n + 1 .. Len(tokens)
         /\ OperandAt(n) \in n .. Behind(n) - 1
         /\ \A k \in n .. Behind(n) - 1 :
              /\ tokens[k].type \in {"LBRACKET", "RBRACKET", "NUMBER", "REG", "IDENT"}
              /\ tokens[k].type \in DOMAIN OperandType <=> k = OperandAt(n)
         /\ IsOperand(parse_operand(n), OperandAt(n))
<1>1. Len(tokens) \in Nat /\ n \in Nat /\ At(n) = tokens[n] BY AtText DEF IsTokens
<1>2. Behind(n) \in 1 .. Len(tokens) BY BehindOperand
<1>3. DOMAIN OperandType = {"NUMBER", "REG", "IDENT"} /\ DOMAIN MemType = DOMAIN OperandType
      BY DEF OperandType, MemType
<1>4. CASE InBrackets(n)
  <2>1. Behind(n) = n + 3 /\ OperandAt(n) = n + 1 BY <1>4 DEF Behind, OperandAt
  <2>2. n + 1 \in 1 .. Len(tokens) /\ n + 2 \in 1 .. Len(tokens) BY <1>1, <1>2, <2>1
  <2>3. At(n + 1) = tokens[n + 1] /\ At(n + 2) = tokens[n + 2] BY <2>2, AtText
  <2>4. /\ tokens[n].type = "LBRACKET" /\ tokens[n + 1].type \in DOMAIN OperandType
        /\ tokens[n + 2].type = "RBRACKET"
        BY <1>1, <1>3, <1>4, <2>3 DEF InBrackets
  <2>5. \A k \in n .. Behind(n) - 1 : k = n \/ k = n + 1 \/ k = n + 2 BY <1>1, <2>1
  <2>6. ASSUME NEW k \in n .. Behind(n) - 1
        PROVE  /\ tokens[k].type \in {"LBRACKET", "RBRACKET", "NUMBER", "REG", "IDENT"}
               /\ tokens[k].type \in DOMAIN OperandType <=> k = OperandAt(n)
    <3>1. n # n + 1 /\ n + 2 # n + 1 BY <1>1
    <3> QED BY <1>3, <2>1, <2>4, <2>5, <2>6, <3>1
  <2>7. parse_operand(n) = Operand("MEM", MemType[tokens[n + 1].type], tokens[n + 1])
        BY <1>4, <2>3 DEF parse_operand, InBrackets, OperandType
  <2>8. IsOperand(parse_operand(n), n + 1)
    <3>1. (n + 1) - 1 = n BY <1>1
    <3> QED BY <2>4, <2>7, <3>1 DEF IsOperand, Operand
  <2> QED BY <1>1, <1>2, <2>1, <2>2, <2>6, <2>8
<1>5. CASE ~InBrackets(n)
  <2>1. Behind(n) = n + 1 /\ OperandAt(n) = n BY <1>5 DEF Behind, OperandAt
  <2>2. /\ tokens[n].type \in DOMAIN OperandType
        /\ parse_operand(n) = Operand(OperandType[tokens[n].type], "NONE", tokens[n])
        BY <1>1, <1>5 DEF parse_operand, Operand
  <2>3. \A k \in n .. Behind(n) - 1 : k = n BY <1>1, <2>1
  <2>4. IsOperand(parse_operand(n), n) BY <2>2 DEF IsOperand, Operand
  <2> QED BY <1>1, <1>2, <1>3, <2>1, <2>2, <2>3, <2>4
<1> QED BY <1>4, <1>5

\* The tokens of an instruction that gets as far as the push.
OperandsOf(n) ==
  {k \in {OperandAt(n + 1)} : HasOpr1(n)} \cup {k \in {OperandAt(Behind(n + 1) + 1)} : HasOpr2(n)}

LEMMA InstructionTokens ==
  ASSUME IsTokens(tokens), NEW n, n \in 1 .. Len(tokens), tokens[n].type = "OPCODE",
         parse_opcode(n)
  PROVE  /\ Lookahead(n) \in n + 1 .. Len(tokens)
         /\ tokens[Lookahead(n)].type \in {"NEWLINE", "EOF"}
         /\ \A k \in n + 1 .. Lookahead(n) - 1 :
              /\ tokens[k].type \notin {"OPCODE", "COLON", "NEWLINE", "EOF"}
              /\ tokens[k].type \in DOMAIN OperandType <=> k \in OperandsOf(n)
         /\ OperandsOf(n) \subseteq n + 1 .. Lookahead(n) - 1
         /\ HasOpr1(n) => IsOperand(InstrAt(n).opr1, OperandAt(n + 1))
         /\ HasOpr2(n) => /\ HasOpr1(n)
                          /\ IsOperand(InstrAt(n).opr2, OperandAt(Behind(n + 1) + 1))
                          /\ OperandAt(n + 1) < OperandAt(Behind(n + 1) + 1)
<1>1. Len(tokens) \in Nat /\ n \in Nat /\ At(n) = tokens[n] BY AtText DEF IsTokens
<1>2. Lookahead(n) \in 1 .. Len(tokens) BY <1>1, LookaheadInText
<1>3. tokens[Lookahead(n)].type \in {"NEWLINE", "EOF"}
      BY <1>2, AtText DEF parse_opcode, EndsLine
<1>4. "INVALID" \notin {InstrAt(n).opr1.type, InstrAt(n).opr2.type} BY DEF parse_opcode
<1>5. n + 1 \in 1 .. Len(tokens) BY <1>1, Ahead
<1>6. n + 1 - 1 = n BY <1>1
<1>7. DOMAIN OperandType = {"NUMBER", "REG", "IDENT"} BY DEF OperandType
<1>8. CASE ~HasOpr1(n)
  <2>1. ~HasOpr2(n) BY <1>8 DEF HasOpr2
  <2>2. Lookahead(n) = n + 1 /\ OperandsOf(n) = {}
        BY <1>8, <2>1 DEF Lookahead, OperandsOf
  <2>3. n + 1 .. Lookahead(n) - 1 = {} BY <1>1, <2>2
  <2> QED BY <1>1, <1>3, <1>5, <1>8, <2>1, <2>2, <2>3
<1>9. CASE HasOpr1(n)
  <2> DEFINE p == n + 1
             b == Behind(p)
  <2>1. InstrAt(n).opr1 = parse_operand(p) BY <1>9 DEF InstrAt
  <2>2. parse_operand(p).type # "INVALID" BY <1>4, <2>1
  <2>3. /\ b \in p + 1 .. Len(tokens)
        /\ OperandAt(p) \in p .. b - 1
        /\ \A k \in p .. b - 1 :
             /\ tokens[k].type \in {"LBRACKET", "RBRACKET", "NUMBER", "REG", "IDENT"}
             /\ tokens[k].type \in DOMAIN OperandType <=> k = OperandAt(p)
        /\ IsOperand(parse_operand(p), OperandAt(p))
        BY <1>1, <1>5, <1>6, <2>2, OperandTokens
  <2>4. CASE ~HasOpr2(n)
    <3>1. Lookahead(n) = b /\ OperandsOf(n) = {OperandAt(p)}
          BY <1>9, <2>4 DEF Lookahead, OperandsOf
    <3> HIDE DEF b
    <3>2. Lookahead(n) \in n + 1 .. Len(tokens) BY <1>1, <2>3, <3>1
    <3>3. OperandAt(p) \in n + 1 .. b - 1 BY <2>3
    <3>4. \A k \in n + 1 .. b - 1 :
            tokens[k].type \in {"LBRACKET", "RBRACKET", "NUMBER", "REG", "IDENT"}
          BY <2>3
    <3> QED BY <1>3, <1>9, <2>1, <2>3, <2>4, <3>1, <3>2, <3>3, <3>4
  <2>5. CASE HasOpr2(n)
    <3> DEFINE q == b + 1
               e == Behind(q)
    <3>1. Lookahead(n) = e /\ OperandsOf(n) = {OperandAt(p), OperandAt(q)}
          BY <1>9, <2>5 DEF Lookahead, OperandsOf
    <3>2. InstrAt(n).opr2 = parse_operand(q) BY <2>5 DEF InstrAt
    <3>3. parse_operand(q).type # "INVALID" BY <1>4, <3>2
    <3>4. At(b).type = "COMMA" BY <2>5 DEF HasOpr2
    <3> HIDE DEF b
    <3>5. b \in Nat /\ b \in 1 .. Len(tokens) /\ b \in n + 2 .. Len(tokens) BY <1>1, <2>3
    <3>6. At(b) = tokens[b] BY <3>5, AtText
    <3>7. q \in 1 .. Len(tokens) BY <3>4, <3>5, Ahead
    <3>8. q - 1 = b BY <3>5
    <3>9. /\ e \in q + 1 .. Len(tokens)
          /\ OperandAt(q) \in q .. e - 1
          /\ \A k \in q .. e - 1 :
               /\ tokens[k].type \in {"LBRACKET", "RBRACKET", "NUMBER", "REG", "IDENT"}
               /\ tokens[k].type \in DOMAIN OperandType <=> k = OperandAt(q)
          /\ IsOperand(parse_operand(q), OperandAt(q))
          BY <3>3, <3>4, <3>5, <3>6, <3>7, <3>8, OperandTokens
    <3> HIDE DEF e
    <3>10. PICK x \in Nat : x = OperandAt(p) /\ p <= x /\ x < b BY <1>1, <2>3, <3>5
    <3>11. PICK y \in Nat : y = OperandAt(q) /\ q <= y /\ y < e BY <1>1, <3>5, <3>9
    <3>12. e \in Nat /\ e <= Len(tokens) BY <3>5, <3>9
    <3>13. ASSUME NEW k \in n + 1 .. e - 1
           PROVE  /\ tokens[k].type \notin {"OPCODE", "COLON", "NEWLINE", "EOF"}
                  /\ tokens[k].type \in DOMAIN OperandType <=> k \in {x, y}
      <4>1. CASE k \in p .. b - 1
        <5>1. k # y BY <3>5, <3>11, <4>1
        <5> QED BY <2>3, <3>10, <4>1, <5>1
      <4>2. CASE k = b
        <5>1. k # x /\ k # y BY <3>5, <3>10, <3>11, <4>2
        <5>2. tokens[k].type = "COMMA" BY <3>4, <3>6, <4>2
        <5> QED BY <1>7, <5>1, <5>2
      <4>3. CASE k \in q .. e - 1
        <5>1. k # x BY <3>5, <3>10, <4>3
        <5> QED BY <3>9, <3>11, <4>3, <5>1
      <4>4. k \in p .. b - 1 \/ k = b \/ k \in q .. e - 1 BY <1>1, <3>5, <3>12
      <4> QED BY <4>1, <4>2, <4>3, <4>4
    <3>14. /\ x \in n + 1 .. e - 1 /\ y \in n + 1 .. e - 1 /\ x < y
           /\ e \in n + 1 .. Len(tokens)
           BY <1>1, <3>5, <3>10, <3>11, <3>12
    <3> QED BY <1>3, <1>9, <2>1, <2>3, <2>5, <3>1, <3>2, <3>9, <3>10, <3>11, <3>13, <3>14
            DEF b
  <2> QED BY <2>4, <2>5
<1> QED BY <1>8, <1>9

\* How sets are counted, one member after the other.
LEMMA OneMore ==
  ASSUME NEW S, IsFiniteSet(S), NEW x, x \notin S
  PROVE  IsFiniteSet(S \cup {x}) /\ Cardinality(S \cup {x}) = Cardinality(S) + 1
BY FS_AddElement

LEMMA CountOfPair ==
  ASSUME NEW x, NEW y, x # y
  PROVE  Cardinality({x, y}) = 2
<1>1. IsFiniteSet({x}) /\ Cardinality({x}) = 1 BY FS_Singleton
<1>2. y \notin {x} /\ {x} \cup {y} = {x, y} OBVIOUS
<1>3. Cardinality({x} \cup {y}) = Cardinality({x}) + 1 BY <1>1, <1>2, OneMore
<1>4. Cardinality({x, y}) = 1 + 1 BY <1>1, <1>2, <1>3
<1> QED BY <1>4

\* The operands of the line are those of the instruction.
LEMMA LineRead ==
  ASSUME IsTokens(tokens), NEW n, n \in 1 .. Len(tokens), tokens[n].type = "OPCODE",
         parse_opcode(n)
  PROVE  LET named == Mentioned(n)
             instr == InstrAt(n)
         IN  /\ instr.opcode = tokens[n].value
             /\ named = {} => instr.opr1 = NoOperand
             /\ Cardinality(named) < 2 => instr.opr2 = NoOperand
             /\ \A k \in named :
                  IsOperand(IF \A l \in named : k <= l THEN instr.opr1 ELSE instr.opr2, k)
<1>1. Len(tokens) \in Nat /\ n \in Nat /\ At(n) = tokens[n] /\ IsTokens(tokens)
      BY AtText DEF IsTokens
<1> DEFINE e == Lookahead(n)
<1>2. /\ e \in n + 1 .. Len(tokens)
      /\ tokens[e].type \in {"NEWLINE", "EOF"}
      /\ \A k \in n + 1 .. e - 1 :
           /\ tokens[k].type \notin {"OPCODE", "COLON", "NEWLINE", "EOF"}
           /\ tokens[k].type \in DOMAIN OperandType <=> k \in OperandsOf(n)
      /\ OperandsOf(n) \subseteq n + 1 .. e - 1
      /\ HasOpr1(n) => IsOperand(InstrAt(n).opr1, OperandAt(n + 1))
      /\ HasOpr2(n) => /\ HasOpr1(n)
                       /\ IsOperand(InstrAt(n).opr2, OperandAt(Behind(n + 1) + 1))
                       /\ OperandAt(n + 1) < OperandAt(Behind(n + 1) + 1)
      BY InstructionTokens
<1> HIDE DEF e
<1>3. Mentioned(n) = OperandsOf(n)
  <2>1. ASSUME NEW k \in Mentioned(n) PROVE k \in OperandsOf(n)
    <3>1. /\ k \in n + 1 .. Len(tokens) /\ tokens[k].type \in DOMAIN OperandType
          /\ \A l \in n .. k : tokens[l].type # "NEWLINE"
          BY DEF Mentioned
    <3>2. k < e
      <4> SUFFICES ASSUME e <= k PROVE FALSE BY <1>2, <3>1
      <4>1. e \in n .. k BY <1>1, <1>2, <3>1
      <4>2. tokens[e].type = "EOF" BY <1>2, <3>1, <4>1
      <4>3. e \in DOMAIN tokens BY <1>1, <1>2 DEF IsTokens
      <4>4. e = Len(tokens) BY <1>1, <4>2, <4>3 DEF IsTokens
      <4>5. k = e BY <1>1, <3>1, <4>4
      <4> QED BY <3>1, <4>2, <4>5 DEF OperandType
    <3>3. k \in n + 1 .. e - 1 BY <1>1, <1>2, <3>1, <3>2
    <3> QED BY <1>2, <3>1, <3>3
  <2>2. ASSUME NEW k \in OperandsOf(n) PROVE k \in Mentioned(n)
    <3>1. k \in n + 1 .. e - 1 BY <1>2
    <3>2. tokens[k].type \in DOMAIN OperandType /\ k \in n + 1 .. Len(tokens)
          BY <1>1, <1>2, <3>1
    <3>3. ASSUME NEW l \in n .. k PROVE tokens[l].type # "NEWLINE"
      <4>1. l = n \/ l \in n + 1 .. e - 1 BY <1>1, <1>2, <3>1
      <4> QED BY <1>2, <4>1
    <3> QED BY <3>2, <3>3 DEF Mentioned
  <2> QED BY <2>1, <2>2
<1>4. CASE ~HasOpr1(n)
  <2>1. OperandsOf(n) = {} BY <1>2, <1>4 DEF OperandsOf
  <2> QED BY <1>1, <1>2, <1>3, <1>4, <2>1 DEF InstrAt
<1>5. CASE HasOpr1(n) /\ ~HasOpr2(n)
  <2>1. PICK x : x = OperandAt(n + 1) OBVIOUS
  <2>2. OperandsOf(n) = {x} BY <1>5, <2>1 DEF OperandsOf
  <2>3. x \in n + 1 .. e - 1 BY <1>2, <2>2
  <2>4. InstrAt(n).opr2 = NoOperand /\ InstrAt(n).opcode = tokens[n].value
        BY <1>1, <1>5 DEF InstrAt
  <2>5. x <= x BY <1>1, <2>3
  <2> QED BY <1>2, <1>3, <1>5, <2>1, <2>2, <2>4, <2>5
<1>6. CASE HasOpr2(n)
  <2>1. PICK x : x = OperandAt(n + 1) OBVIOUS
  <2>2. PICK y : y = OperandAt(Behind(n + 1) + 1) OBVIOUS
  <2>3. OperandsOf(n) = {x, y} /\ x < y
        BY <1>2, <1>6, <2>1, <2>2 DEF OperandsOf
  <2>4. x \in n + 1 .. e - 1 /\ y \in n + 1 .. e - 1 BY <1>2, <2>3
  <2>5. x \in Int /\ y \in Int /\ x # y /\ x <= x /\ x <= y /\ ~(y <= x)
        BY <1>1, <2>3, <2>4
  <2>6. Cardinality({x, y}) = 2 BY <2>5, CountOfPair
  <2>7. InstrAt(n).opcode = tokens[n].value BY <1>1 DEF InstrAt
  <2> QED BY <1>2, <1>3, <1>6, <2>1, <2>2, <2>3, <2>5, <2>6, <2>7
<1> QED BY <1>2, <1>4, <1>5, <1>6

-----------------------------------------------------------------------------
(***************************************************************************)
(* The program is the text.  While the parser holds the token n, the       *)
(* instructions are those of the opcodes before n and the labels those of  *)
(* the colons before n, each at the index its place in the text gives it.  *)
(***************************************************************************)
Before(n) == {k \in 1 .. n - 1 : tokens[k].type = "OPCODE"}

ColonsTo(n) == Colons \cap 1 .. n

InstrsBuilt(instrs, n) ==
  /\ Len(instrs) = OpcodesBefore(n)
  /\ \A m \in Before(n) : /\ parse_opcode(m)
                          /\ OpcodesBefore(m) + 1 \in 1 .. Len(instrs)
                          /\ instrs[OpcodesBefore(m) + 1] = InstrAt(m)

LabelAt(m) == [name |-> tokens[m - 1].ident, address |-> OpcodesBefore(m)]

LabelsBuilt(labels, n) ==
  /\ Len(labels) = Cardinality(ColonsTo(n - 1))
  /\ \A m \in ColonsTo(n - 1) : /\ Cardinality(ColonsTo(m)) \in 1 .. Len(labels)
                                /\ labels[Cardinality(ColonsTo(m))] = LabelAt(m)

Built ==
  /\ phase = "start" => program.instrs = <<>> /\ program.labels = <<>>
  /\ phase \in {"parsing", "parsed"} =>
       /\ held \in 1 .. Len(tokens)
       /\ phase = "parsed" => held = Len(tokens)
       /\ InstrsBuilt(program.instrs, held)
       /\ LabelsBuilt(program.labels, held)

LEMMA Counts ==
  ASSUME NEW n, n \in Nat
  PROVE  /\ IsFiniteSet(Before(n)) /\ IsFiniteSet(ColonsTo(n))
         /\ OpcodesBefore(n) = Cardinality(Before(n))
         /\ OpcodesBefore(n) \in Nat /\ Cardinality(ColonsTo(n)) \in Nat
<1>1. IsFiniteSet(1 .. n - 1) /\ IsFiniteSet(1 .. n) BY FS_Interval
<1>2. Before(n) \subseteq 1 .. n - 1 /\ ColonsTo(n) \subseteq 1 .. n BY DEF Before, ColonsTo
<1>3. IsFiniteSet(Before(n)) /\ IsFiniteSet(ColonsTo(n)) BY <1>1, <1>2, FS_Subset
<1>4. OpcodesBefore(n) = Cardinality(Before(n)) BY DEF OpcodesBefore, Before
<1> QED BY <1>3, <1>4, FS_CardinalityType

\* Tokens that are no opcodes leave the instructions complete, and those that
\* are no colons the labels.
LEMMA NoOpcodes ==
  ASSUME NEW n, n \in Nat \ {0}, NEW m, m \in Nat, n <= m,
         \A k \in n .. m - 1 : tokens[k].type # "OPCODE"
  PROVE  Before(m) = Before(n) /\ OpcodesBefore(m) = OpcodesBefore(n)
<1>1. Before(m) = Before(n)
  <2>1. ASSUME NEW k, k \in 1 .. m - 1, k \notin 1 .. n - 1 PROVE tokens[k].type # "OPCODE"
    <3>1. k \in n .. m - 1 BY <2>1
    <3> QED BY <3>1
  <2>2. 1 .. n - 1 \subseteq 1 .. m - 1 OBVIOUS
  <2> QED BY <2>1, <2>2 DEF Before
<1> QED BY <1>1, Counts

LEMMA NoColons ==
  ASSUME NEW n, n \in Nat \ {0}, NEW m, m \in Nat, n <= m,
         \A k \in n .. m - 1 : tokens[k].type # "COLON"
  PROVE  ColonsTo(m - 1) = ColonsTo(n - 1)
<1>1. ASSUME NEW k, k \in 1 .. m - 1, k \notin 1 .. n - 1 PROVE tokens[k].type # "COLON"
  <2>1. k \in n .. m - 1 BY <1>1
  <2> QED BY <2>1
<1>2. 1 .. n - 1 \subseteq 1 .. m - 1 OBVIOUS
<1> QED BY <1>1, <1>2 DEF ColonsTo, Colons

\* An instruction pushed for the opcode n.
LEMMA InstrPushed ==
  ASSUME IsTokens(tokens), NEW I, NEW instrs, instrs \in Seq(I),
         NEW n, n \in 1 .. Len(tokens), tokens[n].type = "OPCODE", parse_opcode(n),
         InstrsBuilt(instrs, n)
  PROVE  InstrsBuilt(Append(instrs, InstrAt(n)), n + 1)
<1>1. Len(tokens) \in Nat /\ n \in Nat /\ n + 1 \in Nat BY DEF IsTokens
<1> DEFINE longer == Append(instrs, InstrAt(n))
<1>2. Before(n + 1) = Before(n) \cup {n} /\ n \notin Before(n)
  <2>1. n + 1 - 1 = n /\ 1 .. n = (1 .. n - 1) \cup {n} /\ n \notin 1 .. n - 1 BY <1>1
  <2> QED BY <2>1 DEF Before
<1>3. OpcodesBefore(n + 1) = OpcodesBefore(n) + 1
  <2>1. /\ OpcodesBefore(n) = Cardinality(Before(n)) /\ IsFiniteSet(Before(n))
        /\ OpcodesBefore(n + 1) = Cardinality(Before(n + 1))
        BY <1>1, Counts
  <2> QED BY <1>2, <2>1, OneMore
<1>4. /\ Len(longer) = Len(instrs) + 1 /\ Len(instrs) \in Nat
      /\ \A i \in 1 .. Len(instrs) : longer[i] = instrs[i]
      /\ longer[Len(instrs) + 1] = InstrAt(n)
      OBVIOUS
<1>5. Len(instrs) = OpcodesBefore(n) BY DEF InstrsBuilt
<1> HIDE DEF longer
<1>6. ASSUME NEW m \in Before(n + 1)
      PROVE  /\ parse_opcode(m)
             /\ OpcodesBefore(m) + 1 \in 1 .. Len(longer)
             /\ longer[OpcodesBefore(m) + 1] = InstrAt(m)
  <2>1. CASE m = n BY <1>4, <1>5, <2>1
  <2>2. CASE m \in Before(n)
    <3>1. /\ parse_opcode(m) /\ OpcodesBefore(m) + 1 \in 1 .. Len(instrs)
          /\ instrs[OpcodesBefore(m) + 1] = InstrAt(m)
          BY <2>2 DEF InstrsBuilt
    <3>2. OpcodesBefore(m) + 1 \in 1 .. Len(longer) BY <1>4, <3>1
    <3> QED BY <1>4, <3>1, <3>2
  <2> QED BY <1>2, <2>1, <2>2
<1>7. InstrsBuilt(longer, n + 1) BY <1>3, <1>4, <1>5, <1>6 DEF InstrsBuilt
<1> QED BY <1>7 DEF longer

\* A label pushed for the colon n.
LEMMA LabelPushed ==
  ASSUME IsTokens(tokens), NEW L, NEW labels, labels \in Seq(L),
         NEW n, n \in 1 .. Len(tokens), tokens[n].type = "COLON",
         LabelsBuilt(labels, n)
  PROVE  LabelsBuilt(Append(labels, LabelAt(n)), n + 1)
<1>1. Len(tokens) \in Nat /\ n \in Nat /\ n - 1 \in Nat /\ n \in DOMAIN tokens
      BY DEF IsTokens
<1> DEFINE longer == Append(labels, LabelAt(n))
<1>2. ColonsTo(n) = ColonsTo(n - 1) \cup {n} /\ n \notin ColonsTo(n - 1)
  <2>1. 1 .. n = (1 .. n - 1) \cup {n} /\ n \notin 1 .. n - 1 BY <1>1
  <2>2. n \in Colons BY <1>1 DEF Colons
  <2> QED BY <2>1, <2>2 DEF ColonsTo
<1>3. Cardinality(ColonsTo(n)) = Cardinality(ColonsTo(n - 1)) + 1
  <2>1. IsFiniteSet(ColonsTo(n - 1)) BY <1>1, Counts
  <2> QED BY <1>2, <2>1, OneMore
<1>4. /\ Len(longer) = Len(labels) + 1 /\ Len(labels) \in Nat
      /\ \A i \in 1 .. Len(labels) : longer[i] = labels[i]
      /\ longer[Len(labels) + 1] = LabelAt(n)
      OBVIOUS
<1>5. Len(labels) = Cardinality(ColonsTo(n - 1)) BY DEF LabelsBuilt
<1> HIDE DEF longer
<1>6. ASSUME NEW m \in ColonsTo(n)
      PROVE  /\ Cardinality(ColonsTo(m)) \in 1 .. Len(longer)
             /\ longer[Cardinality(ColonsTo(m))] = LabelAt(m)
  <2>1. CASE m = n BY <1>3, <1>4, <1>5, <2>1
  <2>2. CASE m \in ColonsTo(n - 1)
    <3>1. /\ Cardinality(ColonsTo(m)) \in 1 .. Len(labels)
          /\ labels[Cardinality(ColonsTo(m))] = LabelAt(m)
          BY <2>2 DEF LabelsBuilt
    <3>2. Cardinality(ColonsTo(m)) \in 1 .. Len(longer) BY <1>4, <3>1
    <3> QED BY <1>4, <3>1, <3>2
  <2> QED BY <1>2, <2>1, <2>2
<1>7. n + 1 - 1 = n BY <1>1
<1>8. LabelsBuilt(longer, n + 1) BY <1>3, <1>4, <1>5, <1>6, <1>7 DEF LabelsBuilt
<1> QED BY <1>8 DEF longer

\* Whether they are built depends on the tokens only.
LEMMA SameBuilt ==
  ASSUME tokens' = tokens
  PROVE  /\ \A instrs, n : InstrsBuilt(instrs, n)' <=> InstrsBuilt(instrs, n)
         /\ \A labels, n : LabelsBuilt(labels, n)' <=> LabelsBuilt(labels, n)
<1>1. \A n : InstrAt(n)' = InstrAt(n)
      BY DEF At, InstrAt, HasOpr1, HasOpr2, EndsLine, Behind, InBrackets, parse_operand
<1>2. \A n : Lookahead(n)' = Lookahead(n)
      BY DEF At, Lookahead, HasOpr1, HasOpr2, EndsLine, Behind, InBrackets, parse_operand
<1>3. ASSUME NEW n PROVE parse_opcode(n)' <=> parse_opcode(n)
      BY <1>1, <1>2 DEF parse_opcode, EndsLine, At, WellTyped
<1>4. \A n : OpcodesBefore(n)' = OpcodesBefore(n) /\ Before(n)' = Before(n)
      BY DEF OpcodesBefore, Before
<1>5. \A n : ColonsTo(n)' = ColonsTo(n) BY DEF ColonsTo, Colons
<1>6. \A n : LabelAt(n)' = LabelAt(n) BY <1>4 DEF LabelAt
<1>7. ASSUME NEW instrs, NEW n PROVE InstrsBuilt(instrs, n)' <=> InstrsBuilt(instrs, n)
      BY <1>1, <1>3, <1>4 DEF InstrsBuilt
<1>8. ASSUME NEW labels, NEW n PROVE LabelsBuilt(labels, n)' <=> LabelsBuilt(labels, n)
      BY <1>5, <1>6 DEF LabelsBuilt
<1> QED BY <1>7, <1>8

\* Tokens that are passed over.
LEMMA PassedOver ==
  ASSUME NEW n, n \in Nat \ {0}, NEW m, m \in Nat, n <= m,
         \A k \in n .. m - 1 : tokens[k].type \notin {"OPCODE", "COLON"}
  PROVE  /\ \A instrs : InstrsBuilt(instrs, n) => InstrsBuilt(instrs, m)
         /\ \A labels : LabelsBuilt(labels, n) => LabelsBuilt(labels, m)
<1>1. Before(m) = Before(n) /\ OpcodesBefore(m) = OpcodesBefore(n) BY NoOpcodes
<1>2. ColonsTo(m - 1) = ColonsTo(n - 1) BY NoColons
<1> QED BY <1>1, <1>2 DEF InstrsBuilt, LabelsBuilt

\* Every turn of the loop builds what it passes over.
LEMMA BuiltStep == PInv /\ Built /\ [Next]_vars => Built'
<1> SUFFICES ASSUME PInv, Built, [Next]_vars PROVE Built' OBVIOUS
<1>1. /\ IsTokens(tokens) /\ Len(tokens) \in Nat /\ ProgramOK
  <2>1. tokens = Tokens(src) /\ src \in Texts /\ ProgramOK BY DEF PInv
  <2>2. IsTokens(tokens) BY <2>1, TextsHaveTokens
  <2> QED BY <2>1, <2>2 DEF IsTokens
<1>2. program.instrs \in Seq(InstrsRead) /\ program.labels \in Seq(LabelsRead)
      BY <1>1 DEF ProgramOK
<1>3. ASSUME phase = "parsing"
      PROVE  /\ held \in 1 .. Len(tokens) /\ At(held) = tokens[held]
             /\ InstrsBuilt(program.instrs, held) /\ LabelsBuilt(program.labels, held)
  <2>1. /\ held \in 1 .. Len(tokens)
        /\ InstrsBuilt(program.instrs, held) /\ LabelsBuilt(program.labels, held)
        BY <1>3 DEF Built
  <2> QED BY <1>1, <2>1, AtText
<1>4. ASSUME tokens' = tokens, held' \in 1 .. Len(tokens),
             phase' # "start", phase' = "parsed" => held' = Len(tokens),
             InstrsBuilt(program'.instrs, held'), LabelsBuilt(program'.labels, held')
      PROVE  Built'
  <2>1. InstrsBuilt(program.instrs, held)' /\ LabelsBuilt(program.labels, held)'
        BY <1>4, SameBuilt
  <2> QED BY <1>4, <2>1 DEF Built
<1>5. ASSUME phase' \notin {"start", "parsing", "parsed"} PROVE Built' BY <1>5 DEF Built
<1>6. CASE Usage BY <1>5, <1>6 DEF Usage
<1>7. CASE SetupFails BY <1>5, <1>7 DEF SetupFails
<1>8. CASE Reject BY <1>5, <1>8 DEF Reject
<1>9. CASE PushFails BY <1>5, <1>9 DEF PushFails
<1>10. CASE UNCHANGED vars
  <2>1. tokens' = tokens /\ held' = held /\ program' = program /\ phase' = phase
        BY <1>10 DEF vars
  <2>2. CASE phase \in {"parsing", "parsed"} BY <1>4, <2>1, <2>2 DEF Built
  <2>3. CASE phase = "start" BY <2>1, <2>3 DEF Built
  <2>4. CASE phase \notin {"start", "parsing", "parsed"} BY <1>5, <2>1, <2>4
  <2> QED BY <2>2, <2>3, <2>4
<1>11. CASE Returned BY <1>10, <1>11 DEF Returned
<1>12. CASE NewLine
  <2>1. /\ phase = "parsing" /\ At(held).type = "NEWLINE"
        /\ held' = held + 1 /\ tokens' = tokens /\ program' = program /\ phase' = phase
        BY <1>12 DEF NewLine, Holding
  <2>2. held \in Nat \ {0} /\ held + 1 \in Nat /\ held <= held + 1 BY <1>1, <1>3, <2>1
  <2>3. \A k \in held .. held + 1 - 1 : k = held BY <2>2
  <2>4. \A k \in held .. held + 1 - 1 : tokens[k].type \notin {"OPCODE", "COLON"}
        BY <1>3, <2>1, <2>3
  <2>5. InstrsBuilt(program.instrs, held + 1) /\ LabelsBuilt(program.labels, held + 1)
        BY <1>3, <2>1, <2>2, <2>4, PassedOver
  <2>6. held + 1 \in 1 .. Len(tokens) BY <1>1, <1>3, <2>1, Ahead
  <2> QED BY <1>4, <2>1, <2>5, <2>6
<1>13. CASE EndOfText
  <2>1. /\ phase = "parsing" /\ At(held).type = "EOF"
        /\ held' = held /\ tokens' = tokens /\ program' = program /\ phase' = "parsed"
        BY <1>13 DEF EndOfText, Holding
  <2>2. held = Len(tokens) BY <1>1, <1>3, <2>1 DEF IsTokens
  <2> QED BY <1>3, <1>4, <2>1, <2>2
<1>14. CASE Instruction
  <2> DEFINE e == Lookahead(held)
             longer == Append(program.instrs, InstrAt(held))
  <2>1. /\ phase = "parsing" /\ At(held).type = "OPCODE" /\ parse_opcode(held)
        /\ program' = rsm_program_push_instr(program, InstrAt(held))
        /\ held' = e /\ tokens' = tokens /\ phase' = phase
        BY <1>14 DEF Instruction, Holding
  <2>2. program'.instrs = longer /\ program'.labels = program.labels
    <3>1. DOMAIN program = {"instrs", "instr_capacity", "labels", "label_capacity"}
          BY <1>1 DEF ProgramOK
    <3> QED BY <1>1, <2>1, <3>1 DEF ProgramOK, rsm_program_push_instr
  <2>3. tokens[held].type = "OPCODE" /\ held \in 1 .. Len(tokens) /\ held \in Nat
        BY <1>1, <1>3, <2>1
  <2>4. /\ e \in held + 1 .. Len(tokens)
        /\ \A k \in held + 1 .. e - 1 :
             tokens[k].type \notin {"OPCODE", "COLON", "NEWLINE", "EOF"}
        BY <1>1, <2>1, <2>3, InstructionTokens
  <2> HIDE DEF e
  <2>5. e \in 1 .. Len(tokens) /\ e \in Nat /\ held + 1 \in Nat \ {0} /\ held + 1 <= e
        BY <1>1, <2>3, <2>4
  <2>6. InstrsBuilt(longer, held + 1)
        BY <1>1, <1>2, <1>3, <2>1, <2>3, InstrPushed
  <2>7. InstrsBuilt(longer, e) BY <2>4, <2>5, <2>6, PassedOver
  <2>8. \A k \in held .. held + 1 - 1 : k = held BY <2>3
  <2>9. \A k \in held .. e - 1 : tokens[k].type # "COLON"
    <3>1. ASSUME NEW k \in held .. e - 1 PROVE k = held \/ k \in held + 1 .. e - 1
          BY <2>3, <2>5
    <3> QED BY <2>3, <2>4, <3>1
  <2>10. ColonsTo(e - 1) = ColonsTo(held - 1)
    <3>1. held \in Nat \ {0} /\ held <= e BY <2>3, <2>5
    <3> QED BY <2>5, <2>9, <3>1, NoColons
  <2>11. LabelsBuilt(program.labels, e) BY <1>3, <2>1, <2>10 DEF LabelsBuilt
  <2> HIDE DEF longer
  <2> QED BY <1>3, <1>4, <2>1, <2>2, <2>5, <2>7, <2>11
<1>15. CASE Label
  <2> DEFINE address == Len(program.instrs) % (UINT16_MAX + 1)
             c == held + 1
             longer == Append(program.labels, LabelAt(c))
  <2>1. /\ phase = "parsing" /\ At(held).type = "IDENT" /\ At(c).type = "COLON"
        /\ ~AddressTooLarge
        /\ program' = rsm_program_push_label(program,
                        [name |-> At(held).ident, address |-> address])
        /\ held' = held + 2 /\ tokens' = tokens /\ phase' = phase
        BY <1>15 DEF Label, AtLabel, Holding
  <2>2. tokens[held].type = "IDENT" /\ held \in 1 .. Len(tokens) /\ held \in Nat
        BY <1>1, <1>3, <2>1
  <2>3. c \in 1 .. Len(tokens) BY <1>1, <1>3, <2>1, Ahead
  <2>4. c \in Nat /\ c - 1 = held /\ c + 1 = held + 2 /\ held <= c /\ held \in Nat \ {0}
        BY <2>2
  <2>5. At(c) = tokens[c] BY <1>1, <2>3, AtText
  <2>6. c + 1 \in 1 .. Len(tokens)
    <3>1. At(c).type # "EOF" BY <2>1
    <3> QED BY <1>1, <2>3, <3>1, Ahead
  <2> HIDE DEF c
  <2>7. \A k \in held .. c - 1 : tokens[k].type \notin {"OPCODE", "COLON"}
    <3>1. \A k \in held .. c - 1 : k = held BY <2>4
    <3> QED BY <2>2, <3>1
  <2>8. InstrsBuilt(program.instrs, c) /\ LabelsBuilt(program.labels, c)
        BY <1>3, <2>1, <2>4, <2>7, PassedOver
  <2>9. address = OpcodesBefore(c)
    <3>1. Len(program.instrs) = OpcodesBefore(c) BY <2>8 DEF InstrsBuilt
    <3>2. PICK a \in Nat : a = OpcodesBefore(c) BY <2>4, Counts
    <3>3. UINT16_MAX \in Nat BY AddressAssumption DEF Word
    <3>4. a <= UINT16_MAX BY <2>1, <3>1, <3>2, <3>3 DEF AddressTooLarge
    <3>5. a % (UINT16_MAX + 1) = a BY <3>3, <3>4
    <3> QED BY <3>1, <3>2, <3>5
  <2> HIDE DEF address
  <2>10. [name |-> At(held).ident, address |-> address] = LabelAt(c)
         BY <1>3, <2>1, <2>4, <2>9 DEF LabelAt
  <2>11. program'.instrs = program.instrs /\ program'.labels = longer
    <3>1. program' = rsm_program_push_label(program, LabelAt(c)) BY <2>1, <2>10
    <3>2. DOMAIN program = {"instrs", "instr_capacity", "labels", "label_capacity"}
          BY <1>1 DEF ProgramOK
    <3> QED BY <1>1, <3>1, <3>2 DEF ProgramOK, rsm_program_push_label
  <2>12. tokens[c].type = "COLON" BY <2>1, <2>5
  <2>13. LabelsBuilt(longer, c + 1)
         BY <1>1, <1>2, <2>3, <2>8, <2>12, LabelPushed
  <2>14. \A k \in c .. c + 1 - 1 : tokens[k].type # "OPCODE"
    <3>1. \A k \in c .. c + 1 - 1 : k = c BY <2>4
    <3> QED BY <2>12, <3>1
  <2>15. Before(c + 1) = Before(c) /\ OpcodesBefore(c + 1) = OpcodesBefore(c)
    <3>1. c \in Nat \ {0} /\ c + 1 \in Nat /\ c <= c + 1 BY <2>3, <2>4
    <3> QED BY <2>14, <3>1, NoOpcodes
  <2>16. InstrsBuilt(program.instrs, c + 1) BY <2>8, <2>15 DEF InstrsBuilt
  <2> HIDE DEF longer
  <2>17. held' = c + 1 BY <2>1, <2>4
  <2> QED BY <1>3, <1>4, <2>1, <2>6, <2>11, <2>13, <2>16, <2>17
<1>16. CASE Start
  <2>1. /\ phase = "start" /\ phase' = "parsing" /\ held' = 1
        /\ tokens' = tokens /\ program' = program
        BY <1>16 DEF Start
  <2>2. program.instrs = <<>> /\ program.labels = <<>> BY <2>1 DEF Built
  <2>3. Before(1) = {} /\ ColonsTo(0) = {}
    <3>1. 1 .. 1 - 1 = {} /\ 1 .. 0 = {} OBVIOUS
    <3> QED BY <3>1 DEF Before, ColonsTo
  <2>4. OpcodesBefore(1) = Cardinality(Before(1)) /\ Cardinality({}) = 0 BY Counts, FS_EmptySet
  <2>5. Len(<<>>) = 0 /\ 1 - 1 = 0 OBVIOUS
  <2>6. InstrsBuilt(<<>>, 1) BY <2>3, <2>4, <2>5 DEF InstrsBuilt
  <2>7. LabelsBuilt(<<>>, 1) BY <2>3, <2>4, <2>5 DEF LabelsBuilt
  <2>8. 1 \in 1 .. Len(tokens) BY <1>1 DEF IsTokens
  <2> QED BY <1>4, <2>1, <2>2, <2>6, <2>7, <2>8
<1> QED BY <1>6, <1>7, <1>8, <1>9, <1>10, <1>11, <1>12, <1>13, <1>14, <1>15, <1>16
        DEF Next, FrontEnd

\* The invariant of what has been built.
LEMMA BuiltInvariant == Spec => []Built
<1>1. Init => Built BY DEF Init, Built, rsm_program_create
<1> QED BY <1>1, BuiltStep, ParserInvariant, PTL DEF Spec

\* A text that rsm_parser_parse accepts and the program it hands over say the
\* same: no token got lost in the lookahead, no statement in the growth of the
\* two arrays, and every label has the address of the instruction behind it.
THEOREM ParserBuildsTheProgram == Spec => []BuildsTheProgram
<1>1. ASSUME PInv, Built PROVE BuildsTheProgram
  <2> SUFFICES ASSUME phase = "parsed" PROVE BuildsTheProgram BY DEF BuildsTheProgram
  <2> DEFINE opcodes == {n \in DOMAIN tokens : tokens[n].type = "OPCODE"}
             last    == Len(tokens)
  <2>1. IsTokens(tokens) BY <1>1, TextsHaveTokens DEF PInv
  <2>2. /\ last \in Nat /\ DOMAIN tokens = 1 .. last /\ tokens[last].type = "EOF"
        /\ last \in 1 .. last
        BY <2>1 DEF IsTokens
  <2>3. InstrsBuilt(program.instrs, last) /\ LabelsBuilt(program.labels, last)
        BY <1>1 DEF Built
  <2> HIDE DEF last
  <2>4. \A n \in 1 .. last : n = last \/ n \in 1 .. last - 1 BY <2>2
  <2>5. 1 .. last - 1 \subseteq 1 .. last BY <2>2
  <2>6. opcodes = Before(last) BY <2>2, <2>4, <2>5 DEF Before
  <2>7. Colons = ColonsTo(last - 1) BY <2>2, <2>4, <2>5 DEF ColonsTo, Colons
  <2>8. OpcodesBefore(last) = Cardinality(Before(last)) BY <2>2, Counts
  <2>9. Len(program.instrs) = Cardinality(opcodes) BY <2>3, <2>6, <2>8 DEF InstrsBuilt
  <2>10. Len(program.labels) = Cardinality(Colons) BY <2>3, <2>7 DEF LabelsBuilt
  <2>11. ASSUME NEW n \in opcodes
         PROVE  LET instr == program.instrs[OpcodesBefore(n) + 1]
                    named == Mentioned(n)
                IN  /\ instr.opcode = tokens[n].value
                    /\ named = {} => instr.opr1 = NoOperand
                    /\ Cardinality(named) < 2 => instr.opr2 = NoOperand
                    /\ \A k \in named :
                         IsOperand(IF \A l \in named : k <= l THEN instr.opr1 ELSE instr.opr2, k)
    <3>1. parse_opcode(n) /\ program.instrs[OpcodesBefore(n) + 1] = InstrAt(n)
          BY <2>3, <2>6 DEF InstrsBuilt
    <3>2. n \in 1 .. Len(tokens) /\ tokens[n].type = "OPCODE" BY <2>2 DEF last
    <3> QED BY <2>1, <3>1, <3>2, LineRead
  <2>12. ASSUME NEW n \in Colons
         PROVE  LET label == program.labels[Cardinality(Colons \cap 1 .. n)]
                IN  label.name = tokens[n - 1].ident /\ label.address = OpcodesBefore(n)
    <3>1. program.labels[Cardinality(ColonsTo(n))] = LabelAt(n)
          BY <2>3, <2>7 DEF LabelsBuilt
    <3> QED BY <3>1 DEF ColonsTo, LabelAt
  <2> QED BY <2>9, <2>10, <2>11, <2>12 DEF BuildsTheProgram
<1> QED BY <1>1, ParserInvariant, BuiltInvariant, PTL

-----------------------------------------------------------------------------
(***************************************************************************)
(* The forms of a line.  First the forms themselves, written out from the  *)
(* concatenations that define them.                                        *)
(***************************************************************************)
\* The tokens that are operands, and all the tokens a form is made of.
Kinds == {"NUMBER", "REG", "IDENT"}
TokenTypes == Kinds \cup {"COMMA", "LBRACKET", "RBRACKET"}

\* The sequence u is s and then t.
Joins(s, t, u) ==
  /\ s \in Seq(TokenTypes) /\ t \in Seq(TokenTypes) /\ u \in Seq(TokenTypes)
  /\ Len(u) = Len(s) + Len(t)
  /\ \A i \in 1 .. Len(s) : u[i] = s[i]
  /\ \A i \in 1 .. Len(t) : u[Len(s) + i] = t[i]

LEMMA Joined ==
  ASSUME NEW s, NEW t, NEW u, Joins(s, t, u)
  PROVE  s \o t = u
<1>1. /\ s \in Seq(TokenTypes) /\ t \in Seq(TokenTypes) /\ u \in Seq(TokenTypes)
      /\ Len(u) = Len(s) + Len(t)
      /\ \A i \in 1 .. Len(s) : u[i] = s[i]
      /\ \A i \in 1 .. Len(t) : u[Len(s) + i] = t[i]
      BY DEF Joins
<1>2. /\ s \o t \in Seq(TokenTypes) /\ Len(s \o t) = Len(s) + Len(t)
      /\ \A i \in 1 .. Len(s) + Len(t) :
           (s \o t)[i] = IF i <= Len(s) THEN s[i] ELSE t[i - Len(s)]
      BY <1>1, ConcatProperties, Zenon
<1>3. PICK c : c = s \o t OBVIOUS
<1>4. /\ c \in Seq(TokenTypes) /\ Len(c) = Len(u)
      /\ \A i \in 1 .. Len(s) + Len(t) : c[i] = IF i <= Len(s) THEN s[i] ELSE t[i - Len(s)]
      BY <1>1, <1>2, <1>3, Zenon
<1>5. ASSUME NEW i \in 1 .. Len(u) PROVE c[i] = u[i]
  <2>1. CASE i <= Len(s) BY <1>1, <1>4, <2>1
  <2>2. CASE ~(i <= Len(s))
    <3>1. i - Len(s) \in 1 .. Len(t) /\ Len(s) + (i - Len(s)) = i BY <1>1, <2>2
    <3> QED BY <1>1, <1>4, <2>2, <3>1
  <2> QED BY <2>1, <2>2
<1>6. c = u BY <1>1, <1>4, <1>5
<1> QED BY <1>3, <1>6

\* The forms of two operands, written out.
LEMMA JoinedForms ==
  ASSUME NEW t, t \in Kinds, NEW u, u \in Kinds
  PROVE  /\ <<"LBRACKET">> \o <<t>> \o <<"RBRACKET">> = <<"LBRACKET", t, "RBRACKET">>
         /\ Into \o <<u>> = <<"REG", "COMMA", u>>
         /\ Into \o <<"LBRACKET", u, "RBRACKET">> = <<"REG", "COMMA", "LBRACKET", u, "RBRACKET">>
         /\ <<"LBRACKET", t, "RBRACKET">> \o <<"COMMA", "REG">>
              = <<"LBRACKET", t, "RBRACKET", "COMMA", "REG">>
         /\ <<t>> \o <<"COMMA">> \o <<u>> = <<t, "COMMA", u>>
         /\ <<t>> \o <<"COMMA">> \o <<"LBRACKET", u, "RBRACKET">>
              = <<t, "COMMA", "LBRACKET", u, "RBRACKET">>
<1>1. /\ Joins(<<"LBRACKET">>, <<t>>, <<"LBRACKET", t>>)
      /\ Joins(<<"LBRACKET", t>>, <<"RBRACKET">>, <<"LBRACKET", t, "RBRACKET">>)
      /\ Joins(Into, <<u>>, <<"REG", "COMMA", u>>)
      /\ Joins(Into, <<"LBRACKET", u, "RBRACKET">>, <<"REG", "COMMA", "LBRACKET", u, "RBRACKET">>)
      /\ Joins(<<"LBRACKET", t, "RBRACKET">>, <<"COMMA", "REG">>,
               <<"LBRACKET", t, "RBRACKET", "COMMA", "REG">>)
      /\ Joins(<<t>>, <<"COMMA">>, <<t, "COMMA">>)
      /\ Joins(<<t, "COMMA">>, <<u>>, <<t, "COMMA", u>>)
      /\ Joins(<<t, "COMMA">>, <<"LBRACKET", u, "RBRACKET">>,
               <<t, "COMMA", "LBRACKET", u, "RBRACKET">>)
      BY DEF Joins, TokenTypes, Kinds, Into
<1>2. /\ <<"LBRACKET">> \o <<t>> = <<"LBRACKET", t>>
      /\ <<"LBRACKET", t>> \o <<"RBRACKET">> = <<"LBRACKET", t, "RBRACKET">>
      BY <1>1, Joined, Zenon
<1>3. /\ Into \o <<u>> = <<"REG", "COMMA", u>>
      /\ Into \o <<"LBRACKET", u, "RBRACKET">> = <<"REG", "COMMA", "LBRACKET", u, "RBRACKET">>
      BY <1>1, Joined, Zenon
<1>4. <<"LBRACKET", t, "RBRACKET">> \o <<"COMMA", "REG">>
        = <<"LBRACKET", t, "RBRACKET", "COMMA", "REG">>
      BY <1>1, Joined, Zenon
<1>5. /\ <<t>> \o <<"COMMA">> = <<t, "COMMA">>
      /\ <<t, "COMMA">> \o <<u>> = <<t, "COMMA", u>>
      /\ <<t, "COMMA">> \o <<"LBRACKET", u, "RBRACKET">>
           = <<t, "COMMA", "LBRACKET", u, "RBRACKET">>
      BY <1>1, Joined, Zenon
<1> QED BY <1>2, <1>3, <1>4, <1>5, Zenon

-----------------------------------------------------------------------------
(***************************************************************************)
(* What rsm_parser_parse_opcode makes of a line, for each of the five      *)
(* groups of operations: it gets as far as the push if and only if the     *)
(* tokens are of these types, whatever the lookahead has to decide.        *)
(***************************************************************************)
\* What the parser makes of the tokens from k on.
LEMMA OperandKinds ==
  ASSUME NEW k
  PROVE  /\ InBrackets(k) => /\ parse_operand(k).type = "MEM" /\ Behind(k) = k + 3
                             /\ ~EndsLine(k)
         /\ At(k).type \in Kinds =>
              /\ parse_operand(k).type = OperandType[At(k).type] /\ Behind(k) = k + 1
              /\ ~EndsLine(k)
         /\ parse_operand(k).type = "MEM" => InBrackets(k)
         /\ parse_operand(k).type = "REG" => At(k).type = "REG"
         /\ parse_operand(k).type = "IMM" => At(k).type = "NUMBER"
         /\ parse_operand(k).type = "LABEL" => At(k).type = "IDENT"
         /\ parse_operand(k).type \in {"MEM", "REG", "IMM", "LABEL", "INVALID"}
<1>1. DOMAIN OperandType = Kinds /\ DOMAIN MemType = Kinds BY DEF OperandType, MemType, Kinds
<1>2. CASE InBrackets(k)
  <2>1. parse_operand(k).type = "MEM" /\ Behind(k) = k + 3
        BY <1>2 DEF parse_operand, Behind, InBrackets, Operand, OperandType
  <2>2. At(k).type = "LBRACKET" BY <1>2 DEF InBrackets
  <2> QED BY <1>2, <2>1, <2>2 DEF EndsLine, Kinds
<1>3. CASE ~InBrackets(k) /\ At(k).type \in Kinds
  <2>1. parse_operand(k).type = OperandType[At(k).type] /\ Behind(k) = k + 1
        BY <1>1, <1>3 DEF parse_operand, Behind, Operand
  <2> QED BY <1>3, <2>1 DEF EndsLine, Kinds, OperandType
<1>4. CASE ~InBrackets(k) /\ At(k).type \notin Kinds
  <2>1. parse_operand(k).type = "INVALID" BY <1>1, <1>4 DEF parse_operand, Operand
  <2> QED BY <1>4, <2>1
<1> QED BY <1>2, <1>3, <1>4

\* The operations fall into five groups.
LEMMA Groups ==
  /\ RVM_OP.RET \notin Transfers \cup TwoOperand \cup {RVM_OP.LOAD, RVM_OP.STORE}
  /\ RVM_OP.LOAD \notin Transfers \cup TwoOperand \cup {RVM_OP.STORE}
  /\ RVM_OP.STORE \notin Transfers \cup TwoOperand
  /\ Transfers \cap TwoOperand = {}
  /\ 0 .. 15 = {RVM_OP.RET, RVM_OP.LOAD, RVM_OP.STORE} \cup Transfers \cup TwoOperand
BY DEF RVM_OP, Transfers, TwoOperand

\* The group without operands.
LEMMA RetLine ==
  ASSUME NEW n, n \in Nat, At(n).value = RVM_OP.RET
  PROVE  parse_opcode(n) <=> EndsLine(n + 1)
<1>1. ~HasOpr1(n) /\ ~HasOpr2(n) BY DEF HasOpr1, HasOpr2
<1>2. Lookahead(n) = n + 1 BY <1>1 DEF Lookahead
<1>3. /\ InstrAt(n).opr1.type = "NONE" /\ InstrAt(n).opr2.type = "NONE"
      /\ InstrAt(n).opcode = RVM_OP.RET
      BY <1>1 DEF InstrAt, NoOperand
<1>4. \A a, b : WellTyped(RVM_OP.RET, a, b) <=> a.type = "NONE" /\ b.type = "NONE"
      BY Groups DEF WellTyped
<1> QED BY <1>2, <1>3, <1>4 DEF parse_opcode

\* Two operands of which the first is a and the second b.
LEMMA TwoRead ==
  ASSUME NEW n, n \in Nat, At(n).value # RVM_OP.RET,
         parse_operand(n + 1).type # "INVALID", At(Behind(n + 1)).type = "COMMA"
  PROVE  /\ InstrAt(n).opcode = At(n).value
         /\ InstrAt(n).opr1 = parse_operand(n + 1)
         /\ InstrAt(n).opr2 = parse_operand(Behind(n + 1) + 1)
         /\ Lookahead(n) = Behind(Behind(n + 1) + 1)
<1>1. ~EndsLine(n + 1)
  <2>1. parse_operand(n + 1).type \in {"MEM", "REG", "IMM", "LABEL"} BY OperandKinds
  <2> QED BY <2>1, OperandKinds DEF Kinds
<1>2. HasOpr1(n) /\ HasOpr2(n) BY <1>1 DEF HasOpr1, HasOpr2
<1> QED BY <1>2 DEF InstrAt, Lookahead

\* One operand, and no second one.
LEMMA OneRead ==
  ASSUME NEW n, n \in Nat, At(n).value # RVM_OP.RET,
         parse_operand(n + 1).type # "INVALID", At(Behind(n + 1)).type # "COMMA"
  PROVE  /\ InstrAt(n).opcode = At(n).value
         /\ InstrAt(n).opr1 = parse_operand(n + 1)
         /\ InstrAt(n).opr2 = NoOperand
         /\ Lookahead(n) = Behind(n + 1)
<1>1. ~EndsLine(n + 1)
  <2>1. parse_operand(n + 1).type \in {"MEM", "REG", "IMM", "LABEL"} BY OperandKinds
  <2> QED BY <2>1, OperandKinds DEF Kinds
<1>2. HasOpr1(n) /\ ~HasOpr2(n) BY <1>1 DEF HasOpr1, HasOpr2
<1> QED BY <1>2 DEF InstrAt, Lookahead

\* A first operand that is there.
LEMMA FirstRead ==
  ASSUME NEW n, n \in Nat, parse_opcode(n), InstrAt(n).opr1.type # "NONE"
  PROVE  /\ At(n).value # RVM_OP.RET
         /\ parse_operand(n + 1).type # "INVALID"
         /\ InstrAt(n).opr1 = parse_operand(n + 1)
         /\ InstrAt(n).opr2.type # "NONE" => At(Behind(n + 1)).type = "COMMA"
<1>1. HasOpr1(n) BY DEF InstrAt, NoOperand
<1>2. InstrAt(n).opr1 = parse_operand(n + 1) BY <1>1 DEF InstrAt
<1>3. InstrAt(n).opr2.type # "NONE" => HasOpr2(n) BY DEF InstrAt, NoOperand
<1> QED BY <1>1, <1>2, <1>3 DEF HasOpr1, HasOpr2, parse_opcode

\* The four groups with operands.
LEMMA LoadLine ==
  ASSUME NEW n, n \in Nat, At(n).value = RVM_OP.LOAD
  PROVE  parse_opcode(n) <=> /\ At(n + 1).type = "REG" /\ At(n + 2).type = "COMMA"
                             /\ InBrackets(n + 3) /\ EndsLine(n + 6)
<1>1. \A a, b : WellTyped(RVM_OP.LOAD, a, b) <=> a.type = "REG" /\ b.type = "MEM"
      BY Groups DEF WellTyped
<1>2. At(n).value # RVM_OP.RET BY Groups
<1>3. InstrAt(n).opcode = RVM_OP.LOAD BY DEF InstrAt
<1>4. n + 1 + 1 = n + 2 /\ n + 2 + 1 = n + 3 /\ n + 3 + 3 = n + 6 OBVIOUS
<1>5. ASSUME parse_opcode(n)
      PROVE  /\ At(n + 1).type = "REG" /\ At(n + 2).type = "COMMA"
             /\ InBrackets(n + 3) /\ EndsLine(n + 6)
  <2>1. InstrAt(n).opr1.type = "REG" /\ InstrAt(n).opr2.type = "MEM" /\ EndsLine(Lookahead(n))
        BY <1>1, <1>3, <1>5 DEF parse_opcode
  <2>2. /\ parse_operand(n + 1).type = "REG" /\ At(Behind(n + 1)).type = "COMMA"
        BY <1>5, <2>1, FirstRead
  <2>3. At(n + 1).type = "REG" /\ Behind(n + 1) = n + 2
        BY <1>4, <2>2, OperandKinds DEF Kinds
  <2>4. InstrAt(n).opr2 = parse_operand(n + 3) /\ Lookahead(n) = Behind(n + 3)
        BY <1>2, <1>4, <2>2, <2>3, TwoRead
  <2>5. InBrackets(n + 3) /\ Behind(n + 3) = n + 6 BY <1>4, <2>1, <2>4, OperandKinds
  <2> QED BY <2>1, <2>2, <2>3, <2>4, <2>5
<1>6. ASSUME At(n + 1).type = "REG", At(n + 2).type = "COMMA",
             InBrackets(n + 3), EndsLine(n + 6)
      PROVE  parse_opcode(n)
  <2>1. parse_operand(n + 1).type = "REG" /\ Behind(n + 1) = n + 2
        BY <1>4, <1>6, OperandKinds DEF Kinds, OperandType
  <2>2. parse_operand(n + 3).type = "MEM" /\ Behind(n + 3) = n + 6
        BY <1>4, <1>6, OperandKinds
  <2>3. /\ InstrAt(n).opr1 = parse_operand(n + 1) /\ InstrAt(n).opr2 = parse_operand(n + 3)
        /\ Lookahead(n) = n + 6
        BY <1>2, <1>4, <1>6, <2>1, <2>2, TwoRead
  <2> QED BY <1>1, <1>3, <1>6, <2>1, <2>2, <2>3 DEF parse_opcode
<1> QED BY <1>5, <1>6

LEMMA StoreLine ==
  ASSUME NEW n, n \in Nat, At(n).value = RVM_OP.STORE
  PROVE  parse_opcode(n) <=> /\ InBrackets(n + 1) /\ At(n + 4).type = "COMMA"
                             /\ At(n + 5).type = "REG" /\ EndsLine(n + 6)
<1>1. \A a, b : WellTyped(RVM_OP.STORE, a, b) <=> a.type = "MEM" /\ b.type = "REG"
      BY Groups DEF WellTyped
<1>2. At(n).value # RVM_OP.RET BY Groups
<1>3. InstrAt(n).opcode = RVM_OP.STORE BY DEF InstrAt
<1>4. n + 1 + 3 = n + 4 /\ n + 4 + 1 = n + 5 /\ n + 5 + 1 = n + 6 OBVIOUS
<1>5. ASSUME parse_opcode(n)
      PROVE  /\ InBrackets(n + 1) /\ At(n + 4).type = "COMMA"
             /\ At(n + 5).type = "REG" /\ EndsLine(n + 6)
  <2>1. InstrAt(n).opr1.type = "MEM" /\ InstrAt(n).opr2.type = "REG" /\ EndsLine(Lookahead(n))
        BY <1>1, <1>3, <1>5 DEF parse_opcode
  <2>2. /\ parse_operand(n + 1).type = "MEM" /\ At(Behind(n + 1)).type = "COMMA"
        BY <1>5, <2>1, FirstRead
  <2>3. InBrackets(n + 1) /\ Behind(n + 1) = n + 4 BY <1>4, <2>2, OperandKinds
  <2>4. InstrAt(n).opr2 = parse_operand(n + 5) /\ Lookahead(n) = Behind(n + 5)
        BY <1>2, <1>4, <2>2, <2>3, TwoRead
  <2>5. At(n + 5).type = "REG" /\ Behind(n + 5) = n + 6
        BY <1>4, <2>1, <2>4, OperandKinds DEF Kinds
  <2> QED BY <2>1, <2>2, <2>3, <2>4, <2>5
<1>6. ASSUME InBrackets(n + 1), At(n + 4).type = "COMMA", At(n + 5).type = "REG", EndsLine(n + 6)
      PROVE  parse_opcode(n)
  <2>1. parse_operand(n + 1).type = "MEM" /\ Behind(n + 1) = n + 4
        BY <1>4, <1>6, OperandKinds
  <2>2. parse_operand(n + 5).type = "REG" /\ Behind(n + 5) = n + 6
        BY <1>4, <1>6, OperandKinds DEF Kinds, OperandType
  <2>3. /\ InstrAt(n).opr1 = parse_operand(n + 1) /\ InstrAt(n).opr2 = parse_operand(n + 5)
        /\ Lookahead(n) = n + 6
        BY <1>2, <1>4, <1>6, <2>1, <2>2, TwoRead
  <2> QED BY <1>1, <1>3, <1>6, <2>1, <2>2, <2>3 DEF parse_opcode
<1> QED BY <1>5, <1>6

LEMMA TwoOperandLine ==
  ASSUME NEW n, n \in Nat, At(n).value \in TwoOperand
  PROVE  parse_opcode(n) <=> /\ At(n + 1).type = "REG" /\ At(n + 2).type = "COMMA"
                             /\ At(n + 3).type \in {"REG", "NUMBER"} /\ EndsLine(n + 4)
<1>1. \A a, b : WellTyped(At(n).value, a, b) <=> a.type = "REG" /\ b.type \in {"REG", "IMM"}
      BY Groups DEF WellTyped
<1>2. At(n).value # RVM_OP.RET BY Groups
<1>3. InstrAt(n).opcode = At(n).value BY DEF InstrAt
<1>4. n + 1 + 1 = n + 2 /\ n + 2 + 1 = n + 3 /\ n + 3 + 1 = n + 4 OBVIOUS
<1>5. ASSUME parse_opcode(n)
      PROVE  /\ At(n + 1).type = "REG" /\ At(n + 2).type = "COMMA"
             /\ At(n + 3).type \in {"REG", "NUMBER"} /\ EndsLine(n + 4)
  <2>1. /\ InstrAt(n).opr1.type = "REG" /\ InstrAt(n).opr2.type \in {"REG", "IMM"}
        /\ EndsLine(Lookahead(n))
        BY <1>1, <1>3, <1>5 DEF parse_opcode
  <2>2. /\ parse_operand(n + 1).type = "REG" /\ At(Behind(n + 1)).type = "COMMA"
        BY <1>5, <2>1, FirstRead
  <2>3. At(n + 1).type = "REG" /\ Behind(n + 1) = n + 2
        BY <1>4, <2>2, OperandKinds DEF Kinds
  <2>4. InstrAt(n).opr2 = parse_operand(n + 3) /\ Lookahead(n) = Behind(n + 3)
        BY <1>2, <1>4, <2>2, <2>3, TwoRead
  <2>5. At(n + 3).type \in {"REG", "NUMBER"} BY <2>1, <2>4, OperandKinds
  <2>6. Behind(n + 3) = n + 4 BY <1>4, <2>5, OperandKinds DEF Kinds
  <2> QED BY <2>1, <2>2, <2>3, <2>4, <2>5, <2>6
<1>6. ASSUME At(n + 1).type = "REG", At(n + 2).type = "COMMA",
             At(n + 3).type \in {"REG", "NUMBER"}, EndsLine(n + 4)
      PROVE  parse_opcode(n)
  <2>1. parse_operand(n + 1).type = "REG" /\ Behind(n + 1) = n + 2
        BY <1>4, <1>6, OperandKinds DEF Kinds, OperandType
  <2>2. parse_operand(n + 3).type \in {"REG", "IMM"} /\ Behind(n + 3) = n + 4
        BY <1>4, <1>6, OperandKinds DEF Kinds, OperandType
  <2>3. /\ InstrAt(n).opr1 = parse_operand(n + 1) /\ InstrAt(n).opr2 = parse_operand(n + 3)
        /\ Lookahead(n) = n + 4
        BY <1>2, <1>4, <1>6, <2>1, <2>2, TwoRead
  <2> QED BY <1>1, <1>3, <1>6, <2>1, <2>2, <2>3 DEF parse_opcode
<1> QED BY <1>5, <1>6

LEMMA TransferLine ==
  ASSUME NEW n, n \in Nat, At(n).value \in Transfers
  PROVE  parse_opcode(n) <=>
           /\ At(n + 1).type \in Kinds
           /\ \/ EndsLine(n + 2)
              \/ /\ At(n + 2).type = "COMMA"
                 /\ \/ At(n + 3).type \in Kinds /\ EndsLine(n + 4)
                    \/ InBrackets(n + 3) /\ EndsLine(n + 6)
<1>1. \A a, b : WellTyped(At(n).value, a, b) <=> a.type \in {"LABEL", "REG", "IMM"}
      BY Groups DEF WellTyped
<1>2. At(n).value # RVM_OP.RET BY Groups
<1>3. InstrAt(n).opcode = At(n).value BY DEF InstrAt
<1>4. n + 1 + 1 = n + 2 /\ n + 2 + 1 = n + 3 /\ n + 3 + 1 = n + 4 /\ n + 3 + 3 = n + 6
      OBVIOUS
<1>5. ASSUME parse_opcode(n)
      PROVE  At(n + 1).type \in Kinds /\ parse_operand(n + 1).type # "INVALID"
  <2>1. InstrAt(n).opr1.type \in {"LABEL", "REG", "IMM"}
        BY <1>1, <1>3, <1>5 DEF parse_opcode
  <2>2. parse_operand(n + 1).type \in {"LABEL", "REG", "IMM"}
        BY <1>5, <2>1, FirstRead
  <2> QED BY <2>2, OperandKinds DEF Kinds
<1>6. ASSUME At(n + 1).type \in Kinds
      PROVE  /\ parse_operand(n + 1).type \in {"LABEL", "REG", "IMM"}
             /\ Behind(n + 1) = n + 2
      BY <1>4, <1>6, OperandKinds DEF Kinds, OperandType
<1>7. CASE At(n + 1).type \in Kinds /\ At(n + 2).type # "COMMA"
  <2>1. /\ parse_operand(n + 1).type \in {"LABEL", "REG", "IMM"} /\ Behind(n + 1) = n + 2
        /\ parse_operand(n + 1).type # "INVALID" /\ At(Behind(n + 1)).type # "COMMA"
        BY <1>6, <1>7
  <2>2. /\ InstrAt(n).opr1 = parse_operand(n + 1) /\ InstrAt(n).opr2 = NoOperand
        /\ Lookahead(n) = n + 2
        BY <1>2, <1>7, <2>1, OneRead
  <2>3. NoOperand.type = "NONE" BY DEF NoOperand
  <2>4. InstrAt(n).opr2.type = "NONE" BY <2>2, <2>3
  <2>5. InstrAt(n).opr1.type \in {"LABEL", "REG", "IMM"} /\ InstrAt(n).opcode = At(n).value
        BY <1>3, <2>1, <2>2
  <2>6. parse_opcode(n) <=> EndsLine(n + 2)
        BY <1>1, <2>2, <2>4, <2>5 DEF parse_opcode
  <2> QED BY <1>7, <2>6
<1>8. CASE At(n + 1).type \in Kinds /\ At(n + 2).type = "COMMA"
  <2>1. /\ InstrAt(n).opr1.type \in {"LABEL", "REG", "IMM"}
        /\ InstrAt(n).opr2 = parse_operand(n + 3) /\ Lookahead(n) = Behind(n + 3)
        BY <1>2, <1>4, <1>6, <1>8, TwoRead
  <2>2. parse_opcode(n) <=> parse_operand(n + 3).type # "INVALID" /\ EndsLine(Behind(n + 3))
        BY <1>1, <1>3, <2>1 DEF parse_opcode
  <2>3. ~EndsLine(n + 2) BY <1>8 DEF EndsLine
  <2>4. At(n + 3).type \in Kinds => /\ parse_operand(n + 3).type # "INVALID"
                                    /\ Behind(n + 3) = n + 4
        BY <1>4, OperandKinds DEF Kinds, OperandType
  <2>5. InBrackets(n + 3) => parse_operand(n + 3).type # "INVALID" /\ Behind(n + 3) = n + 6
        BY <1>4, OperandKinds
  <2>6. parse_operand(n + 3).type # "INVALID" => InBrackets(n + 3) \/ At(n + 3).type \in Kinds
        BY OperandKinds DEF Kinds
  <2> QED BY <1>8, <2>2, <2>3, <2>4, <2>5, <2>6
<1> QED BY <1>5, <1>7, <1>8

-----------------------------------------------------------------------------
(***************************************************************************)
(* A line that has a form is one that the parser reads.                    *)
(***************************************************************************)
\* A form of n's line.
HasForm(n, form) ==
  LET types == Types(tokens)
      end   == n + Len(form) + 1
  IN  /\ end \in DOMAIN tokens
      /\ SubSeq(types, n + 1, end - 1) = form
      /\ types[end] \in {"NEWLINE", "EOF"}

\* The parser sees a form token by token.
LEMMA FormSeen ==
  ASSUME IsTokens(tokens), NEW n, n \in 1 .. Len(tokens), tokens[n].type = "OPCODE",
         NEW form, form \in Seq(TokenTypes)
  PROVE  HasForm(n, form) <=> /\ \A i \in 1 .. Len(form) : At(n + i).type = form[i]
                              /\ EndsLine(n + Len(form) + 1)
<1>1. /\ Len(tokens) \in Nat /\ DOMAIN tokens = 1 .. Len(tokens)
      /\ tokens[Len(tokens)].type = "EOF" /\ Len(form) \in Nat /\ n \in Nat
      BY DEF IsTokens
<1> DEFINE end == n + Len(form) + 1
           S == {tokens[k].type : k \in DOMAIN tokens} \cup TokenTypes
           types == Types(tokens)
<1>2. /\ types \in Seq(S) /\ Len(types) = Len(tokens)
      /\ \A k \in 1 .. Len(tokens) : types[k] = tokens[k].type
      BY <1>1 DEF Types
<1>3. form \in Seq(S) OBVIOUS
<1> HIDE DEF S, types
<1>4. ASSUME end \in DOMAIN tokens
      PROVE  HasForm(n, form) <=> /\ \A i \in 1 .. Len(form) : At(n + i).type = form[i]
                                  /\ EndsLine(end)
  <2>1. PICK part : part = SubSeq(types, n + 1, end - 1) OBVIOUS
  <2>2. n + 1 \in 1 .. Len(types) /\ end - 1 \in (n + 1) - 1 .. Len(types)
        BY <1>1, <1>2, <1>4
  <2>3. /\ part \in Seq(S) /\ Len(part) = (end - 1) - (n + 1) + 1
        /\ \A i \in 1 .. (end - 1) - (n + 1) + 1 : part[i] = types[(n + 1) + i - 1]
        BY <1>2, <2>1, <2>2
  <2>4. (end - 1) - (n + 1) + 1 = Len(form) BY <1>1
  <2>5. ASSUME NEW i \in 1 .. Len(form) PROVE part[i] = At(n + i).type
    <3>1. n + i \in 1 .. Len(tokens) /\ (n + 1) + i - 1 = n + i BY <1>1, <1>4
    <3>2. At(n + i) = tokens[n + i] BY <3>1, AtText
    <3> QED BY <1>2, <2>3, <2>4, <3>1, <3>2
  <2>6. part = form <=> \A i \in 1 .. Len(form) : At(n + i).type = form[i]
    <3>1. part = form => \A i \in 1 .. Len(form) : At(n + i).type = form[i] BY <2>5
    <3>2. ASSUME \A i \in 1 .. Len(form) : At(n + i).type = form[i] PROVE part = form
      <4>1. Len(part) = Len(form) BY <2>3, <2>4
      <4>2. \A i \in 1 .. Len(form) : part[i] = form[i] BY <2>5, <3>2
      <4> QED BY <1>3, <2>3, <4>1, <4>2
    <3> QED BY <3>1, <3>2
  <2>7. At(end) = tokens[end] /\ types[end] = tokens[end].type BY <1>1, <1>2, <1>4, AtText
  <2>8. HasForm(n, form) <=> part = form /\ types[end] \in {"NEWLINE", "EOF"}
        BY <1>4, <2>1 DEF HasForm, types
  <2> QED BY <2>6, <2>7, <2>8 DEF EndsLine
<1>5. ASSUME end \notin DOMAIN tokens, \A i \in 1 .. Len(form) : At(n + i).type = form[i]
      PROVE  FALSE
  <2>1. PICK i \in 0 .. Len(form) : n + i = Len(tokens)
    <3>1. Len(tokens) - n \in 0 .. Len(form) /\ n + (Len(tokens) - n) = Len(tokens)
          BY <1>1, <1>5
    <3> QED BY <3>1
  <2>2. tokens[n + i].type = "EOF" BY <1>1, <2>1
  <2>3. i # 0 BY <1>1, <2>2
  <2>4. i \in 1 .. Len(form) /\ n + i \in 1 .. Len(tokens) BY <1>1, <2>1, <2>3
  <2>5. At(n + i) = tokens[n + i] BY <2>4, AtText
  <2>6. form[i] = "EOF" /\ form[i] \in TokenTypes BY <1>5, <2>2, <2>4, <2>5
  <2> QED BY <2>6 DEF TokenTypes, Kinds
<1>6. HasForm(n, form) => end \in DOMAIN tokens BY DEF HasForm
<1> QED BY <1>4, <1>5, <1>6

\* The same for the forms of the grammar, which have no more than five tokens.
LEMMA TupleSeen ==
  ASSUME IsTokens(tokens), NEW n, n \in 1 .. Len(tokens), tokens[n].type = "OPCODE"
  PROVE  /\ HasForm(n, <<>>) <=> EndsLine(n + 1)
         /\ \A a \in TokenTypes :
              HasForm(n, <<a>>) <=> At(n + 1).type = a /\ EndsLine(n + 2)
         /\ \A a, b, c \in TokenTypes :
              HasForm(n, <<a, b, c>>) <=>
                /\ At(n + 1).type = a /\ At(n + 2).type = b /\ At(n + 3).type = c
                /\ EndsLine(n + 4)
         /\ \A a, b, c, d, e \in TokenTypes :
              HasForm(n, <<a, b, c, d, e>>) <=>
                /\ At(n + 1).type = a /\ At(n + 2).type = b /\ At(n + 3).type = c
                /\ At(n + 4).type = d /\ At(n + 5).type = e
                /\ EndsLine(n + 6)
<1>1. n \in Nat BY DEF IsTokens
<1>2. HasForm(n, <<>>) <=> EndsLine(n + 1)
  <2>1. PICK f : f = <<>> OBVIOUS
  <2>2. f \in Seq(TokenTypes) /\ Len(f) = 0 /\ 1 .. 0 = {} BY <2>1
  <2>3. n + 0 + 1 = n + 1 BY <1>1
  <2>4. HasForm(n, f) <=> EndsLine(n + 1) BY <2>2, <2>3, FormSeen
  <2> QED BY <2>1, <2>4
<1>3. ASSUME NEW a \in TokenTypes
      PROVE  HasForm(n, <<a>>) <=>
          /\ At(n + 1).type = a
          /\ EndsLine(n + 2)
  <2>1. PICK f : f = <<a>> OBVIOUS
  <2>2. f \in Seq(TokenTypes) /\ Len(f) = 1 BY <2>1
  <2>3. f[1] = a BY <2>1
  <2>4. HasForm(n, f) <=> /\ \A i \in 1 .. Len(f) : At(n + i).type = f[i]
                          /\ EndsLine(n + Len(f) + 1)
        BY <2>2, FormSeen
  <2>5. n + Len(f) + 1 = n + 2 /\ 1 .. Len(f) = {1} BY <1>1, <2>2
  <2>6. (\A i \in 1 .. Len(f) : At(n + i).type = f[i]) <=>
          /\ At(n + 1).type = f[1]
        BY <2>5
  <2>7. HasForm(n, f) <=>
          /\ At(n + 1).type = a
          /\ EndsLine(n + 2)
        BY <2>3, <2>4, <2>5, <2>6
  <2> QED BY <2>1, <2>7, Zenon
<1>4. ASSUME NEW a \in TokenTypes, NEW b \in TokenTypes, NEW c \in TokenTypes
      PROVE  HasForm(n, <<a, b, c>>) <=>
          /\ At(n + 1).type = a /\ At(n + 2).type = b /\ At(n + 3).type = c
          /\ EndsLine(n + 4)
  <2>1. PICK f : f = <<a, b, c>> OBVIOUS
  <2>2. f \in Seq(TokenTypes) /\ Len(f) = 3 BY <2>1
  <2>3. f[1] = a /\ f[2] = b /\ f[3] = c BY <2>1
  <2>4. HasForm(n, f) <=> /\ \A i \in 1 .. Len(f) : At(n + i).type = f[i]
                          /\ EndsLine(n + Len(f) + 1)
        BY <2>2, FormSeen
  <2>5. n + Len(f) + 1 = n + 4 /\ 1 .. Len(f) = {1, 2, 3} BY <1>1, <2>2
  <2>6. (\A i \in 1 .. Len(f) : At(n + i).type = f[i]) <=>
          /\ At(n + 1).type = f[1] /\ At(n + 2).type = f[2] /\ At(n + 3).type = f[3]
        BY <2>5
  <2>7. HasForm(n, f) <=>
          /\ At(n + 1).type = a /\ At(n + 2).type = b /\ At(n + 3).type = c
          /\ EndsLine(n + 4)
        BY <2>3, <2>4, <2>5, <2>6
  <2> QED BY <2>1, <2>7, Zenon
<1>5. ASSUME NEW a \in TokenTypes, NEW b \in TokenTypes, NEW c \in TokenTypes,
             NEW d \in TokenTypes, NEW e \in TokenTypes
      PROVE  HasForm(n, <<a, b, c, d, e>>) <=>
          /\ At(n + 1).type = a /\ At(n + 2).type = b /\ At(n + 3).type = c
             /\ At(n + 4).type = d /\ At(n + 5).type = e
          /\ EndsLine(n + 6)
  <2>1. PICK f : f = <<a, b, c, d, e>> OBVIOUS
  <2>2. f \in Seq(TokenTypes) /\ Len(f) = 5 BY <2>1
  <2>3. f[1] = a /\ f[2] = b /\ f[3] = c /\ f[4] = d /\ f[5] = e BY <2>1
  <2>4. HasForm(n, f) <=> /\ \A i \in 1 .. Len(f) : At(n + i).type = f[i]
                          /\ EndsLine(n + Len(f) + 1)
        BY <2>2, FormSeen
  <2>5. n + Len(f) + 1 = n + 6 /\ 1 .. Len(f) = {1, 2, 3, 4, 5} BY <1>1, <2>2
  <2>6. (\A i \in 1 .. Len(f) : At(n + i).type = f[i]) <=>
          /\ At(n + 1).type = f[1] /\ At(n + 2).type = f[2] /\ At(n + 3).type = f[3]
             /\ At(n + 4).type = f[4] /\ At(n + 5).type = f[5]
        BY <2>5
  <2>7. HasForm(n, f) <=>
          /\ At(n + 1).type = a /\ At(n + 2).type = b /\ At(n + 3).type = c
             /\ At(n + 4).type = d /\ At(n + 5).type = e
          /\ EndsLine(n + 6)
        BY <2>3, <2>4, <2>5, <2>6
  <2> QED BY <2>1, <2>7, Zenon
<1> QED BY <1>2, <1>3, <1>4, <1>5

\* The forms of the five groups, written out.
LEMMA FormsWritten ==
  /\ \A form : form \in Forms(RVM_OP.RET) <=> form = <<>>
  /\ \A form : form \in Forms(RVM_OP.LOAD) <=>
       \E u \in Kinds : form = <<"REG", "COMMA", "LBRACKET", u, "RBRACKET">>
  /\ \A form : form \in Forms(RVM_OP.STORE) <=>
       \E t \in Kinds : form = <<"LBRACKET", t, "RBRACKET", "COMMA", "REG">>
  /\ \A op \in TwoOperand : \A form : form \in Forms(op) <=>
       form = <<"REG", "COMMA", "REG">> \/ form = <<"REG", "COMMA", "NUMBER">>
  /\ \A op \in Transfers : \A form : form \in Forms(op) <=>
       \E t \in Kinds :
         \/ form = <<t>>
         \/ \E u \in Kinds : \/ form = <<t, "COMMA", u>>
                            \/ form = <<t, "COMMA", "LBRACKET", u, "RBRACKET">>
<1>1. \A a : a \in Simple <=> \E t \in Kinds : a = <<t>> BY DEF Simple, Kinds
<1>2. \A m : m \in Memory <=> \E t \in Kinds : m = <<"LBRACKET", t, "RBRACKET">>
  <2>1. \A t \in Kinds : <<"LBRACKET">> \o <<t>> \o <<"RBRACKET">> = <<"LBRACKET", t, "RBRACKET">>
        BY JoinedForms
  <2>2. \A m : m \in Memory <=> \E s \in Simple : m = <<"LBRACKET">> \o s \o <<"RBRACKET">>
        BY DEF Memory
  <2>3. ASSUME NEW m \in Memory PROVE \E t \in Kinds : m = <<"LBRACKET", t, "RBRACKET">>
    <3>1. PICK s \in Simple : m = <<"LBRACKET">> \o s \o <<"RBRACKET">> BY <2>2
    <3>2. PICK t \in Kinds : s = <<t>> BY <1>1
    <3> QED BY <2>1, <3>1, <3>2, Zenon
  <2>4. ASSUME NEW t \in Kinds PROVE <<"LBRACKET", t, "RBRACKET">> \in Memory
    <3>1. <<t>> \in Simple BY <1>1, Zenon
    <3>2. <<"LBRACKET">> \o <<t>> \o <<"RBRACKET">> \in Memory BY <2>2, <3>1, Zenon
    <3> QED BY <2>1, <3>2, Zenon
  <2> QED BY <2>3, <2>4, Zenon
<1>3. \A form : form \in Forms(RVM_OP.RET) <=> form = <<>> BY Groups DEF Forms
<1>4. ASSUME NEW form
      PROVE  form \in Forms(RVM_OP.LOAD) <=>
               \E u \in Kinds : form = <<"REG", "COMMA", "LBRACKET", u, "RBRACKET">>
  <2>1. Forms(RVM_OP.LOAD) = LoadForms BY Groups DEF Forms
  <2>2. form \in LoadForms <=> \E m \in Memory : form = Into \o m BY DEF LoadForms
  <2>3. \A u \in Kinds : Into \o <<"LBRACKET", u, "RBRACKET">>
                           = <<"REG", "COMMA", "LBRACKET", u, "RBRACKET">>
        BY JoinedForms
  <2>4. (\E m \in Memory : form = Into \o m) <=>
          \E u \in Kinds : form = Into \o <<"LBRACKET", u, "RBRACKET">>
        BY <1>2, Zenon
  <2>5. (\E u \in Kinds : form = Into \o <<"LBRACKET", u, "RBRACKET">>) <=>
          \E u \in Kinds : form = <<"REG", "COMMA", "LBRACKET", u, "RBRACKET">>
        BY <2>3, Zenon
  <2> QED BY <2>1, <2>2, <2>4, <2>5, Zenon
<1>5. ASSUME NEW form
      PROVE  form \in Forms(RVM_OP.STORE) <=>
               \E t \in Kinds : form = <<"LBRACKET", t, "RBRACKET", "COMMA", "REG">>
  <2>1. Forms(RVM_OP.STORE) = StoreForms BY Groups DEF Forms
  <2>2. form \in StoreForms <=> \E m \in Memory : form = m \o <<"COMMA", "REG">>
        BY DEF StoreForms
  <2>3. \A t \in Kinds : <<"LBRACKET", t, "RBRACKET">> \o <<"COMMA", "REG">>
                           = <<"LBRACKET", t, "RBRACKET", "COMMA", "REG">>
        BY JoinedForms
  <2>4. (\E m \in Memory : form = m \o <<"COMMA", "REG">>) <=>
          \E t \in Kinds : form = <<"LBRACKET", t, "RBRACKET">> \o <<"COMMA", "REG">>
        BY <1>2, Zenon
  <2>5. (\E t \in Kinds : form = <<"LBRACKET", t, "RBRACKET">> \o <<"COMMA", "REG">>) <=>
          \E t \in Kinds : form = <<"LBRACKET", t, "RBRACKET", "COMMA", "REG">>
        BY <2>3, Zenon
  <2> QED BY <2>1, <2>2, <2>4, <2>5, Zenon
<1>6. ASSUME NEW op \in TwoOperand, NEW form
      PROVE  form \in Forms(op) <=>
               form = <<"REG", "COMMA", "REG">> \/ form = <<"REG", "COMMA", "NUMBER">>
  <2>1. Forms(op) = {Into \o <<"REG">>, Into \o <<"NUMBER">>} BY Groups DEF Forms
  <2>2. \A u \in Kinds : Into \o <<u>> = <<"REG", "COMMA", u>> BY JoinedForms
  <2>3. /\ Into \o <<"REG">> = <<"REG", "COMMA", "REG">>
        /\ Into \o <<"NUMBER">> = <<"REG", "COMMA", "NUMBER">>
        BY <2>2 DEF Kinds
  <2> QED BY <2>1, <2>3
<1>7. ASSUME NEW op \in Transfers, NEW form
      PROVE  form \in Forms(op) <=>
               \E t \in Kinds :
                 \/ form = <<t>>
                 \/ \E u \in Kinds : \/ form = <<t, "COMMA", u>>
                                    \/ form = <<t, "COMMA", "LBRACKET", u, "RBRACKET">>
  <2>1. Forms(op) = TransferForms BY Groups DEF Forms
  <2>2. form \in TransferForms <=>
          \/ form \in Simple
          \/ \E a \in Simple : \E b \in Simple \cup Memory : form = a \o <<"COMMA">> \o b
    <3> DEFINE Two == {a \o <<"COMMA">> \o b : a \in Simple, b \in Simple \cup Memory}
    <3>1. form \in Two =>
            \E a \in Simple : \E b \in Simple \cup Memory : form = a \o <<"COMMA">> \o b
          OBVIOUS
    <3>2. \A a \in Simple : \A b \in Simple \cup Memory : a \o <<"COMMA">> \o b \in Two
          OBVIOUS
    <3>3. TransferForms = Simple \cup Two BY DEF TransferForms
    <3> HIDE DEF Two
    <3> QED BY <3>1, <3>2, <3>3, Zenon
  <2>3. \A t, u \in Kinds : /\ <<t>> \o <<"COMMA">> \o <<u>> = <<t, "COMMA", u>>
                            /\ <<t>> \o <<"COMMA">> \o <<"LBRACKET", u, "RBRACKET">>
                                 = <<t, "COMMA", "LBRACKET", u, "RBRACKET">>
        BY JoinedForms
  <2>4. (\E a \in Simple : \E b \in Simple \cup Memory : form = a \o <<"COMMA">> \o b) <=>
          \E t \in Kinds : \E u \in Kinds :
            \/ form = <<t>> \o <<"COMMA">> \o <<u>>
            \/ form = <<t>> \o <<"COMMA">> \o <<"LBRACKET", u, "RBRACKET">>
    <3>1. ASSUME NEW a \in Simple, NEW b \in Simple \cup Memory, form = a \o <<"COMMA">> \o b
          PROVE  \E t \in Kinds : \E u \in Kinds :
                   \/ form = <<t>> \o <<"COMMA">> \o <<u>>
                   \/ form = <<t>> \o <<"COMMA">> \o <<"LBRACKET", u, "RBRACKET">>
      <4>1. PICK t \in Kinds : a = <<t>> BY <1>1
      <4>2. PICK u \in Kinds : b = <<u>> \/ b = <<"LBRACKET", u, "RBRACKET">>
            BY <1>1, <1>2, Zenon
      <4> QED BY <3>1, <4>1, <4>2, Zenon
    <3>2. ASSUME NEW t \in Kinds, NEW u \in Kinds
          PROVE  <<t>> \in Simple /\ <<u>> \in Simple \cup Memory
                 /\ <<"LBRACKET", u, "RBRACKET">> \in Simple \cup Memory
          BY <1>1, <1>2, Zenon
    <3> QED BY <3>1, <3>2, Zenon
  <2>5. (\E t \in Kinds : \E u \in Kinds :
            \/ form = <<t>> \o <<"COMMA">> \o <<u>>
            \/ form = <<t>> \o <<"COMMA">> \o <<"LBRACKET", u, "RBRACKET">>) <=>
          \E t \in Kinds : \E u \in Kinds :
            \/ form = <<t, "COMMA", u>>
            \/ form = <<t, "COMMA", "LBRACKET", u, "RBRACKET">>
        BY <2>3, Zenon
  <2> QED BY <1>1, <2>1, <2>2, <2>4, <2>5, Zenon
<1> QED BY <1>3, <1>4, <1>5, <1>6, <1>7, Zenon

\* The parser reads an instruction as far as the push if and only if its line
\* has one of the forms.
LEMMA LineLegal ==
  ASSUME IsTokens(tokens), NEW n, n \in 1 .. Len(tokens), tokens[n].type = "OPCODE"
  PROVE  (\E form \in Forms(tokens[n].value) : HasForm(n, form)) <=> parse_opcode(n)
<1> DEFINE op == tokens[n].value
<1>1. n \in Nat /\ n \in DOMAIN tokens /\ At(n) = tokens[n] BY AtText
<1>2. op \in 0 .. 15 BY <1>1 DEF IsTokens, IsToken
<1>3. At(n).value = op BY <1>1
<1> HIDE DEF op
<1>4. {"REG", "COMMA", "LBRACKET", "RBRACKET", "NUMBER"} \cup Kinds \subseteq TokenTypes
      BY DEF TokenTypes, Kinds
<1>5. \A k \in {1, 3} : InBrackets(n + k) <=>
        /\ At(n + k).type = "LBRACKET" /\ At(n + (k + 1)).type \in Kinds
        /\ At(n + (k + 2)).type = "RBRACKET"
  <2>1. DOMAIN MemType = Kinds BY DEF MemType, Kinds
  <2>2. \A k \in {1, 3} : n + k + 1 = n + (k + 1) /\ n + k + 2 = n + (k + 2) BY <1>1
  <2> QED BY <2>1, <2>2 DEF InBrackets
<1>6. /\ InBrackets(n + 1) <=> /\ At(n + 1).type = "LBRACKET" /\ At(n + 2).type \in Kinds
                               /\ At(n + 3).type = "RBRACKET"
      /\ InBrackets(n + 3) <=> /\ At(n + 3).type = "LBRACKET" /\ At(n + 4).type \in Kinds
                               /\ At(n + 5).type = "RBRACKET"
  <2>1. 1 + 1 = 2 /\ 1 + 2 = 3 /\ 3 + 1 = 4 /\ 3 + 2 = 5 OBVIOUS
  <2> QED BY <1>5, <2>1
<1>7. CASE op = RVM_OP.RET
  <2>1. (\E form \in Forms(op) : HasForm(n, form)) <=> HasForm(n, <<>>)
        BY <1>7, FormsWritten, Zenon
  <2>2. HasForm(n, <<>>) <=> EndsLine(n + 1) BY <1>4, TupleSeen
  <2>3. parse_opcode(n) <=> EndsLine(n + 1) BY <1>1, <1>3, <1>7, RetLine
  <2> QED BY <2>1, <2>2, <2>3 DEF op
<1>8. CASE op = RVM_OP.LOAD
  <2>1. (\E form \in Forms(op) : HasForm(n, form)) <=>
          \E u \in Kinds : HasForm(n, <<"REG", "COMMA", "LBRACKET", u, "RBRACKET">>)
    <3>1. \A form :
            form \in Forms(op) <=> \E u \in Kinds : form = <<"REG", "COMMA", "LBRACKET", u, "RBRACKET">>
          BY <1>8, FormsWritten, Zenon
    <3>2. ASSUME NEW form \in Forms(op), HasForm(n, form)
          PROVE  \E u \in Kinds : HasForm(n, <<"REG", "COMMA", "LBRACKET", u, "RBRACKET">>)
      <4>1. PICK u \in Kinds : form = <<"REG", "COMMA", "LBRACKET", u, "RBRACKET">> BY <3>1
      <4> QED BY <3>2, <4>1, Zenon
    <3>3. \A u \in Kinds : <<"REG", "COMMA", "LBRACKET", u, "RBRACKET">> \in Forms(op)
          BY <3>1, Zenon
    <3> QED BY <3>2, <3>3, Zenon
  <2>2. \A u \in Kinds : HasForm(n, <<"REG", "COMMA", "LBRACKET", u, "RBRACKET">>) <=>
          /\ At(n + 1).type = "REG" /\ At(n + 2).type = "COMMA" /\ At(n + 3).type = "LBRACKET"
          /\ At(n + 4).type = u /\ At(n + 5).type = "RBRACKET" /\ EndsLine(n + 6)
        BY <1>4, TupleSeen
  <2>3. parse_opcode(n) <=> /\ At(n + 1).type = "REG" /\ At(n + 2).type = "COMMA"
                            /\ InBrackets(n + 3) /\ EndsLine(n + 6)
        BY <1>1, <1>3, <1>8, LoadLine
  <2> QED BY <1>6, <2>1, <2>2, <2>3 DEF op
<1>9. CASE op = RVM_OP.STORE
  <2>1. (\E form \in Forms(op) : HasForm(n, form)) <=>
          \E t \in Kinds : HasForm(n, <<"LBRACKET", t, "RBRACKET", "COMMA", "REG">>)
    <3>1. \A form :
            form \in Forms(op) <=> \E t \in Kinds : form = <<"LBRACKET", t, "RBRACKET", "COMMA", "REG">>
          BY <1>9, FormsWritten, Zenon
    <3>2. ASSUME NEW form \in Forms(op), HasForm(n, form)
          PROVE  \E t \in Kinds : HasForm(n, <<"LBRACKET", t, "RBRACKET", "COMMA", "REG">>)
      <4>1. PICK t \in Kinds : form = <<"LBRACKET", t, "RBRACKET", "COMMA", "REG">> BY <3>1
      <4> QED BY <3>2, <4>1, Zenon
    <3>3. \A t \in Kinds : <<"LBRACKET", t, "RBRACKET", "COMMA", "REG">> \in Forms(op)
          BY <3>1, Zenon
    <3> QED BY <3>2, <3>3, Zenon
  <2>2. \A t \in Kinds : HasForm(n, <<"LBRACKET", t, "RBRACKET", "COMMA", "REG">>) <=>
          /\ At(n + 1).type = "LBRACKET" /\ At(n + 2).type = t /\ At(n + 3).type = "RBRACKET"
          /\ At(n + 4).type = "COMMA" /\ At(n + 5).type = "REG" /\ EndsLine(n + 6)
        BY <1>4, TupleSeen
  <2>3. parse_opcode(n) <=> /\ InBrackets(n + 1) /\ At(n + 4).type = "COMMA"
                            /\ At(n + 5).type = "REG" /\ EndsLine(n + 6)
        BY <1>1, <1>3, <1>9, StoreLine
  <2> QED BY <1>6, <2>1, <2>2, <2>3 DEF op
<1>10. CASE op \in TwoOperand
  <2>1. (\E form \in Forms(op) : HasForm(n, form)) <=>
          HasForm(n, <<"REG", "COMMA", "REG">>) \/ HasForm(n, <<"REG", "COMMA", "NUMBER">>)
        BY <1>10, FormsWritten, Zenon
  <2>2. \A u \in {"REG", "NUMBER"} : HasForm(n, <<"REG", "COMMA", u>>) <=>
          /\ At(n + 1).type = "REG" /\ At(n + 2).type = "COMMA" /\ At(n + 3).type = u
          /\ EndsLine(n + 4)
        BY <1>4, TupleSeen
  <2>3. parse_opcode(n) <=> /\ At(n + 1).type = "REG" /\ At(n + 2).type = "COMMA"
                            /\ At(n + 3).type \in {"REG", "NUMBER"} /\ EndsLine(n + 4)
        BY <1>1, <1>3, <1>10, TwoOperandLine
  <2> QED BY <2>1, <2>2, <2>3 DEF op
<1>11. CASE op \in Transfers
  <2>1. (\E form \in Forms(op) : HasForm(n, form)) <=>
          \E t \in Kinds :
            \/ HasForm(n, <<t>>)
            \/ \E u \in Kinds : \/ HasForm(n, <<t, "COMMA", u>>)
                               \/ HasForm(n, <<t, "COMMA", "LBRACKET", u, "RBRACKET">>)
    <3>1. \A form : form \in Forms(op) <=>
            \E t \in Kinds :
              \/ form = <<t>>
              \/ \E u \in Kinds : \/ form = <<t, "COMMA", u>>
                                 \/ form = <<t, "COMMA", "LBRACKET", u, "RBRACKET">>
          BY <1>11, FormsWritten, Zenon
    <3>2. ASSUME NEW form \in Forms(op), HasForm(n, form)
          PROVE  \E t \in Kinds :
                   \/ HasForm(n, <<t>>)
                   \/ \E u \in Kinds : \/ HasForm(n, <<t, "COMMA", u>>)
                                      \/ HasForm(n, <<t, "COMMA", "LBRACKET", u, "RBRACKET">>)
      <4>1. PICK t \in Kinds :
              \/ form = <<t>>
              \/ \E u \in Kinds : \/ form = <<t, "COMMA", u>>
                                 \/ form = <<t, "COMMA", "LBRACKET", u, "RBRACKET">>
            BY <3>1, Zenon
      <4> QED BY <3>2, <4>1, Zenon
    <3>3. ASSUME NEW t \in Kinds
          PROVE  /\ <<t>> \in Forms(op)
                 /\ \A u \in Kinds : /\ <<t, "COMMA", u>> \in Forms(op)
                                     /\ <<t, "COMMA", "LBRACKET", u, "RBRACKET">> \in Forms(op)
          BY <3>1, Zenon
    <3> QED BY <3>2, <3>3, Zenon
  <2>2. ASSUME NEW t, t \in Kinds, NEW u, u \in Kinds
        PROVE  /\ HasForm(n, <<t>>) <=> At(n + 1).type = t /\ EndsLine(n + 2)
               /\ HasForm(n, <<t, "COMMA", u>>) <=>
                    /\ At(n + 1).type = t /\ At(n + 2).type = "COMMA" /\ At(n + 3).type = u
                    /\ EndsLine(n + 4)
               /\ HasForm(n, <<t, "COMMA", "LBRACKET", u, "RBRACKET">>) <=>
                    /\ At(n + 1).type = t /\ At(n + 2).type = "COMMA"
                    /\ At(n + 3).type = "LBRACKET" /\ At(n + 4).type = u
                    /\ At(n + 5).type = "RBRACKET" /\ EndsLine(n + 6)
    <3>1. t \in TokenTypes /\ u \in TokenTypes /\ "COMMA" \in TokenTypes
          /\ "LBRACKET" \in TokenTypes /\ "RBRACKET" \in TokenTypes
          BY <1>4, <2>2
    <3>2. HasForm(n, <<t>>) <=> At(n + 1).type = t /\ EndsLine(n + 2) BY <3>1, TupleSeen
    <3>3. HasForm(n, <<t, "COMMA", u>>) <=>
            /\ At(n + 1).type = t /\ At(n + 2).type = "COMMA" /\ At(n + 3).type = u
            /\ EndsLine(n + 4)
          BY <3>1, TupleSeen
    <3>4. HasForm(n, <<t, "COMMA", "LBRACKET", u, "RBRACKET">>) <=>
            /\ At(n + 1).type = t /\ At(n + 2).type = "COMMA"
            /\ At(n + 3).type = "LBRACKET" /\ At(n + 4).type = u
            /\ At(n + 5).type = "RBRACKET" /\ EndsLine(n + 6)
      <4>1. \A a, b, c, d, e \in TokenTypes :
              HasForm(n, <<a, b, c, d, e>>) <=>
                /\ At(n + 1).type = a /\ At(n + 2).type = b /\ At(n + 3).type = c
                /\ At(n + 4).type = d /\ At(n + 5).type = e
                /\ EndsLine(n + 6)
            BY TupleSeen
      <4>2. \A c, d, e \in TokenTypes :
              HasForm(n, <<t, "COMMA", c, d, e>>) <=>
                /\ At(n + 1).type = t /\ At(n + 2).type = "COMMA" /\ At(n + 3).type = c
                /\ At(n + 4).type = d /\ At(n + 5).type = e
                /\ EndsLine(n + 6)
            BY <3>1, <4>1, Zenon
      <4> QED BY <3>1, <4>2, Zenon
    <3> QED BY <3>2, <3>3, <3>4, Zenon
  <2>3. parse_opcode(n) <=>
          /\ At(n + 1).type \in Kinds
          /\ \/ EndsLine(n + 2)
             \/ /\ At(n + 2).type = "COMMA"
                /\ \/ At(n + 3).type \in Kinds /\ EndsLine(n + 4)
                   \/ InBrackets(n + 3) /\ EndsLine(n + 6)
        BY <1>1, <1>3, <1>11, TransferLine
  <2>4. ASSUME \E form \in Forms(op) : HasForm(n, form) PROVE parse_opcode(n)
    <3>1. PICK t \in Kinds :
            \/ HasForm(n, <<t>>)
            \/ \E u \in Kinds : \/ HasForm(n, <<t, "COMMA", u>>)
                               \/ HasForm(n, <<t, "COMMA", "LBRACKET", u, "RBRACKET">>)
          BY <2>1, <2>4, Zenon
    <3>2. CASE HasForm(n, <<t>>) BY <2>2, <2>3, <3>2
    <3>3. ASSUME NEW u, u \in Kinds,
                 \/ HasForm(n, <<t, "COMMA", u>>)
                 \/ HasForm(n, <<t, "COMMA", "LBRACKET", u, "RBRACKET">>)
          PROVE  parse_opcode(n)
      <4>1. CASE HasForm(n, <<t, "COMMA", u>>)
        <5>1. /\ At(n + 1).type = t /\ At(n + 2).type = "COMMA" /\ At(n + 3).type = u
              /\ EndsLine(n + 4)
              BY <2>2, <3>3, <4>1
        <5> QED BY <2>3, <3>3, <5>1
      <4>2. CASE HasForm(n, <<t, "COMMA", "LBRACKET", u, "RBRACKET">>)
        <5>1. /\ At(n + 1).type = t /\ At(n + 2).type = "COMMA"
              /\ At(n + 3).type = "LBRACKET" /\ At(n + 4).type = u
              /\ At(n + 5).type = "RBRACKET" /\ EndsLine(n + 6)
              BY <2>2, <3>3, <4>2
        <5>2. InBrackets(n + 3) BY <1>6, <3>3, <5>1
        <5> QED BY <2>3, <5>1, <5>2
      <4> QED BY <3>3, <4>1, <4>2
    <3> QED BY <3>1, <3>2, <3>3
  <2>5. ASSUME parse_opcode(n) PROVE \E form \in Forms(op) : HasForm(n, form)
    <3>1. PICK t \in Kinds : At(n + 1).type = t BY <2>3, <2>5
    <3>2. CASE EndsLine(n + 2)
      <4>1. HasForm(n, <<t>>) BY <2>2, <3>1, <3>2
      <4> QED BY <2>1, <4>1, Zenon
    <3>3. CASE ~EndsLine(n + 2)
      <4>1. /\ At(n + 2).type = "COMMA"
            /\ \/ At(n + 3).type \in Kinds /\ EndsLine(n + 4)
               \/ InBrackets(n + 3) /\ EndsLine(n + 6)
            BY <2>3, <2>5, <3>3
      <4>2. PICK u \in Kinds : \/ HasForm(n, <<t, "COMMA", u>>)
                               \/ HasForm(n, <<t, "COMMA", "LBRACKET", u, "RBRACKET">>)
        <5>1. CASE At(n + 3).type \in Kinds /\ EndsLine(n + 4)
          <6>1. PICK u \in Kinds : At(n + 3).type = u BY <5>1
          <6>2. HasForm(n, <<t, "COMMA", u>>) BY <2>2, <3>1, <4>1, <5>1, <6>1
          <6> QED BY <6>2, Zenon
        <5>2. CASE InBrackets(n + 3) /\ EndsLine(n + 6)
          <6>1. PICK u \in Kinds : At(n + 4).type = u BY <1>6, <5>2
          <6>2. HasForm(n, <<t, "COMMA", "LBRACKET", u, "RBRACKET">>)
                BY <1>6, <2>2, <3>1, <4>1, <5>2, <6>1
          <6> QED BY <6>2, Zenon
        <5> QED BY <4>1, <5>1, <5>2, Zenon
      <4> QED BY <2>1, <4>2, Zenon
    <3> QED BY <3>2, <3>3
  <2> QED BY <2>4, <2>5 DEF op
<1> QED BY <1>2, <1>7, <1>8, <1>9, <1>10, <1>11, Groups

-----------------------------------------------------------------------------
(***************************************************************************)
(* The texts that are accepted.  When the parser holds a token, all lines  *)
(* that start before it are lines of a program, the labels before it have  *)
(* addresses of 16 bits, and the token is the first of a line or the end   *)
(* of one: an instruction leaves the end of its line to the loop.          *)
(***************************************************************************)
LineOK(n) ==
  \/ EndsLine(n)
  \/ At(n).type = "IDENT" /\ At(n + 1).type = "COLON"
  \/ At(n).type = "OPCODE" /\ \E form \in Forms(tokens[n].value) : HasForm(n, form)

LinesOK(n) == \A m \in LineStarts : m < n => LineOK(m)

LabelsLow(n) == \A m \in Colons : m < n => OpcodesBefore(m) <= UINT16_MAX

Legal == IsProgram /\ \A m \in Colons : OpcodesBefore(m) <= UINT16_MAX

Accepted ==
  /\ phase \in {"parsing", "parsed"} => LinesOK(held) /\ LabelsLow(held)
  /\ phase = "parsing" => held \in LineStarts \/ EndsLine(held)
  /\ phase = "rejected" => ~Legal

\* A program is a text of such lines.
LEMMA ProgramSeen ==
  ASSUME IsTokens(tokens)
  PROVE  IsProgram <=> \A n \in LineStarts : LineOK(n)
<1>1. \A n \in LineStarts : n \in 1 .. Len(tokens) BY DEF LineStarts, IsTokens
<1>2. ASSUME NEW n \in LineStarts
      PROVE  LineOK(n) <=>
               LET types == Types(tokens)
               IN  \/ types[n] \in {"NEWLINE", "EOF"}
                   \/ types[n] = "IDENT" /\ types[n + 1] = "COLON"
                   \/ /\ types[n] = "OPCODE"
                      /\ \E form \in Forms(tokens[n].value) :
                           LET end == n + Len(form) + 1
                           IN  /\ end \in DOMAIN tokens
                               /\ SubSeq(types, n + 1, end - 1) = form
                               /\ types[end] \in {"NEWLINE", "EOF"}
  <2>1. n \in 1 .. Len(tokens) /\ n \in DOMAIN tokens /\ At(n) = tokens[n] BY <1>1, AtText
  <2>2. \A k \in DOMAIN tokens : Types(tokens)[k] = tokens[k].type BY DEF Types
  <2>3. Types(tokens)[n] = At(n).type BY <2>1, <2>2
  <2>4. At(n).type = "IDENT" => Types(tokens)[n + 1] = At(n + 1).type
    <3>1. At(n).type = "IDENT" => n + 1 \in 1 .. Len(tokens) BY <2>1, Ahead
    <3>2. n + 1 \in 1 .. Len(tokens) => /\ n + 1 \in DOMAIN tokens
                                        /\ At(n + 1) = tokens[n + 1]
          BY AtText
    <3> QED BY <2>2, <3>1, <3>2
  <2>5. \A form : HasForm(n, form) <=>
          LET end == n + Len(form) + 1
          IN  /\ end \in DOMAIN tokens
              /\ SubSeq(Types(tokens), n + 1, end - 1) = form
              /\ Types(tokens)[end] \in {"NEWLINE", "EOF"}
        BY DEF HasForm
  <2> QED BY <2>3, <2>4, <2>5, Zenon DEF LineOK, EndsLine
<1> QED BY <1>2, Zenon DEF IsProgram

\* Whether a text is accepted depends on the tokens only.
LEMMA SameGrammar ==
  ASSUME tokens' = tokens
  PROVE  /\ \A n : EndsLine(n)' <=> EndsLine(n)
         /\ \A n : LinesOK(n)' <=> LinesOK(n)
         /\ \A n : LabelsLow(n)' <=> LabelsLow(n)
         /\ LineStarts' = LineStarts
         /\ Legal' <=> Legal
<1>1. \A n : At(n)' = At(n) /\ (EndsLine(n)' <=> EndsLine(n)) BY DEF At, EndsLine
<1>2. LineStarts' = LineStarts /\ Colons' = Colons BY DEF LineStarts, Colons
<1>3. \A n : OpcodesBefore(n)' = OpcodesBefore(n) BY DEF OpcodesBefore
<1>4. \A n, form : HasForm(n, form)' <=> HasForm(n, form) BY DEF HasForm
<1>5. ASSUME NEW n PROVE LineOK(n)' <=> LineOK(n) BY <1>1, <1>4 DEF LineOK
<1>6. ASSUME NEW n PROVE LinesOK(n)' <=> LinesOK(n) BY <1>2, <1>5 DEF LinesOK
<1>7. ASSUME NEW n PROVE LabelsLow(n)' <=> LabelsLow(n) BY <1>2, <1>3 DEF LabelsLow
<1>8. IsProgram' <=> IsProgram BY <1>2 DEF IsProgram
<1>9. Legal' <=> Legal BY <1>2, <1>3, <1>8 DEF Legal
<1> QED BY <1>1, <1>2, <1>6, <1>7, <1>9

\* Tokens behind the first one of a statement, where no line starts.
LEMMA InsideLine ==
  ASSUME IsTokens(tokens), NEW n, n \in 1 .. Len(tokens), NEW e, e \in n + 1 .. Len(tokens),
         LinesOK(n), LineOK(n), LabelsLow(n),
         \A k \in n .. e - 2 : tokens[k].type \notin {"NEWLINE", "COLON"},
         \A k \in n .. e - 1 : tokens[k].type = "COLON" => OpcodesBefore(k) <= UINT16_MAX
  PROVE  LinesOK(e) /\ LabelsLow(e)
<1>1. Len(tokens) \in Nat /\ DOMAIN tokens = 1 .. Len(tokens) BY DEF IsTokens
<1>2. ASSUME NEW m \in LineStarts, m < e PROVE LineOK(m)
  <2>1. m \in 1 .. Len(tokens) BY <1>1 DEF LineStarts
  <2>2. CASE m < n BY <2>2 DEF LinesOK
  <2>3. CASE m = n BY <2>3
  <2>4. CASE m > n
    <3>1. m - 1 \in n .. e - 2 /\ m # 1 BY <1>1, <1>2, <2>1, <2>4
    <3> QED BY <3>1 DEF LineStarts
  <2> QED BY <1>1, <2>1, <2>2, <2>3, <2>4
<1>3. ASSUME NEW m \in Colons, m < e PROVE OpcodesBefore(m) <= UINT16_MAX
  <2>1. m \in 1 .. Len(tokens) /\ tokens[m].type = "COLON" BY <1>1 DEF Colons
  <2>2. CASE m < n BY <2>2 DEF LabelsLow
  <2>3. CASE ~(m < n)
    <3>1. m \in n .. e - 1 BY <1>1, <1>3, <2>1, <2>3
    <3> QED BY <2>1, <3>1
  <2> QED BY <2>2, <2>3
<1> QED BY <1>2, <1>3 DEF LinesOK, LabelsLow

\* Every turn of the loop reads lines of a program or finds that there is none.
LEMMA AcceptedStep == PInv /\ Built /\ Accepted /\ [Next]_vars => Accepted'
<1> SUFFICES ASSUME PInv, Built, Accepted, [Next]_vars PROVE Accepted' OBVIOUS
<1>1. IsTokens(tokens) /\ Len(tokens) \in Nat /\ DOMAIN tokens = 1 .. Len(tokens)
  <2>1. tokens = Tokens(src) /\ src \in Texts BY DEF PInv
  <2> QED BY <2>1, TextsHaveTokens DEF IsTokens
<1>2. ASSUME phase = "parsing"
      PROVE  /\ held \in 1 .. Len(tokens) /\ held \in Nat /\ At(held) = tokens[held]
             /\ Len(program.instrs) = OpcodesBefore(held)
             /\ LinesOK(held) /\ LabelsLow(held)
             /\ held \in LineStarts \/ EndsLine(held)
  <2>1. held \in 1 .. Len(tokens) /\ Len(program.instrs) = OpcodesBefore(held)
        BY <1>2 DEF Built, InstrsBuilt
  <2> QED BY <1>1, <1>2, <2>1, AtText DEF Accepted
<1>3. ASSUME tokens' = tokens, phase' = "parsing", LinesOK(held'), LabelsLow(held'),
             held' \in LineStarts \/ EndsLine(held')
      PROVE  Accepted'
  <2>1. LinesOK(held)' /\ LabelsLow(held)' /\ (held \in LineStarts \/ EndsLine(held))'
        BY <1>3, SameGrammar
  <2> QED BY <1>3, <2>1 DEF Accepted
<1>4. ASSUME phase' \notin {"parsing", "parsed", "rejected"} PROVE Accepted'
      BY <1>4 DEF Accepted
<1>5. CASE Usage BY <1>4, <1>5 DEF Usage
<1>6. CASE SetupFails BY <1>4, <1>6 DEF SetupFails
<1>7. CASE PushFails BY <1>4, <1>7 DEF PushFails
<1>8. CASE UNCHANGED vars
  <2>1. tokens' = tokens /\ held' = held /\ phase' = phase BY <1>8 DEF vars
  <2>2. /\ LinesOK(held)' <=> LinesOK(held)
        /\ LabelsLow(held)' <=> LabelsLow(held)
        /\ (held \in LineStarts)' <=> held \in LineStarts
        /\ EndsLine(held)' <=> EndsLine(held)
        /\ Legal' <=> Legal
        BY <2>1, SameGrammar
  <2> QED BY <2>1, <2>2 DEF Accepted
<1>9. CASE Returned BY <1>8, <1>9 DEF Returned
<1>10. CASE Start
  <2>1. phase' = "parsing" /\ held' = 1 /\ tokens' = tokens BY <1>10 DEF Start
  <2>2. 1 \in LineStarts BY <1>1 DEF LineStarts, IsTokens
  <2>3. \A m \in 1 .. Len(tokens) : ~(m < 1) BY <1>1
  <2>4. LinesOK(1) /\ LabelsLow(1) BY <1>1, <2>3 DEF LinesOK, LabelsLow, LineStarts, Colons
  <2> QED BY <1>3, <2>1, <2>2, <2>4
<1>11. CASE NewLine
  <2>1. /\ phase = "parsing" /\ At(held).type = "NEWLINE"
        /\ held' = held + 1 /\ tokens' = tokens /\ phase' = phase
        BY <1>11 DEF NewLine, Holding
  <2>2. held + 1 \in 1 .. Len(tokens) BY <1>1, <1>2, <2>1, Ahead
  <2>3. tokens[held].type = "NEWLINE" BY <1>2, <2>1
  <2>4. LinesOK(held + 1) /\ LabelsLow(held + 1)
    <3>1. held + 1 \in held + 1 .. Len(tokens) BY <1>2, <2>1, <2>2
    <3>2. \A k \in held .. held + 1 - 2 : FALSE BY <1>2, <2>1
    <3>3. \A k \in held .. held + 1 - 1 : k = held BY <1>2, <2>1
    <3>4. LineOK(held) BY <2>1 DEF LineOK, EndsLine
    <3> QED BY <1>1, <1>2, <2>1, <2>3, <3>1, <3>2, <3>3, <3>4, InsideLine
  <2>5. held + 1 \in LineStarts
    <3>1. PICK n : n = held + 1 OBVIOUS
    <3>2. n \in DOMAIN tokens /\ n - 1 = held BY <1>1, <1>2, <2>1, <2>2, <3>1
    <3>3. tokens[n - 1].type = "NEWLINE" BY <2>3, <3>2
    <3>4. n \in LineStarts BY <3>2, <3>3 DEF LineStarts
    <3> QED BY <3>1, <3>4
  <2> QED BY <1>3, <2>1, <2>4, <2>5
<1>12. CASE EndOfText
  <2>1. phase = "parsing" /\ held' = held /\ tokens' = tokens /\ phase' = "parsed"
        BY <1>12 DEF EndOfText, Holding
  <2>2. LinesOK(held)' /\ LabelsLow(held)' BY <1>2, <2>1, SameGrammar
  <2> QED BY <2>1, <2>2 DEF Accepted
<1>13. CASE Instruction
  <2> DEFINE e == Lookahead(held)
  <2>1. /\ phase = "parsing" /\ At(held).type = "OPCODE" /\ parse_opcode(held)
        /\ held' = e /\ tokens' = tokens /\ phase' = phase
        BY <1>13 DEF Instruction, Holding
  <2>2. tokens[held].type = "OPCODE" BY <1>2, <2>1
  <2>3. /\ e \in held + 1 .. Len(tokens) /\ tokens[e].type \in {"NEWLINE", "EOF"}
        /\ \A k \in held + 1 .. e - 1 :
             tokens[k].type \notin {"OPCODE", "COLON", "NEWLINE", "EOF"}
        BY <1>1, <1>2, <2>1, <2>2, InstructionTokens
  <2> HIDE DEF e
  <2>4. \A k \in held .. e - 1 : tokens[k].type \notin {"NEWLINE", "COLON"}
    <3>1. \A k \in held .. e - 1 : k = held \/ k \in held + 1 .. e - 1
          BY <1>2, <2>1, <2>3
    <3> QED BY <2>2, <2>3, <3>1
  <2>5. \A k \in held .. e - 2 : k \in held .. e - 1 BY <1>1, <1>2, <2>1, <2>3
  <2>6. LineOK(held) BY <1>1, <1>2, <2>1, <2>2, LineLegal DEF LineOK
  <2>7. LinesOK(e) /\ LabelsLow(e)
        BY <1>1, <1>2, <2>1, <2>3, <2>4, <2>5, <2>6, InsideLine
  <2>8. EndsLine(e)
    <3>1. e \in 1 .. Len(tokens) BY <1>1, <1>2, <2>1, <2>3
    <3>2. At(e) = tokens[e] BY <1>1, <3>1, AtText
    <3> QED BY <2>3, <3>2 DEF EndsLine
  <2> QED BY <1>3, <2>1, <2>7, <2>8
<1>14. ASSUME AtLabel
       PROVE  /\ phase = "parsing" /\ tokens[held].type = "IDENT"
              /\ held + 1 \in 1 .. Len(tokens) /\ tokens[held + 1].type = "COLON"
              /\ held + 2 \in 1 .. Len(tokens)
              /\ OpcodesBefore(held + 1) = Len(program.instrs)
  <2>1. phase = "parsing" /\ At(held).type = "IDENT" /\ At(held + 1).type = "COLON"
        BY <1>14 DEF AtLabel, Holding
  <2>2. tokens[held].type = "IDENT" /\ held \in Nat /\ held \in 1 .. Len(tokens)
        BY <1>2, <2>1
  <2>3. held + 1 \in 1 .. Len(tokens) BY <1>1, <2>1, <2>2, Ahead
  <2>4. At(held + 1) = tokens[held + 1] BY <1>1, <2>3, AtText
  <2>5. held + 1 + 1 \in 1 .. Len(tokens)
    <3>1. At(held + 1).type # "EOF" BY <2>1
    <3> QED BY <1>1, <2>3, <3>1, Ahead
  <2>6. held + 1 + 1 = held + 2 BY <2>2
  <2>7. OpcodesBefore(held + 1) = OpcodesBefore(held)
    <3>1. \A k \in held .. held + 1 - 1 : k = held BY <2>2
    <3>2. \A k \in held .. held + 1 - 1 : tokens[k].type # "OPCODE" BY <2>2, <3>1
    <3>3. held \in Nat \ {0} /\ held + 1 \in Nat /\ held <= held + 1 BY <2>2
    <3> QED BY <3>2, <3>3, NoOpcodes
  <2> QED BY <1>2, <2>1, <2>2, <2>3, <2>4, <2>5, <2>6, <2>7
<1>15. CASE Label
  <2>1. AtLabel /\ ~AddressTooLarge /\ held' = held + 2 /\ tokens' = tokens /\ phase' = phase
        BY <1>15 DEF Label
  <2>2. /\ phase = "parsing" /\ tokens[held].type = "IDENT"
        /\ tokens[held + 1].type = "COLON" /\ held + 2 \in 1 .. Len(tokens)
        BY <1>14, <2>1
  <2>3. held \in Nat /\ held \in 1 .. Len(tokens) BY <1>2, <2>2
  <2>4. held + 2 \in held + 1 .. Len(tokens) BY <2>2, <2>3
  <2>5. \A k \in held .. held + 2 - 2 : tokens[k].type \notin {"NEWLINE", "COLON"}
    <3>1. \A k \in held .. held + 2 - 2 : k = held BY <2>3
    <3> QED BY <2>2, <3>1
  <2>6. OpcodesBefore(held + 1) <= UINT16_MAX
    <3>1. OpcodesBefore(held + 1) = Len(program.instrs) BY <1>14, <2>1
    <3>2. PICK a \in Nat : a = OpcodesBefore(held + 1)
      <4>1. held + 1 \in Nat BY <2>3
      <4> QED BY <4>1, Counts
    <3>3. UINT16_MAX \in Nat BY AddressAssumption DEF Word
    <3> QED BY <2>1, <3>1, <3>2, <3>3 DEF AddressTooLarge
  <2>7. \A k \in held .. held + 2 - 1 : tokens[k].type = "COLON" => OpcodesBefore(k) <= UINT16_MAX
    <3>1. \A k \in held .. held + 2 - 1 : k = held \/ k = held + 1 BY <2>3
    <3> QED BY <2>2, <2>6, <3>1
  <2>8. LineOK(held)
    <3>1. At(held).type = "IDENT" /\ At(held + 1).type = "COLON" BY <2>1 DEF AtLabel, Holding
    <3> QED BY <3>1 DEF LineOK
  <2>9. LinesOK(held + 2) /\ LabelsLow(held + 2)
        BY <1>1, <1>2, <2>2, <2>3, <2>4, <2>5, <2>7, <2>8, InsideLine
  <2>10. held + 2 \in LineStarts
    <3>1. PICK n : n = held + 2 OBVIOUS
    <3>2. n \in DOMAIN tokens /\ n > 2 /\ n - 1 = held + 1 /\ n - 2 = held
          BY <1>1, <2>2, <2>3, <3>1
    <3>3. tokens[n - 1].type = "COLON" /\ tokens[n - 2].type = "IDENT" BY <2>2, <3>2
    <3>4. n \in LineStarts BY <3>2, <3>3 DEF LineStarts
    <3> QED BY <3>1, <3>4
  <2> QED BY <1>3, <2>1, <2>2, <2>9, <2>10
<1>16. CASE Reject
  <2>1. /\ Unexpected \/ LabelTooFar \/ BadInstruction
        /\ phase' = "rejected" /\ tokens' = tokens
        BY <1>16 DEF Reject
  <2>2. CASE Unexpected
    <3>1. /\ phase = "parsing" /\ At(held).type \notin {"OPCODE", "NEWLINE", "EOF"} /\ ~AtLabel
          BY <2>2 DEF Unexpected
    <3>2. held \in LineStarts BY <1>2, <3>1 DEF EndsLine
    <3>3. ~LineOK(held) BY <3>1 DEF LineOK, EndsLine, AtLabel, Holding
    <3> QED BY <1>1, <2>1, <3>2, <3>3, ProgramSeen, SameGrammar DEF Accepted, Legal
  <2>3. CASE LabelTooFar
    <3>1. AtLabel /\ Len(program.instrs) > UINT16_MAX
          BY <2>3 DEF LabelTooFar, AddressTooLarge
    <3>2. /\ OpcodesBefore(held + 1) > UINT16_MAX /\ held + 1 \in Colons
          BY <1>1, <1>14, <3>1 DEF Colons
    <3>3. PICK a \in Nat : a = OpcodesBefore(held + 1)
      <4>1. held + 1 \in Nat BY <1>1, <1>14, <3>1
      <4> QED BY <4>1, Counts
    <3>4. ~(OpcodesBefore(held + 1) <= UINT16_MAX)
      <4>1. UINT16_MAX \in Nat BY AddressAssumption DEF Word
      <4> QED BY <3>2, <3>3, <4>1
    <3>5. ~Legal BY <3>2, <3>4 DEF Legal
    <3> QED BY <2>1, <3>5, SameGrammar DEF Accepted
  <2>4. CASE BadInstruction
    <3>1. phase = "parsing" /\ At(held).type = "OPCODE" /\ ~parse_opcode(held)
          BY <2>4 DEF BadInstruction, Holding
    <3>2. held \in LineStarts BY <1>2, <3>1 DEF EndsLine
    <3>3. tokens[held].type = "OPCODE" /\ held \in 1 .. Len(tokens) BY <1>2, <3>1
    <3>4. ~LineOK(held) BY <1>1, <3>1, <3>3, LineLegal DEF LineOK, EndsLine
    <3> QED BY <1>1, <2>1, <3>2, <3>4, ProgramSeen, SameGrammar DEF Accepted, Legal
  <2> QED BY <2>1, <2>2, <2>3, <2>4
<1> QED BY <1>5, <1>6, <1>7, <1>8, <1>9, <1>10, <1>11, <1>12, <1>13, <1>15, <1>16
        DEF Next, FrontEnd

\* rsm_parser_parse returns 0 for the texts whose lines all have the form of
\* their operation and whose labels have addresses of 16 bits, and -1 for all
\* others: the checks that are spread over the loop, the reading of operands,
\* the check of types and the check of the end of the line leave no gap and
\* refuse nothing they should read.
THEOREM ParserAcceptsTheGrammar == Spec => []AcceptsTheGrammar
<1>1. Init => Accepted BY DEF Init, Accepted
<1>2. ASSUME PInv, Built, Accepted PROVE AcceptsTheGrammar
  <2>1. IsTokens(tokens) BY <1>2, TextsHaveTokens DEF PInv
  <2>2. ASSUME phase = "parsed" PROVE Legal
    <3>1. held = Len(tokens) /\ LinesOK(held) /\ LabelsLow(held)
          BY <1>2, <2>2 DEF Built, Accepted
    <3>2. /\ Len(tokens) \in Nat /\ DOMAIN tokens = 1 .. Len(tokens)
          /\ Len(tokens) \in 1 .. Len(tokens) /\ tokens[Len(tokens)].type = "EOF"
          BY <2>1 DEF IsTokens
    <3>3. LineOK(Len(tokens)) BY <2>1, <3>2, AtText DEF LineOK, EndsLine
    <3>4. ASSUME NEW n \in LineStarts PROVE LineOK(n)
      <4>1. n \in 1 .. Len(tokens) BY <3>2 DEF LineStarts
      <4>2. n < Len(tokens) \/ n = Len(tokens) BY <3>2, <4>1
      <4> QED BY <3>1, <3>3, <4>2 DEF LinesOK
    <3>5. ASSUME NEW n \in Colons PROVE OpcodesBefore(n) <= UINT16_MAX
      <4>1. n \in 1 .. Len(tokens) /\ tokens[n].type = "COLON" BY <3>2 DEF Colons
      <4>2. n # Len(tokens) BY <3>2, <4>1
      <4>3. PICK last \in Nat : last = Len(tokens) BY <3>2
      <4>4. n < last BY <4>1, <4>2, <4>3
      <4> QED BY <3>1, <4>3, <4>4 DEF LabelsLow
    <3> QED BY <2>1, <3>4, <3>5, ProgramSeen DEF Legal
  <2>3. phase = "rejected" => ~Legal BY <1>2 DEF Accepted
  <2> QED BY <2>2, <2>3 DEF AcceptsTheGrammar, Legal
<1> QED BY <1>1, <1>2, AcceptedStep, ParserInvariant, BuiltInvariant, PTL DEF Spec

-----------------------------------------------------------------------------
(***************************************************************************)
(* Words and numbers in accepted texts.  The lexer may end a number in the *)
(* middle of a word, and then returns the rest as the next token.  So it   *)
(* has to be shown that no rule of the parser reads a number and then such *)
(* a token: every number that has been read is followed by a punctuation   *)
(* mark or by the end of its line.                                         *)
(***************************************************************************)
Stops == {"COMMA", "RBRACKET", "NEWLINE", "EOF"}

NumbersEnd ==
  phase \in {"parsing", "parsed"} =>
    \A k \in 1 .. held - 1 : tokens[k].type = "NUMBER" => tokens[k + 1].type \in Stops

\* An operand is followed by its bracket, or by what its instruction looks at.
LEMMA BehindNumber ==
  ASSUME IsTokens(tokens), NEW p, p \in Nat \ {0}, OperandAt(p) \in 1 .. Len(tokens),
         tokens[OperandAt(p)].type # "EOF", At(Behind(p)).type \in Stops
  PROVE  tokens[OperandAt(p) + 1].type \in Stops
<1>1. PICK k : k = OperandAt(p) OBVIOUS
<1>2. k \in 1 .. Len(tokens) /\ k \in Nat BY <1>1 DEF IsTokens
<1>3. At(k) = tokens[k] BY <1>2, AtText
<1>4. k + 1 \in 1 .. Len(tokens) BY <1>1, <1>2, <1>3, Ahead
<1>5. At(k + 1) = tokens[k + 1] BY <1>4, AtText
<1>6. CASE InBrackets(p)
  <2>1. k + 1 = p + 2 BY <1>1, <1>6 DEF OperandAt
  <2>2. At(p + 2).type = "RBRACKET" BY <1>6 DEF InBrackets
  <2> QED BY <1>1, <1>5, <2>1, <2>2 DEF Stops
<1>7. CASE ~InBrackets(p) BY <1>1, <1>5, <1>7 DEF OperandAt, Behind
<1> QED BY <1>6, <1>7

LEMMA NumbersOfLine ==
  ASSUME IsTokens(tokens), NEW n, n \in 1 .. Len(tokens), tokens[n].type = "OPCODE",
         parse_opcode(n), NEW k \in n + 1 .. Lookahead(n) - 1, tokens[k].type = "NUMBER"
  PROVE  tokens[k + 1].type \in Stops
<1>1. /\ Lookahead(n) \in n + 1 .. Len(tokens)
      /\ tokens[k].type \in DOMAIN OperandType <=> k \in OperandsOf(n)
      BY InstructionTokens
<1>2. n \in Nat /\ Len(tokens) \in Nat /\ k \in 1 .. Len(tokens) BY <1>1 DEF IsTokens
<1>3. k \in OperandsOf(n) BY <1>1 DEF OperandType
<1>4. At(Lookahead(n)).type \in Stops BY DEF parse_opcode, EndsLine, Stops
<1>5. CASE HasOpr1(n) /\ k = OperandAt(n + 1)
  <2>1. At(Behind(n + 1)).type \in Stops
        BY <1>4, <1>5 DEF Lookahead, HasOpr2, Stops
  <2> QED BY <1>2, <1>5, <2>1, BehindNumber
<1>6. CASE HasOpr2(n) /\ k = OperandAt(Behind(n + 1) + 1)
  <2>1. At(Behind(Behind(n + 1) + 1)).type \in Stops BY <1>4, <1>6 DEF Lookahead
  <2>2. Behind(n + 1) + 1 \in Nat \ {0} BY <1>2 DEF Behind
  <2> QED BY <1>2, <1>6, <2>1, <2>2, BehindNumber
<1> QED BY <1>3, <1>5, <1>6 DEF OperandsOf

LEMMA NumbersStep == PInv /\ Built /\ NumbersEnd /\ [Next]_vars => NumbersEnd'
<1> SUFFICES ASSUME PInv, Built, NumbersEnd, [Next]_vars PROVE NumbersEnd' OBVIOUS
<1>1. IsTokens(tokens) /\ Len(tokens) \in Nat /\ DOMAIN tokens = 1 .. Len(tokens)
  <2>1. tokens = Tokens(src) /\ src \in Texts BY DEF PInv
  <2> QED BY <2>1, TextsHaveTokens DEF IsTokens
<1>2. ASSUME phase = "parsing"
      PROVE  /\ held \in 1 .. Len(tokens) /\ held \in Nat /\ At(held) = tokens[held]
             /\ \A k \in 1 .. held - 1 : tokens[k].type = "NUMBER" => tokens[k + 1].type \in Stops
  <2>1. held \in 1 .. Len(tokens) BY <1>2 DEF Built
  <2> QED BY <1>1, <1>2, <2>1, AtText DEF NumbersEnd
\* A turn of the loop that reads the tokens from held to e, without e.
<1>3. ASSUME phase = "parsing", NEW e \in held + 1 .. Len(tokens),
             \A k \in held .. e - 1 : tokens[k].type = "NUMBER" => tokens[k + 1].type \in Stops,
             held' = e, tokens' = tokens
      PROVE  NumbersEnd'
  <2>1. held \in Nat /\ e \in Nat BY <1>2, <1>3
  <2>2. \A k \in 1 .. e - 1 : k \in 1 .. held - 1 \/ k \in held .. e - 1 BY <2>1
  <2>3. \A k \in 1 .. e - 1 : tokens[k].type = "NUMBER" => tokens[k + 1].type \in Stops
        BY <1>2, <1>3, <2>2
  <2> QED BY <1>3, <2>3 DEF NumbersEnd, Stops
<1>4. ASSUME phase' \notin {"parsing", "parsed"} PROVE NumbersEnd'
      BY <1>4 DEF NumbersEnd
<1>5. ASSUME UNCHANGED <<held, tokens>>, phase' = phase \/ phase = "parsing" PROVE NumbersEnd'
      BY <1>5 DEF NumbersEnd, Stops
<1>6. CASE Usage BY <1>4, <1>6 DEF Usage
<1>7. CASE SetupFails BY <1>4, <1>7 DEF SetupFails
<1>8. CASE PushFails BY <1>4, <1>8 DEF PushFails
<1>9. CASE Reject BY <1>4, <1>9 DEF Reject
<1>10. CASE UNCHANGED vars BY <1>5, <1>10 DEF vars
<1>11. CASE Returned BY <1>10, <1>11 DEF Returned
<1>12. CASE EndOfText BY <1>5, <1>12 DEF EndOfText, Holding
<1>13. CASE Start
  <2>1. held' = 1 BY <1>13 DEF Start
  <2>2. 1 .. held' - 1 = {} BY <2>1
  <2> QED BY <2>2 DEF NumbersEnd
<1>14. CASE NewLine
  <2>1. /\ phase = "parsing" /\ At(held).type = "NEWLINE"
        /\ held' = held + 1 /\ tokens' = tokens
        BY <1>14 DEF NewLine, Holding
  <2>2. held + 1 \in held + 1 .. Len(tokens) BY <1>1, <1>2, <2>1, Ahead
  <2>3. \A k \in held .. held + 1 - 1 : k = held BY <1>2, <2>1
  <2> QED BY <1>2, <1>3, <2>1, <2>2, <2>3
<1>15. CASE Label
  <2>1. /\ phase = "parsing" /\ At(held).type = "IDENT" /\ At(held + 1).type = "COLON"
        /\ held' = held + 2 /\ tokens' = tokens
        BY <1>15 DEF Label, AtLabel, Holding
  <2>2. held + 1 \in 1 .. Len(tokens) BY <1>1, <1>2, <2>1, Ahead
  <2>3. At(held + 1) = tokens[held + 1] BY <1>1, <2>2, AtText
  <2>4. held + 1 + 1 \in 1 .. Len(tokens)
    <3>1. At(held + 1).type # "EOF" BY <2>1
    <3> QED BY <1>1, <2>2, <3>1, Ahead
  <2>5. held + 2 \in held + 1 .. Len(tokens) BY <1>1, <1>2, <2>1, <2>4
  <2>6. \A k \in held .. held + 2 - 1 : k = held \/ k = held + 1 BY <1>2, <2>1
  <2> QED BY <1>2, <1>3, <2>1, <2>3, <2>5, <2>6
<1>16. CASE Instruction
  <2>1. /\ phase = "parsing" /\ At(held).type = "OPCODE" /\ parse_opcode(held)
        /\ held' = Lookahead(held) /\ tokens' = tokens
        BY <1>16 DEF Instruction, Holding
  <2>2. held \in 1 .. Len(tokens) /\ tokens[held].type = "OPCODE" BY <1>2, <2>1
  <2>3. Lookahead(held) \in held + 1 .. Len(tokens) BY <1>1, <2>1, <2>2, InstructionTokens
  <2>4. \A k \in held .. Lookahead(held) - 1 : k = held \/ k \in held + 1 .. Lookahead(held) - 1
        BY <1>1, <2>2, <2>3
  <2>5. \A k \in held + 1 .. Lookahead(held) - 1 :
          tokens[k].type = "NUMBER" => tokens[k + 1].type \in Stops
        BY <1>1, <2>1, <2>2, NumbersOfLine
  <2>6. \A k \in held .. Lookahead(held) - 1 :
          tokens[k].type = "NUMBER" => tokens[k + 1].type \in Stops
        BY <2>2, <2>4, <2>5
  <2> QED BY <1>3, <2>1, <2>3, <2>6
<1> QED BY <1>6, <1>7, <1>8, <1>9, <1>10, <1>11, <1>12, <1>13, <1>14, <1>15, <1>16
        DEF Next, FrontEnd

\* In an accepted text every word and every number is written to its end:
\* where the lexer has cut a number off, as after the 0 of 09 or the 12 of
\* 12ab, the rest is a token that no rule of rsm_parser_parse_opcode takes.
THEOREM ParserKeepsWordsWhole == Spec => []WordsAreWhole
<1>1. Init => NumbersEnd BY DEF Init, NumbersEnd
<1>2. ASSUME PInv, Built, NumbersEnd PROVE WordsAreWhole
  <2>1. tokens = Tokens(src) /\ src \in Texts /\ src \in Seq(STRING)
        BY <1>2, TextsAssumption DEF PInv
  <2>2. Len(tokens) \in Nat /\ DOMAIN tokens = 1 .. Len(tokens)
        BY <2>1, TextsHaveTokens DEF IsTokens
  <2>3. ASSUME phase = "parsed", NEW n \in DOMAIN tokens,
               tokens[n].type \in {"OPCODE"} \cup DOMAIN OperandType
        PROVE  EndsWord(src, tokens[n].end)
    <3>1. tokens[n].type \in Words \cup {"NUMBER"} BY <2>3 DEF OperandType, Words
    <3>2. held = Len(tokens) BY <1>2, <2>3 DEF Built
    <3>3. ASSUME ~EndsWord(src, tokens[n].end) PROVE FALSE
      <4>1. /\ tokens[n].type = "NUMBER" /\ n + 1 \in DOMAIN tokens
            /\ tokens[n + 1].type \in Words \cup {"NUMBER", "INVALID"}
            BY <2>1, <2>3, <3>1, <3>3, HalvesAreSeen
      <4>2. n \in 1 .. held - 1 BY <2>2, <2>3, <3>2, <4>1
      <4>3. tokens[n + 1].type \in Stops BY <1>2, <2>3, <4>1, <4>2 DEF NumbersEnd
      <4> QED BY <4>1, <4>3 DEF Words, Stops
    <3> QED BY <3>3
  <2> QED BY <2>3 DEF WordsAreWhole, EndsWord
<1> QED BY <1>1, <1>2, NumbersStep, ParserInvariant, BuiltInvariant, PTL DEF Spec

\* A comment changes nothing, whatever rsm_lexer_tokenize finds in it: the
\* parser gets the tokens of the text without its comments, newlines included.
THEOREM ParserIgnoresComments == Spec => []CommentsAreBlank
<1>1. ASSUME PInv PROVE CommentsAreBlank
  <2>1. tokens = Tokens(src) /\ src \in Texts /\ src \in Seq(STRING)
        BY <1>1, TextsAssumption DEF PInv
  <2>2. PICK bs : bs = Tokens(Bare(src)) OBVIOUS
  <2>3. Len(bs) = Len(tokens) /\ \A n \in DOMAIN tokens : Same(tokens[n], bs[n])
        BY <2>1, <2>2, TokensOfBare, Zenon
  <2>4. DOMAIN tokens = 1 .. Len(tokens) BY <2>1, TextsHaveTokens DEF IsTokens
  <2>5. DOMAIN bs = 1 .. Len(bs)
    <3>1. PICK bare \in Seq(STRING) : bare = Bare(src)
      <4>1. PICK at, within : Without(src, Bare(src), at, within) BY <2>1, BareIs
      <4> QED BY <4>1 DEF Without
    <3>2. IsTokens(bs) BY <2>2, <3>1, LexerReturnsTokens, Zenon
    <3> QED BY <3>2 DEF IsTokens
  <2>6. Types(tokens) = Types(bs) BY <2>3, <2>4, <2>5 DEF Same, Types
  <2> QED BY <2>2, <2>3, <2>6, Zenon DEF CommentsAreBlank, Same
<1> QED BY <1>1, ParserInvariant, PTL

=============================================================================
