---------------------------- MODULE RocketParser ----------------------------
(***************************************************************************)
(* The front end of rocketasm: main up to the return of rsm_parser_parse.  *)
(* A step is one turn of the loop of rsm_parser_parse, with every call of  *)
(* the lexer it makes.  The lexer is called for one token after the other  *)
(* and depends on nothing but the text, so its state is the number of      *)
(* calls, which is also the number of the token the parser holds.          *)
(***************************************************************************)
EXTENDS RocketLexer, RocketProgram, FiniteSets

CONSTANTS
  Texts,         \* the contents of the input file
  Capacity,      \* of a new program, for instructions and for labels; 1024
  UINT16_MAX     \* the largest address of a label; 65535

ASSUME CapacityAssumption == Capacity \in Nat \ {0}
ASSUME AddressAssumption == UINT16_MAX \in Word
ASSUME TextsAssumption == \A text \in Texts : text \in Seq(STRING)

VARIABLES
  src,       \* the text
  tokens,    \* what the calls of rsm_lexer_tokenize return
  held,      \* parser->token is tokens[held], or the one of rsm_parser_create
  program,   \* see RocketProgram
  phase      \* "start", "parsing", or how the front end has ended

vars == <<src, tokens, held, program, phase>>

-----------------------------------------------------------------------------
(***************************************************************************)
(* rsm_parser_parse_operand and rsm_parser_parse_opcode, as functions of   *)
(* the number of the token the parser holds when they are called.          *)
(***************************************************************************)
\* The n-th token; EOF for ever at the end.
At(n) == tokens[IF n > Len(tokens) THEN Len(tokens) ELSE n]

OperandType == [NUMBER |-> "IMM", REG |-> "REG", IDENT |-> "LABEL"]

\* A [label] whose mem_type is not assigned: it stays RSM_MEM_NONE.
MemType_NoLabel == [NUMBER |-> "IMM", REG |-> "REG", IDENT |-> "NONE"]

MemType == [NUMBER |-> "IMM", REG |-> "REG", IDENT |-> "LABEL"]

Operand(type, memType, t) ==
  [type |-> type, mem |-> memType, value |-> t.value, label |-> t.ident]

\* A memory operand with its three tokens.
InBrackets(n) ==
  At(n).type = "LBRACKET" /\ At(n + 1).type \in DOMAIN MemType /\ At(n + 2).type = "RBRACKET"

parse_operand(n) ==
  CASE InBrackets(n) -> Operand("MEM", MemType[At(n + 1).type], At(n + 1))
    [] At(n).type \in DOMAIN OperandType -> Operand(OperandType[At(n).type], "NONE", At(n))
    [] OTHER -> Operand("INVALID", "NONE", At(n))

\* The first token behind an operand.
Behind(n) == IF InBrackets(n) THEN n + 3 ELSE n + 1

\* A check that lets an instruction pass without its second operand.
WellTyped_NoOpr2(opcode, a, b) ==
  CASE opcode = RVM_OP.RET   -> a.type = "NONE" /\ b.type = "NONE"
    [] opcode = RVM_OP.LOAD  -> a.type = "REG" /\ b.type = "MEM"
    [] opcode = RVM_OP.STORE -> a.type = "MEM" /\ b.type = "REG"
    [] opcode \in TwoOperand -> a.type = "REG" /\ b.type \in {"REG", "IMM", "NONE"}
    [] opcode \in Transfers  -> a.type \in {"LABEL", "REG", "IMM"}

\* The checks of the operands, once they have been read.  The one of RET
\* cannot fail as long as no operand of RET is read.  A second operand of a
\* branch is ignored.
WellTyped(opcode, a, b) ==
  CASE opcode = RVM_OP.RET   -> a.type = "NONE" /\ b.type = "NONE"
    [] opcode = RVM_OP.LOAD  -> a.type = "REG" /\ b.type = "MEM"
    [] opcode = RVM_OP.STORE -> a.type = "MEM" /\ b.type = "REG"
    [] opcode \in TwoOperand -> a.type = "REG" /\ b.type \in {"REG", "IMM"}
    [] opcode \in Transfers  -> a.type \in {"LABEL", "REG", "IMM"}

EndsLine(n) == At(n).type \in {"NEWLINE", "EOF"}

HasOpr1(n) == At(n).value # RVM_OP.RET /\ ~EndsLine(n + 1)

\* An operand that is invalid ends the instruction and the assembly.
HasOpr2(n) ==
  HasOpr1(n) /\ parse_operand(n + 1).type # "INVALID" /\ At(Behind(n + 1)).type = "COMMA"

\* The instruction whose opcode is token n.
InstrAt(n) ==
  [ opcode |-> At(n).value,
    opr1   |-> IF HasOpr1(n) THEN parse_operand(n + 1) ELSE NoOperand,
    opr2   |-> IF HasOpr2(n) THEN parse_operand(Behind(n + 1) + 1) ELSE NoOperand ]

\* The token the parser holds when it has read the instruction.
Lookahead(n) == IF HasOpr2(n) THEN Behind(Behind(n + 1) + 1)
                ELSE IF HasOpr1(n) THEN Behind(n + 1) ELSE n + 1

\* Anything may follow an instruction.
parse_opcode_AnyEnd(n) ==
  LET instr == InstrAt(n)
  IN  /\ "INVALID" \notin {instr.opr1.type, instr.opr2.type}
      /\ WellTyped(instr.opcode, instr.opr1, instr.opr2)

\* Whether rsm_parser_parse_opcode gets as far as the push.
parse_opcode(n) ==
  LET instr == InstrAt(n)
  IN  /\ "INVALID" \notin {instr.opr1.type, instr.opr2.type}
      /\ EndsLine(Lookahead(n))
      /\ WellTyped(instr.opcode, instr.opr1, instr.opr2)

-----------------------------------------------------------------------------
(***************************************************************************)
(* main and rsm_parser_parse.                                              *)
(***************************************************************************)
Init == /\ src \in Texts
        /\ tokens = Tokens(src)
        /\ held = 0
        /\ program = rsm_program_create(Capacity)
        /\ phase = "start"

\* main without an argument prints how to use it and returns 0.
Usage == phase = "start" /\ phase' = "usage" /\ UNCHANGED <<src, tokens, held, program>>

\* Arguments that name no file, and every error of access,
\* rvm_io_read_file and malloc.
SetupFails == phase = "start" /\ phase' = "error" /\ UNCHANGED <<src, tokens, held, program>>

\* rvm_io_read_file refuses an empty file.
Start ==
  /\ phase = "start"
  /\ src # <<>>
  /\ phase' = "parsing"
  /\ held' = 1
  /\ UNCHANGED <<src, tokens, program>>

Holding(type) == phase = "parsing" /\ At(held).type = type

\* An IDENT, and the colon behind it.
AtLabel == Holding("IDENT") /\ At(held + 1).type = "COLON"

AddressTooLarge == Len(program.instrs) > UINT16_MAX

Label ==
  /\ AtLabel
  /\ ~AddressTooLarge
  /\ program' = rsm_program_push_label(program,
                  [name |-> At(held).ident, address |-> Len(program.instrs) % (UINT16_MAX + 1)])
  /\ held' = held + 2
  /\ UNCHANGED <<src, tokens, phase>>

\* An instruction that takes the end of its line, and what follows, with it.
Instruction_SkipsLookahead ==
  /\ Holding("OPCODE")
  /\ parse_opcode(held)
  /\ program' = rsm_program_push_instr(program, InstrAt(held))
  /\ held' = Lookahead(held) + 2
  /\ UNCHANGED <<src, tokens, phase>>

Instruction ==
  /\ Holding("OPCODE")
  /\ parse_opcode(held)
  /\ program' = rsm_program_push_instr(program, InstrAt(held))
  /\ held' = Lookahead(held)
  /\ UNCHANGED <<src, tokens, phase>>

\* A turn of the loop that forgets to move on.
NewLine_Stays == Holding("NEWLINE") /\ UNCHANGED vars

NewLine == Holding("NEWLINE") /\ held' = held + 1 /\ UNCHANGED <<src, tokens, program, phase>>

EndOfText == Holding("EOF") /\ phase' = "parsed" /\ UNCHANGED <<src, tokens, held, program>>

\* An identifier that is no label, and every token that starts no statement.
Unexpected ==
  /\ phase = "parsing"
  /\ At(held).type \notin {"OPCODE", "NEWLINE", "EOF"}
  /\ ~AtLabel

LabelTooFar == AtLabel /\ AddressTooLarge

BadInstruction == Holding("OPCODE") /\ ~parse_opcode(held)

\* Every return of -1 for what the text says.  The token is not read any
\* more.
Reject ==
  /\ Unexpected \/ LabelTooFar \/ BadInstruction
  /\ phase' = "rejected"
  /\ UNCHANGED <<src, tokens, held, program>>

\* realloc fails in one of the two pushes.
PushFails ==
  /\ \/ AtLabel /\ ~AddressTooLarge /\ LabelsFull(program)
     \/ Holding("OPCODE") /\ parse_opcode(held) /\ InstrsFull(program)
  /\ phase' = "error"
  /\ UNCHANGED <<src, tokens, held, program>>

FrontEnd == \/ Usage \/ SetupFails \/ Start
            \/ Label \/ Instruction \/ NewLine \/ EndOfText
            \/ Reject \/ PushFails

Ended == {"usage", "parsed", "rejected", "error"}

\* rsm_parser_parse or main has returned.
Returned == phase \in Ended /\ UNCHANGED vars

Next == FrontEnd \/ Returned

(***************************************************************************)
(* rocketasm is one thread that waits for nothing.                         *)
(***************************************************************************)
Spec == Init /\ [][Next]_vars /\ WF_vars(Next)

-----------------------------------------------------------------------------
(***************************************************************************)
(* Properties.                                                             *)
(***************************************************************************)
\* No array holds more than it has room for, and the parser never asks for a
\* token behind EOF.
TypeOK ==
  /\ phase \in {"start", "parsing"} \cup Ended
  /\ held \in 0 .. Len(tokens)
  /\ Len(program.instrs) <= program.instr_capacity
  /\ Len(program.labels) <= program.label_capacity

\* What the encoder relies on holds of a program of which only the beginning
\* has been read, too.
KeepsTheContract == IsParsed(program)

Types(toks) == [n \in DOMAIN toks |-> toks[n].type]

Simple == {<<"NUMBER">>, <<"REG">>, <<"IDENT">>}
Memory == {<<"LBRACKET">> \o s \o <<"RBRACKET">> : s \in Simple}
Into   == <<"REG", "COMMA">>

LoadForms     == {Into \o m : m \in Memory}
StoreForms    == {m \o <<"COMMA", "REG">> : m \in Memory}
TransferForms ==
  Simple \cup {a \o <<"COMMA">> \o b : a \in Simple, b \in Simple \cup Memory}

\* The token types an instruction may have behind its opcode.
Forms(opcode) ==
  CASE opcode = RVM_OP.RET   -> {<<>>}
    [] opcode = RVM_OP.LOAD  -> LoadForms
    [] opcode = RVM_OP.STORE -> StoreForms
    [] opcode \in TwoOperand -> {Into \o <<"REG">>, Into \o <<"NUMBER">>}
    [] opcode \in Transfers  -> TransferForms

\* Where lines start: behind a newline, behind the colon of a label.
LineStarts ==
  {n \in DOMAIN tokens :
     \/ n = 1
     \/ tokens[n - 1].type = "NEWLINE"
     \/ n > 2 /\ tokens[n - 1].type = "COLON" /\ tokens[n - 2].type = "IDENT"}

\* A text is a program if at each of these places there is the end of the
\* line, another label, or an instruction and the end of the line.
IsProgram ==
  LET types == Types(tokens)
  IN  \A n \in LineStarts :
        \/ types[n] \in {"NEWLINE", "EOF"}
        \/ types[n] = "IDENT" /\ types[n + 1] = "COLON"
        \/ /\ types[n] = "OPCODE"
           /\ \E form \in Forms(tokens[n].value) :
                LET end == n + Len(form) + 1
                IN  /\ end \in DOMAIN tokens
                    /\ SubSeq(types, n + 1, end - 1) = form
                    /\ types[end] \in {"NEWLINE", "EOF"}

\* How many instructions start before the token n.
OpcodesBefore(n) == Cardinality({k \in 1 .. n - 1 : tokens[k].type = "OPCODE"})

Colons == {n \in DOMAIN tokens : tokens[n].type = "COLON"}

\* The parser accepts exactly the programs whose labels have addresses of 16
\* bits, although it sees one token at a time and decides on the end of a
\* line in another function than on its start.
AcceptsTheGrammar ==
  LET legal == /\ IsProgram
               /\ \A n \in Colons : OpcodesBefore(n) <= UINT16_MAX
  IN  /\ phase = "parsed"   => legal
      /\ phase = "rejected" => ~legal

\* The operands on the line of the token n.
Mentioned(n) ==
  {k \in n + 1 .. Len(tokens) :
     /\ tokens[k].type \in DOMAIN OperandType
     /\ \A l \in n .. k : tokens[l].type # "NEWLINE"}

IsOperand(opr, k) ==
  /\ IF tokens[k - 1].type = "LBRACKET"
     THEN opr.type = "MEM" /\ opr.mem = MemType[tokens[k].type]
     ELSE opr.type = OperandType[tokens[k].type] /\ opr.mem = "NONE"
  /\ opr.value = tokens[k].value
  /\ opr.label = tokens[k].ident

\* The program is the text: one instruction for each opcode, with the
\* operands of its line, and one label for each colon, with the number of
\* instructions before it.  No array has overflowed and no token got lost in
\* the lookahead.
BuildsTheProgram ==
  phase = "parsed" =>
    LET opcodes == {n \in DOMAIN tokens : tokens[n].type = "OPCODE"}
    IN  /\ Len(program.instrs) = Cardinality(opcodes)
        /\ Len(program.labels) = Cardinality(Colons)
        /\ \A n \in opcodes :
             LET instr == program.instrs[OpcodesBefore(n) + 1]
                 named == Mentioned(n)
             IN  /\ instr.opcode = tokens[n].value
                 /\ named = {} => instr.opr1 = NoOperand
                 /\ Cardinality(named) < 2 => instr.opr2 = NoOperand
                 /\ \A k \in named :
                      IsOperand(IF \A l \in named : k <= l THEN instr.opr1 ELSE instr.opr2, k)
        /\ \A n \in Colons :
             LET label == program.labels[Cardinality(Colons \cap 1 .. n)]
             IN  /\ label.name = tokens[n - 1].ident
                 /\ label.address = OpcodesBefore(n)

\* In an accepted text no word and no number stops in the middle: 09 is two
\* numbers and 12ab a number and a name for the lexer, and no rule of the
\* parser puts the two halves to different uses.
WordsAreWhole ==
  phase = "parsed" =>
    \A n \in DOMAIN tokens :
      tokens[n].type \in {"OPCODE"} \cup DOMAIN OperandType =>
        \/ tokens[n].end = Len(src)
        \/ Char(src, tokens[n].end + 1) \notin WordChar

\* A comment, wherever it starts and whatever it says, changes no token, and
\* the line it ends is still ended.
CommentsAreBlank ==
  phase = "start" =>
    LET bare == Tokens(Bare(src))
    IN  /\ Types(tokens) = Types(bare)
        /\ \A n \in DOMAIN tokens :
             tokens[n].value = bare[n].value /\ tokens[n].ident = bare[n].ident

\* rsm_parser_parse returns for every text: each turn of its loop takes a
\* token.
ParsingEnds == <>(phase \in Ended)

=============================================================================
