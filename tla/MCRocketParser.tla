--------------------------- MODULE MCRocketParser ---------------------------
(***************************************************************************)
(* Texts for the model checker.                                            *)
(***************************************************************************)
EXTENDS RocketParser

\* Every text of n pieces.
RECURSIVE Of(_, _)
Of(pieces, n) == IF n = 0 THEN {""} ELSE {p \o t : p \in pieces, t \in Of(pieces, n - 1)}

\* One statement: right and wrong operands, separators and ends of the line.
Opcodes  == {"MOV ", "Load ", "stORE\t", "cmp ", "jz ", "Ret "}
Operands == {"", "rv7", "0x1F", "x", "[x]", "[rv0]", "[8", "[]", "1f", "$"}
Ends     == {"", "\n", ";x:\nx:", ":"}

Statements == {o \o a \o s \o b \o e :
                 o \in Opcodes, a \in Operands, s \in {"", ", "}, b \in Operands, e \in Ends}

\* Any few pieces in a row.
Pieces == {"x", "_rv8", "rv1", "ret", "jmp", "7", "0x", ":", ",", "[", "]", "\n", " ", ";", "?"}

Jumbles == Of(Pieces, 3)

\* Several lines, labels and instructions in every order.
Lines == {"x:", "y: RET ; y\n", "JMP y\n", "\n", " add rv1, 010\n", "x y\n"}

Listings == Of(Lines, 4) \cup Of(Lines \ {"x y\n"}, 5)

\* Numerals of C and their values, and what is no numeral.
Numerals ==
  { <<"0", 0>>, <<"7", 7>>, <<"10", 10>>, <<"010", 8>>, <<"00", 0>>, <<"0x0", 0>>,
    <<"0xff", 255>>, <<"0X1aB", 427>>, <<"65535", 65535>>, <<"017", 15>>,
    <<"2147483647", 2147483647>>, <<"0x7fffffff", 2147483647>>,
    <<"017777777777", 2147483647>> }

NoNumerals == { "08", "019", "0x", "0xg", "1f", "12_", "2147483648", "0x80000000",
                "020000000000", "99999999999999999999" }

Moves == {"mov rv0, " \o n : n \in {x[1] : x \in Numerals} \cup NoNumerals}

\* Every blank character between two tokens, and none.
Spaced == {Chars("mov") \o blank \o Chars("rv1, 7") : blank \in {<<>>} \cup {<<c>> : c \in Blank}}

AllTexts ==
  Spaced \cup
  {Chars(string) : string \in {""} \cup Statements \cup Jumbles \cup Listings \cup Moves}

\* rocketasm where a long has 32 bits.
Windows == INSTANCE RocketLexer WITH LongIsWide <- FALSE

\* An INVALID token with digits is a number the range check of lexer.c:122
\* refuses.  A narrow strtol has made it INT32_MAX before.
Saturated(token) ==
  IF token.type = "INVALID" /\ src[token.end] \in WordChar
  THEN [token EXCEPT !.type = "NUMBER", !.value = INT32_MAX]
  ELSE token

\* A number has the value it has in C, octal numbers included, or the line is
\* rejected: no digit is dropped and no number wraps around.  The width of a
\* long matters for numbers beyond INT32_MAX and for nothing else: there
\* rocketasm reads INT32_MAX under Windows where it reports an error elsewhere.
NumbersReadAsWritten ==
  /\ \A x \in Numerals : src = Chars("mov rv0, " \o x[1]) =>
       /\ phase # "rejected"
       /\ phase = "parsed" => program.instrs[1].opr2.value = x[2]
  /\ \A n \in NoNumerals : src = Chars("mov rv0, " \o n) => phase # "parsed"
  /\ phase = "start" => Windows!Tokens(src) = [n \in DOMAIN tokens |-> Saturated(tokens[n])]

=============================================================================
