---------------------------- MODULE RocketLexer ----------------------------
(***************************************************************************)
(* rocketasm/lexer.c.  A text is a sequence of characters, and a position  *)
(* counts the characters that have been read.  rsm_lexer_tokenize returns  *)
(* the token that starts at or behind a position; its end is the position  *)
(* at which the function leaves lexer->pos.  Its value is a union in the   *)
(* code: value is here the opcode, the register or the number, and ident   *)
(* the name.                                                               *)
(***************************************************************************)
EXTENDS RocketIsa, Sequences

CONSTANT LongIsWide   \* whether a long has more than 32 bits: not on Windows

ASSUME LongAssumption == LongIsWide \in BOOLEAN

\* A character is a string of length one; VT below is the only other one.
Chars(string) == [i \in 1 .. Len(string) |-> SubSeq(string, i, i)]

\* The i-th character, and no character behind the end of the text.
Char(text, i) == IF i \in DOMAIN text THEN text[i] ELSE ""

\* ch | 0x20 makes a capital letter small.
Small == [ A |-> "a", B |-> "b", C |-> "c", D |-> "d", E |-> "e", F |-> "f", G |-> "g",
           H |-> "h", I |-> "i", J |-> "j", K |-> "k", L |-> "l", M |-> "m", N |-> "n",
           O |-> "o", P |-> "p", Q |-> "q", R |-> "r", S |-> "s", T |-> "t", U |-> "u",
           V |-> "v", W |-> "w", X |-> "x", Y |-> "y", Z |-> "z" ]

HexDigits == << "0", "1", "2", "3", "4", "5", "6", "7", "8", "9",
                "a", "b", "c", "d", "e", "f" >>

\* The vertical tab, for which a TLA+ string has no escape.
VT == "VT"

\* The classes of ctype.h, of the characters of ASCII.
Blank     == {" ", "\t", "\f", "\r", VT}   \* isspace, without the newline
WordStart == DOMAIN Small \cup {Small[c] : c \in DOMAIN Small} \cup {"_"}
Digit     == {HexDigits[i] : i \in 1 .. 10}
WordChar  == WordStart \cup Digit

\* The first position from which on there is a stop, or to.
FirstStop(from, to, stops) ==
  CHOOSE p \in from .. to :
    /\ p = to \/ p \in stops
    /\ \A q \in from .. p - 1 : q \notin stops

\* Where the text has no character of the class.
Outside(text, class) == {p \in 0 .. Len(text) : Char(text, p + 1) \notin class}

-----------------------------------------------------------------------------
\* A comment that swallows the end of its line.
InComment_EatsNewline(text, from, p) ==
  \E q \in from .. p :
    /\ Char(text, q + 1) = ";"
    /\ \A r \in q .. p - 1 : Char(text, r + 1) # "\n"

\* The character behind p is in a comment that starts behind from.
InComment(text, from, p) ==
  \E q \in from .. p :
    /\ Char(text, q + 1) = ";"
    /\ \A r \in q .. p : Char(text, r + 1) # "\n"

\* The loop at the start of rsm_lexer_tokenize.
SkipBlanks(text, pos) ==
  FirstStop(pos, Len(text), {p \in Outside(text, Blank) : ~InComment(text, pos, p)})

-----------------------------------------------------------------------------
(***************************************************************************)
(* Words.                                                                  *)
(***************************************************************************)
\* No other character of a word becomes a letter or a digit.
rsm_tolower(ch) == IF ch \in DOMAIN Small THEN Small[ch] ELSE ch

Mnemonic == [ mov  |-> RVM_OP.MOV,  load |-> RVM_OP.LOAD, store |-> RVM_OP.STORE,
              add  |-> RVM_OP.ADD,  sub  |-> RVM_OP.SUB,  mul   |-> RVM_OP.MUL,
              div  |-> RVM_OP.DIV,  mod  |-> RVM_OP.MOD,  shl   |-> RVM_OP.SHL,
              shr  |-> RVM_OP.SHR,  cmp  |-> RVM_OP.CMP,  jmp   |-> RVM_OP.JMP,
              jz   |-> RVM_OP.JZ,   jnz  |-> RVM_OP.JNZ,  call  |-> RVM_OP.CALL,
              ret  |-> RVM_OP.RET ]

RegisterName == [ rv0 |-> 0, rv1 |-> 1, rv2 |-> 2, rv3 |-> 3,
                  rv4 |-> 4, rv5 |-> 5, rv6 |-> 6, rv7 |-> 7 ]

\* rsm_lexer_tokenize_opcode, rsm_lexer_tokenize_reg: the entry of a table
\* under its name.
Spelled(word, table) ==
  {name \in DOMAIN table : Chars(name) = [i \in DOMAIN word |-> rsm_tolower(word[i])]}

Token(type, end, value) == [type |-> type, end |-> end, value |-> value, ident |-> <<>>]

WordToken(word, end) ==
  IF Spelled(word, Mnemonic) # {}
  THEN Token("OPCODE", end, Mnemonic[CHOOSE name \in Spelled(word, Mnemonic) : TRUE])
  ELSE IF Spelled(word, RegisterName) # {}
  THEN Token("REG", end, RegisterName[CHOOSE name \in Spelled(word, RegisterName) : TRUE])
  ELSE [Token("IDENT", end, 0) EXCEPT !.ident = word]

-----------------------------------------------------------------------------
(***************************************************************************)
(* Numbers: strtol with base 0.                                            *)
(***************************************************************************)
INT32_MAX == 2147483647
TooLarge  == -1

Digits == [base \in {8, 10, 16} |->
             {c \in WordChar : \E d \in 1 .. base : HexDigits[d] = rsm_tolower(c)}]

ValueOf(c) == (CHOOSE d \in 1 .. 16 : HexDigits[d] = rsm_tolower(c)) - 1

\* A hexadecimal prefix counts only if a digit follows it.
HexPrefix(text, pos) ==
  /\ pos + 3 <= Len(text)
  /\ Char(text, pos + 1) = "0"
  /\ rsm_tolower(Char(text, pos + 2)) = "x"
  /\ Char(text, pos + 3) \in Digits[16]

\* strtol with base 10 for all but hexadecimal numbers.
Base_Decimal(text, pos) == IF HexPrefix(text, pos) THEN 16 ELSE 10

Base(text, pos) == IF HexPrefix(text, pos) THEN 16
                   ELSE IF Char(text, pos + 1) = "0" THEN 8 ELSE 10

\* The number that digits spell, or TooLarge for one that no int32_t holds.
NumberOf(digits, base) ==
  LET upto[n \in 0 .. Len(digits)] ==
        IF n = 0 THEN 0
        ELSE LET v == upto[n - 1]
                 d == ValueOf(digits[n])
             IN  IF v = TooLarge \/ v > (INT32_MAX - d) \div base THEN TooLarge
                 ELSE (v * base) + d
  IN  upto[Len(digits)]

\* strtol saturates at LONG_MAX; where that is INT32_MAX, no number is ever
\* out of range.
NumberToken(text, pos) ==
  LET base   == Base(text, pos)
      start  == IF base = 16 THEN pos + 2 ELSE pos
      end    == FirstStop(start, Len(text), Outside(text, Digits[base]))
      number == NumberOf(SubSeq(text, start + 1, end), base)
  IN  IF number # TooLarge THEN Token("NUMBER", end, number)
      ELSE IF LongIsWide   THEN Token("INVALID", end, 0)
      ELSE Token("NUMBER", end, INT32_MAX)

-----------------------------------------------------------------------------
Punctuation == [c \in {",", ":", "[", "]", "\n"} |->
                  CASE c = ","  -> "COMMA"    [] c = ":"  -> "COLON"
                    [] c = "["  -> "LBRACKET" [] c = "]"  -> "RBRACKET"
                    [] c = "\n" -> "NEWLINE"]

\* The token whose first character is behind pos.
TokenAt(text, pos) ==
  LET ch      == Char(text, pos + 1)
      wordEnd == FirstStop(pos, Len(text), Outside(text, WordChar))
  IN  CASE pos = Len(text) -> Token("EOF", pos, 0)
        [] ch \in DOMAIN Punctuation -> Token(Punctuation[ch], pos + 1, 0)
        [] ch \in WordStart -> WordToken(SubSeq(text, pos + 1, wordEnd), wordEnd)
        [] ch \in Digit -> NumberToken(text, pos)
        [] OTHER -> Token("INVALID", pos + 1, 0)

rsm_lexer_tokenize(text, from) == TokenAt(text, SkipBlanks(text, from))

\* The tokens of a text, which the calls of rsm_lexer_tokenize return one
\* after the other, the first EOF included.
Tokens(text) ==
  LET from[pos \in 0 .. Len(text)] ==
        LET t == rsm_lexer_tokenize(text, pos)
        IN  IF t.type = "EOF" THEN <<t>> ELSE <<t>> \o from[t.end]
  IN  from[0]

(***************************************************************************)
(* What the parser relies on: opcodes and registers that exist, numbers    *)
(* that are not negative, and one EOF, at the end.                         *)
(***************************************************************************)
IsToken(t) ==
  /\ t.value \in Nat
  /\ t.type = "OPCODE" => t.value \in 0 .. 15
  /\ t.type = "REG" => t.value \in Reg

IsTokens(ts) ==
  /\ Len(ts) \in Nat \ {0} /\ DOMAIN ts = 1 .. Len(ts)
  /\ \A n \in DOMAIN ts : IsToken(ts[n]) /\ (ts[n].type = "EOF" <=> n = Len(ts))

\* The text without its comments.
Bare(text) ==
  LET upto[n \in 0 .. Len(text)] ==
        IF n = 0 THEN [kept |-> <<>>, in |-> FALSE]
        ELSE LET before == upto[n - 1]
                 in     == text[n] # "\n" /\ (before.in \/ text[n] = ";")
             IN  [ kept |-> IF in THEN before.kept ELSE Append(before.kept, text[n]),
                   in   |-> in ]
  IN  upto[Len(text)].kept

=============================================================================
