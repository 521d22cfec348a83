------------------------- MODULE RocketLexer_proofs -------------------------
(***************************************************************************)
(* Proofs about the lexer, for every text.  First what one call of         *)
(* rsm_lexer_tokenize returns and where it ends, then the calls one after  *)
(* the other (LexerReturnsTokens), where words and numbers end, what a     *)
(* comment changes, and the value of numbers (NumbersAreExact).  Of the    *)
(* data that a recursion runs over, a fact is carried from one position to *)
(* the next by UpTo, or from a later one to an earlier one by LeastOf.     *)
(***************************************************************************)
EXTENDS RocketLexer, NaturalsInduction, WellFoundedInduction, SequenceTheorems, TLAPS

-----------------------------------------------------------------------------
(***************************************************************************)
(* Characters.                                                             *)
(***************************************************************************)
\* The first ten of the hexadecimal digits.
LEMMA DigitsAre == Digit = {"0", "1", "2", "3", "4", "5", "6", "7", "8", "9"}
<1>1. \A i \in 1 .. 10 : i \in {1, 2, 3, 4, 5, 6, 7, 8, 9, 10} OBVIOUS
<1>2. PICK h : h = HexDigits OBVIOUS
<1>3. h[1] = "0" /\ h[2] = "1" /\ h[3] = "2" /\ h[4] = "3" /\ h[5] = "4" /\ h[6] = "5"
      /\ h[7] = "6" /\ h[8] = "7" /\ h[9] = "8" /\ h[10] = "9"
      BY <1>2 DEF HexDigits
<1>4. Digit = {h[i] : i \in 1 .. 10} BY <1>2 DEF Digit
<1> QED BY <1>1, <1>3, <1>4

Capitals ==
  { "A", "B", "C", "D", "E", "F", "G", "H", "I", "J", "K", "L", "M",
    "N", "O", "P", "Q", "R", "S", "T", "U", "V", "W", "X", "Y", "Z" }

SmallLetters ==
  { "a", "b", "c", "d", "e", "f", "g", "h", "i", "j", "k", "l", "m",
    "n", "o", "p", "q", "r", "s", "t", "u", "v", "w", "x", "y", "z" }

\* The two cases of a letter.
LEMMA SmallIs == DOMAIN Small = Capitals /\ \A c \in Capitals : Small[c] \in SmallLetters
<1>1. DOMAIN Small = Capitals BY DEF Small, Capitals
<1>2. \A c \in Capitals : Small[c] \in SmallLetters BY SMT DEF Small, Capitals, SmallLetters
<1> QED BY <1>1, <1>2

\* No character of a word separates tokens.
LEMMA WordCharsAre ==
  ASSUME NEW c \in WordChar
  PROVE  c \notin Blank /\ c \notin {";", ",", ":", "[", "]", "\n", ""}
<1>1. CASE c \in Digit BY <1>1, DigitsAre DEF Blank, VT
<1>2. CASE c \in Capitals BY <1>2 DEF Capitals, Blank, VT
<1>3. CASE c \in SmallLetters BY <1>3 DEF SmallLetters, Blank, VT
<1>4. CASE c = "_" BY <1>4 DEF Blank, VT
<1> QED BY <1>1, <1>2, <1>3, <1>4, SmallIs, Zenon DEF WordChar, WordStart

\* rsm_tolower leaves digits and underscores alone.
LEMMA DigitsUnmoved == \A c \in Digit \cup {"_"} : c \notin DOMAIN Small
BY DigitsAre, SmallIs DEF Capitals

-----------------------------------------------------------------------------
(***************************************************************************)
(* Where a loop over characters stops.                                     *)
(***************************************************************************)
\* A set of naturals has a least element.
LEMMA LeastOf ==
  ASSUME NEW T, T \subseteq Nat, T # {}
  PROVE  \E x \in T : \A y \in T : x <= y
<1> DEFINE R == {p \in Nat \X Nat : p[1] < p[2]}
<1>1. IsWellFoundedOn(R, Nat) BY NatLessThanWellFounded DEF OpToRel
<1>2. \A x, y \in Nat : x < y => <<x, y>> \in R OBVIOUS
<1> HIDE DEF R
<1>3. PICK x \in T : \A y \in T : <<y, x>> \notin R BY <1>1, WFMin
<1>4. ASSUME NEW y \in T PROVE x <= y
  <2>1. x \in Nat /\ y \in Nat OBVIOUS
  <2>2. ~(y < x) BY <1>2, <1>3, <2>1
  <2> QED BY <2>1, <2>2
<1> QED BY <1>4

IsFirstStop(p, from, to, stops) ==
  /\ p \in from .. to
  /\ p = to \/ p \in stops
  /\ \A q \in from .. p - 1 : q \notin stops

\* There is a first stop, and only one.
LEMMA StopsOnce ==
  ASSUME NEW from \in Nat, NEW to \in Nat, from <= to, NEW stops
  PROVE  IsFirstStop(FirstStop(from, to, stops), from, to, stops)
<1> DEFINE S == {p \in from .. to : p = to \/ p \in stops}
<1>1. S \subseteq Nat /\ to \in S OBVIOUS
<1>2. PICK p \in S : \A q \in S : p <= q BY <1>1, LeastOf
<1>3. IsFirstStop(p, from, to, stops) BY <1>2 DEF IsFirstStop
<1> QED BY <1>3 DEF FirstStop, IsFirstStop

\* What is a first stop is the one that FirstStop returns.
LEMMA OneFirstStop ==
  ASSUME NEW from \in Nat, NEW to \in Nat, from <= to, NEW stops,
         NEW p, IsFirstStop(p, from, to, stops)
  PROVE  p = FirstStop(from, to, stops)
<1>1. PICK q : q = FirstStop(from, to, stops) OBVIOUS
<1>2. IsFirstStop(q, from, to, stops) BY <1>1, StopsOnce
<1>3. p \in Int /\ q \in Int BY <1>2 DEF IsFirstStop
<1>4. ~(p < q) BY <1>2, <1>3 DEF IsFirstStop
<1>5. ~(q < p) BY <1>2, <1>3 DEF IsFirstStop
<1> QED BY <1>1, <1>3, <1>4, <1>5

\* Where a span of characters of a class ends.
LEMMA OutsideStops ==
  ASSUME NEW text \in Seq(STRING), NEW from \in 0 .. Len(text), NEW class
  PROVE  LET p == FirstStop(from, Len(text), Outside(text, class))
         IN  /\ p \in from .. Len(text)
             /\ p = Len(text) \/ Char(text, p + 1) \notin class
             /\ \A q \in from .. p - 1 : Char(text, q + 1) \in class
<1>1. Len(text) \in Nat /\ from \in Nat /\ from <= Len(text) OBVIOUS
<1>2. PICK p : p = FirstStop(from, Len(text), Outside(text, class)) OBVIOUS
<1>3. IsFirstStop(p, from, Len(text), Outside(text, class)) BY <1>1, <1>2, StopsOnce
<1>4. /\ p \in from .. Len(text)
      /\ p = Len(text) \/ p \in Outside(text, class)
      /\ \A q \in from .. p - 1 : q \notin Outside(text, class)
      BY <1>3 DEF IsFirstStop
<1>5. p = Len(text) \/ Char(text, p + 1) \notin class BY <1>4 DEF Outside
<1>6. ASSUME NEW q \in from .. p - 1 PROVE Char(text, q + 1) \in class
  <2>1. q \in 0 .. Len(text) BY <1>1, <1>4
  <2> QED BY <1>4, <2>1 DEF Outside
<1> QED BY <1>2, <1>4, <1>5, <1>6

\* Where a token can start.
Starts(text, from) == {p \in Outside(text, Blank) : ~InComment(text, from, p)}

\* Blanks and comments in front of a token are skipped, and nothing else.
LEMMA Skipped ==
  ASSUME NEW text \in Seq(STRING), NEW from \in 0 .. Len(text)
  PROVE  IsFirstStop(SkipBlanks(text, from), from, Len(text), Starts(text, from))
<1>1. Len(text) \in Nat /\ from \in Nat /\ from <= Len(text) OBVIOUS
<1> QED BY <1>1, StopsOnce DEF SkipBlanks, Starts

-----------------------------------------------------------------------------
(***************************************************************************)
(* Functions of the number of characters that have been read.              *)
(***************************************************************************)
Steps(N, V) == [1 .. N -> [V -> V]]

\* The way from each value to the next is F.
GivenBy(g, N, V, first, F) ==
  /\ g \in [0 .. N -> V]
  /\ g[0] = first
  /\ \A n \in 1 .. N : g[n] = F[n][g[n - 1]]

\* A function on 0 .. N is given by its first value and the way from each
\* value to the next.
LEMMA StepByStep ==
  ASSUME NEW N \in Nat, NEW V, NEW first \in V, NEW F \in Steps(N, V)
  PROVE  \E g : GivenBy(g, N, V, first, F)
<1> DEFINE Upto(k) == \E g : GivenBy(g, k, V, first, F)
           Bad == {k \in 0 .. N : ~Upto(k)}
<1>1. SUFFICES ASSUME Bad # {} PROVE FALSE
  <2>1. N \in 0 .. N OBVIOUS
  <2> QED BY <1>1, <2>1
<1>2. PICK k \in Bad : \A l \in Bad : k <= l
  <2>1. Bad \subseteq Nat OBVIOUS
  <2> QED BY <1>1, <2>1, LeastOf
<1>3. k # 0
  <2>1. Upto(0)
    <3>1. PICK g : g = [n \in 0 .. 0 |-> first] OBVIOUS
    <3>2. GivenBy(g, 0, V, first, F) BY <3>1 DEF GivenBy
    <3> QED BY <3>2
  <2> QED BY <2>1
<1>4. k \in Nat /\ k - 1 \in 0 .. N /\ k - 1 \in Nat /\ k \in 1 .. N /\ ~(k <= k - 1) BY <1>3
<1> HIDE DEF Upto
<1>5. Upto(k - 1) BY <1>2, <1>4
<1>6. PICK g : GivenBy(g, k - 1, V, first, F) BY <1>5 DEF Upto
<1> DEFINE last == F[k][g[k - 1]]
<1>7. last \in V
  <2>1. g[k - 1] \in V BY <1>4, <1>6 DEF GivenBy
  <2> QED BY <1>4, <2>1 DEF Steps
<1> HIDE DEF last
<1>8. PICK h : h = [n \in 0 .. k |-> IF n = k THEN last ELSE g[n]] OBVIOUS
<1>9. h \in [0 .. k -> V] BY <1>4, <1>6, <1>7, <1>8 DEF GivenBy
<1>10. h[0] = first BY <1>4, <1>6, <1>8 DEF GivenBy
<1>11. ASSUME NEW n \in 1 .. k PROVE h[n] = F[n][h[n - 1]]
  <2>1. h[n - 1] = g[n - 1] BY <1>4, <1>8
  <2>2. CASE n = k BY <1>4, <1>8, <2>1, <2>2 DEF last
  <2>3. CASE n # k
    <3>1. n \in 1 .. k - 1 /\ h[n] = g[n] BY <1>4, <1>8, <2>3
    <3> QED BY <1>6, <2>1, <3>1 DEF GivenBy
  <2> QED BY <2>2, <2>3
<1>12. Upto(k) BY <1>9, <1>10, <1>11 DEF Upto, GivenBy
<1> QED BY <1>12

\* What holds at the start and is kept from each number to the next.
LEMMA UpTo ==
  ASSUME NEW N \in Nat, NEW S, 0 \in S, \A n \in 1 .. N : n - 1 \in S => n \in S
  PROVE  0 .. N \subseteq S
<1> DEFINE Bad == {n \in 0 .. N : n \notin S}
<1>1. SUFFICES ASSUME Bad # {} PROVE FALSE OBVIOUS
<1>2. PICK k \in Bad : \A l \in Bad : k <= l
  <2>1. Bad \subseteq Nat OBVIOUS
  <2> QED BY <1>1, <2>1, LeastOf
<1>3. k # 0 OBVIOUS
<1>4. k \in 1 .. N /\ k - 1 \in 0 .. N /\ ~(k <= k - 1) BY <1>3
<1>5. k - 1 \in S BY <1>2, <1>4
<1> QED BY <1>4, <1>5

-----------------------------------------------------------------------------
(***************************************************************************)
(* Numbers.                                                                *)
(***************************************************************************)
Bases == {8, 10, 16}

\* The digits of a base are characters of words, and less than it.
LEMMA DigitsOf ==
  ASSUME NEW base \in Bases
  PROVE  /\ Digits[base] \subseteq WordChar
         /\ \A c \in Digits[base] : ValueOf(c) \in 0 .. base - 1
         /\ \A c \in Digits[base] : HexDigits[ValueOf(c) + 1] = rsm_tolower(c)
<1>1. Digits[base] = {c \in WordChar : \E d \in 1 .. base : HexDigits[d] = rsm_tolower(c)}
      BY DEF Digits, Bases
<1>2. ASSUME NEW c \in Digits[base]
      PROVE  /\ ValueOf(c) \in 0 .. base - 1
             /\ HexDigits[ValueOf(c) + 1] = rsm_tolower(c)
  <2>1. PICK d : d = CHOOSE i \in 1 .. 16 : HexDigits[i] = rsm_tolower(c) OBVIOUS
  <2>2. PICK e \in 1 .. base : HexDigits[e] = rsm_tolower(c) BY <1>1
  <2>3. e \in 1 .. 16 BY DEF Bases
  <2>4. d \in 1 .. 16 /\ HexDigits[d] = rsm_tolower(c) BY <2>1, <2>2, <2>3
  <2>5. PICK h : h = HexDigits OBVIOUS
  <2>6. \A i, j \in 1 .. 16 : h[i] = h[j] => i = j BY <2>5, SMT DEF HexDigits
  <2>7. d = e BY <2>2, <2>3, <2>4, <2>5, <2>6
  <2>8. ValueOf(c) = d - 1 BY <2>1 DEF ValueOf
  <2>9. base \in Int /\ d \in Int BY <2>4 DEF Bases
  <2> QED BY <2>4, <2>7, <2>8, <2>9
<1> QED BY <1>1, <1>2

\* Whatever comes first, the base has a digit for it.
LEMMA BaseOf ==
  ASSUME NEW text \in Seq(STRING), NEW pos \in 0 .. Len(text), Char(text, pos + 1) \in Digit
  PROVE  /\ Base(text, pos) \in Bases
         /\ Base(text, pos) = 16 => HexPrefix(text, pos)
         /\ Base(text, pos) # 16 => Char(text, pos + 1) \in Digits[Base(text, pos)]
<1>1. PICK c : c = Char(text, pos + 1) OBVIOUS
<1>2. c \in Digit /\ c \in WordChar BY <1>1 DEF WordChar
<1>3. rsm_tolower(c) = c BY <1>2, DigitsUnmoved DEF rsm_tolower
<1>4. PICK i \in 1 .. 10 : c = HexDigits[i] BY <1>2 DEF Digit
<1>5. c \in Digits[10] BY <1>2, <1>3, <1>4 DEF Digits
<1>6. c = "0" => c \in Digits[8]
  <2>1. HexDigits[1] = "0" BY DEF HexDigits
  <2>2. 1 \in 1 .. 8 OBVIOUS
  <2> QED BY <1>2, <1>3, <2>1, <2>2 DEF Digits
<1> QED BY <1>1, <1>5, <1>6 DEF Base, Bases

\* The only thing most of the proofs need to know of INT32_MAX.
LEMMA MaxIsNatural == INT32_MAX \in Nat
BY SMT DEF INT32_MAX

Numbers == (0 .. INT32_MAX) \cup {TooLarge}

\* What reading a digit makes of the number before it.
ReadDigit(v, d, base) ==
  IF v = TooLarge \/ v > (INT32_MAX - d) \div base THEN TooLarge ELSE (v * base) + d

\* No number gets larger than INT32_MAX.
LEMMA ReadDigitType ==
  ASSUME NEW v \in Numbers, NEW base \in Bases, NEW d \in 0 .. base - 1
  PROVE  ReadDigit(v, d, base) \in Numbers
<1>1. CASE v = TooLarge \/ v > (INT32_MAX - d) \div base BY <1>1 DEF ReadDigit, Numbers
<1>2. CASE ~(v = TooLarge \/ v > (INT32_MAX - d) \div base)
  <2>1. ReadDigit(v, d, base) = (v * base) + d BY <1>2 DEF ReadDigit
  <2>2. v \in Nat /\ v <= (INT32_MAX - d) \div base
        BY <1>2, MaxIsNatural DEF Numbers, TooLarge, Bases
  <2>3. CASE base = 8 BY <2>1, <2>2, <2>3, MaxIsNatural DEF Numbers
  <2>4. CASE base = 10 BY <2>1, <2>2, <2>4, MaxIsNatural DEF Numbers
  <2>5. CASE base = 16 BY <2>1, <2>2, <2>5, MaxIsNatural DEF Numbers
  <2> QED BY <2>3, <2>4, <2>5 DEF Bases
<1> QED BY <1>1, <1>2

\* The numbers that the first n digits spell, for every n.
Spelling(u, digits, base) ==
  /\ u \in [0 .. Len(digits) -> Numbers]
  /\ u[0] = 0
  /\ \A n \in 1 .. Len(digits) : u[n] = ReadDigit(u[n - 1], ValueOf(digits[n]), base)

\* They exist.
LEMMA SpellingExists ==
  ASSUME NEW base \in Bases, NEW digits \in Seq(Digits[base])
  PROVE  \E u : Spelling(u, digits, base)
<1>0. PICK N : N = Len(digits) OBVIOUS
<1> DEFINE F == [n \in 1 .. N |-> [v \in Numbers |-> ReadDigit(v, ValueOf(digits[n]), base)]]
<1>1. N \in Nat /\ 0 \in Numbers BY <1>0, MaxIsNatural DEF Numbers
<1>2. F \in [1 .. N -> [Numbers -> Numbers]]
  <2>1. ASSUME NEW n \in 1 .. N PROVE ValueOf(digits[n]) \in 0 .. base - 1
        BY <1>0, DigitsOf
  <2>2. \A n \in 1 .. N : \A v \in Numbers : ReadDigit(v, ValueOf(digits[n]), base) \in Numbers
        BY <2>1, ReadDigitType
  <2> QED BY <2>2
<1>3. PICK f : f = F OBVIOUS
<1>4. \A n \in 1 .. N : \A v \in Numbers : f[n][v] = ReadDigit(v, ValueOf(digits[n]), base)
      BY <1>3
<1>5. f \in Steps(N, Numbers) BY <1>2, <1>3 DEF Steps
<1> HIDE DEF F
<1>6. PICK u : GivenBy(u, N, Numbers, 0, f) BY <1>1, <1>5, StepByStep
<1>7. ASSUME NEW n \in 1 .. N PROVE u[n] = ReadDigit(u[n - 1], ValueOf(digits[n]), base)
  <2>1. n - 1 \in 0 .. N BY <1>1
  <2>2. u[n - 1] \in Numbers BY <1>6, <2>1 DEF GivenBy
  <2> QED BY <1>4, <1>6, <2>2 DEF GivenBy
<1>8. Spelling(u, digits, base) BY <1>0, <1>6, <1>7 DEF Spelling, GivenBy
<1> QED BY <1>8

\* NumberOf is the last of them, and there is only one such function.
LEMMA OneSpelling ==
  ASSUME NEW base \in Bases, NEW digits \in Seq(Digits[base]),
         NEW u, Spelling(u, digits, base)
  PROVE  NumberOf(digits, base) = u[Len(digits)]
<1> DEFINE N == Len(digits)
           IsUpto(g) ==
             g = [n \in 0 .. N |->
                    IF n = 0 THEN 0
                    ELSE IF g[n - 1] = TooLarge \/ g[n - 1] > (INT32_MAX - ValueOf(digits[n])) \div base
                         THEN TooLarge
                         ELSE (g[n - 1] * base) + ValueOf(digits[n])]
<1>1. N \in Nat OBVIOUS
<1>2. IsUpto(u)
  <2>1. u = [n \in 0 .. N |-> u[n]] BY DEF Spelling
  <2>2. \A n \in 0 .. N : n # 0 => n \in 1 .. N BY <1>1
  <2> QED BY <2>1, <2>2 DEF Spelling, ReadDigit
<1>3. PICK g : g = CHOOSE f : IsUpto(f) OBVIOUS
<1>4. IsUpto(g) BY <1>2, <1>3
<1>5. NumberOf(digits, base) = g[N] BY <1>3 DEF NumberOf
<1> DEFINE S == {n \in 0 .. N : g[n] = u[n]}
<1>6. 0 \in S BY <1>1, <1>2, <1>4
<1>7. ASSUME NEW n \in 1 .. N, n - 1 \in S PROVE n \in S
  <2>1. n \in 0 .. N /\ n # 0 /\ g[n - 1] = u[n - 1] BY <1>1, <1>7
  <2> QED BY <1>2, <1>4, <2>1
<1> HIDE DEF S
<1>8. 0 .. N \subseteq S BY <1>1, <1>6, <1>7, UpTo
<1>9. N \in 0 .. N BY <1>1
<1> QED BY <1>5, <1>8, <1>9 DEF S

\* A number fits into an int32_t, or is known to be too large.
LEMMA NumberType ==
  ASSUME NEW base \in Bases, NEW digits \in Seq(Digits[base])
  PROVE  NumberOf(digits, base) \in Numbers
<1>1. PICK u : Spelling(u, digits, base) BY SpellingExists
<1>2. u \in [0 .. Len(digits) -> Numbers] /\ Len(digits) \in 0 .. Len(digits) BY <1>1 DEF Spelling
<1>3. u[Len(digits)] \in Numbers BY <1>2
<1> QED BY <1>1, <1>3, OneSpelling

-----------------------------------------------------------------------------
(***************************************************************************)
(* The token that starts at a position.                                    *)
(***************************************************************************)
Words == {"OPCODE", "REG", "IDENT"}

\* What a word can become.
LEMMA WordTokenIs ==
  ASSUME NEW word, NEW end
  PROVE  /\ WordToken(word, end).end = end
         /\ WordToken(word, end).type \in Words
         /\ IsToken(WordToken(word, end))
<1>1. CASE Spelled(word, Mnemonic) # {}
  <2>1. PICK name \in Spelled(word, Mnemonic) :
          WordToken(word, end) = Token("OPCODE", end, Mnemonic[name])
        BY <1>1 DEF WordToken
  <2>2. name \in DOMAIN Mnemonic BY <2>1 DEF Spelled
  <2>3. Mnemonic[name] \in 0 .. 15 BY <2>2 DEF Mnemonic, RVM_OP
  <2>4. PICK v \in 0 .. 15 : v = Mnemonic[name] BY <2>3
  <2> QED BY <2>1, <2>4 DEF Token, IsToken, Words
<1>2. CASE Spelled(word, Mnemonic) = {} /\ Spelled(word, RegisterName) # {}
  <2>1. PICK name \in Spelled(word, RegisterName) :
          WordToken(word, end) = Token("REG", end, RegisterName[name])
        BY <1>2 DEF WordToken
  <2>2. name \in DOMAIN RegisterName BY <2>1 DEF Spelled
  <2>3. RegisterName[name] \in Reg BY <2>2 DEF RegisterName, Reg
  <2>4. PICK v \in Reg : v = RegisterName[name] BY <2>3
  <2>5. v \in Nat BY DEF Reg
  <2> QED BY <2>1, <2>4, <2>5 DEF Token, IsToken, Words
<1>3. CASE Spelled(word, Mnemonic) = {} /\ Spelled(word, RegisterName) = {}
  <2>1. WordToken(word, end) = [type |-> "IDENT", end |-> end, value |-> 0, ident |-> word]
        BY <1>3 DEF WordToken, Token
  <2> QED BY <2>1 DEF IsToken, Words
<1> QED BY <1>1, <1>2, <1>3

\* Where the digits of a number start, and where they end.
DigitsFrom(text, pos) == IF Base(text, pos) = 16 THEN pos + 2 ELSE pos

DigitsTo(text, pos) ==
  FirstStop(DigitsFrom(text, pos), Len(text), Outside(text, Digits[Base(text, pos)]))

DigitsAt(text, pos) == SubSeq(text, DigitsFrom(text, pos) + 1, DigitsTo(text, pos))

\* A number has a digit, and ends where there is none of its base.
LEMMA DigitsSpan ==
  ASSUME NEW text \in Seq(STRING), NEW pos \in 0 .. Len(text), pos # Len(text),
         Char(text, pos + 1) \in Digit
  PROVE  /\ Base(text, pos) \in Bases
         /\ DigitsFrom(text, pos) \in pos .. Len(text)
         /\ DigitsTo(text, pos) \in pos + 1 .. Len(text)
         /\ DigitsTo(text, pos) = Len(text)
              \/ Char(text, DigitsTo(text, pos) + 1) \notin Digits[Base(text, pos)]
         /\ DigitsFrom(text, pos) <= DigitsTo(text, pos)
         /\ DigitsAt(text, pos) \in Seq(Digits[Base(text, pos)])
<1>1. PICK b, from, to : b = Base(text, pos) /\ from = DigitsFrom(text, pos)
                           /\ to = DigitsTo(text, pos)
      OBVIOUS
<1>2. b \in Bases /\ (b = 16 => HexPrefix(text, pos)) /\ (b # 16 => Char(text, pos + 1) \in Digits[b])
      BY <1>1, BaseOf
<1>3. Len(text) \in Nat /\ pos \in Nat OBVIOUS
<1>4. from \in 0 .. Len(text) /\ (b = 16 => from = pos + 2) /\ (b # 16 => from = pos)
      BY <1>1, <1>2, <1>3 DEF DigitsFrom, HexPrefix
<1>5. /\ to \in from .. Len(text)
      /\ to = Len(text) \/ Char(text, to + 1) \notin Digits[b]
      /\ \A q \in from .. to - 1 : Char(text, q + 1) \in Digits[b]
      BY <1>1, <1>4, OutsideStops DEF DigitsTo
<1>6. to # pos
  <2>1. CASE b = 16 BY <1>3, <1>4, <1>5, <2>1
  <2>2. CASE b # 16 BY <1>2, <1>3, <1>5, <2>2
  <2> QED BY <2>1, <2>2
<1>7. to \in pos + 1 .. Len(text) /\ from \in pos .. Len(text) BY <1>3, <1>4, <1>5, <1>6
<1>8. SubSeq(text, from + 1, to) \in Seq(Digits[b])
  <2>1. PICK s : s = SubSeq(text, from + 1, to) OBVIOUS
  <2>2. to - from \in Nat /\ from \in Nat /\ to \in Nat BY <1>3, <1>4, <1>5
  <2>3. s = [i \in 1 .. to - from |-> text[from + i]] BY <1>3, <1>4, <1>5, <2>1, <2>2
  <2>4. ASSUME NEW i \in 1 .. to - from PROVE text[from + i] \in Digits[b]
    <3>1. from + i - 1 \in from .. to - 1 BY <2>2
    <3>2. from + i - 1 + 1 = from + i /\ from + i \in 1 .. Len(text) BY <1>3, <1>5, <2>2
    <3>3. Char(text, from + i) \in Digits[b] BY <1>5, <3>1, <3>2
    <3>4. from + i \in DOMAIN text BY <3>2
    <3> QED BY <3>3, <3>4 DEF Char
  <2>5. s \in [1 .. to - from -> Digits[b]] BY <2>3, <2>4
  <2>6. PICK n \in Nat : n = to - from BY <2>2
  <2>7. s \in [1 .. n -> Digits[b]] BY <2>5, <2>6
  <2>8. s \in Seq(Digits[b]) BY <2>7
  <2> QED BY <2>1, <2>8
<1> QED BY <1>1, <1>2, <1>5, <1>7, <1>8, <1>3, <1>4 DEF DigitsAt

\* What a number can become.
LEMMA NumberTokenIs ==
  ASSUME NEW text \in Seq(STRING), NEW pos \in 0 .. Len(text), pos # Len(text),
         Char(text, pos + 1) \in Digit
  PROVE  /\ NumberToken(text, pos).end = DigitsTo(text, pos)
         /\ NumberToken(text, pos).type \in {"NUMBER", "INVALID"}
         /\ IsToken(NumberToken(text, pos))
<1>1. PICK n : n = NumberOf(DigitsAt(text, pos), Base(text, pos)) OBVIOUS
<1>2. n \in Numbers BY <1>1, DigitsSpan, NumberType
<1>3. NumberToken(text, pos) =
        IF n # TooLarge THEN Token("NUMBER", DigitsTo(text, pos), n)
        ELSE IF LongIsWide THEN Token("INVALID", DigitsTo(text, pos), 0)
        ELSE Token("NUMBER", DigitsTo(text, pos), INT32_MAX)
      BY <1>1, Zenon DEF NumberToken, DigitsAt, DigitsFrom, DigitsTo
<1>4. n # TooLarge => n \in Nat BY <1>2, MaxIsNatural DEF Numbers
<1> QED BY <1>3, <1>4, MaxIsNatural DEF Token, IsToken

WordTo(text, pos) == FirstStop(pos, Len(text), Outside(text, WordChar))

WordAt(text, pos) == WordToken(SubSeq(text, pos + 1, WordTo(text, pos)), WordTo(text, pos))

\* Which of the branches is taken.
LEMMA TokenBranches ==
  ASSUME NEW text \in Seq(STRING), NEW pos \in 0 .. Len(text), NEW c, c = Char(text, pos + 1)
  PROVE  /\ pos = Len(text) => TokenAt(text, pos) = Token("EOF", pos, 0)
         /\ pos # Len(text) /\ c \in DOMAIN Punctuation =>
              TokenAt(text, pos) = Token(Punctuation[c], pos + 1, 0)
         /\ pos # Len(text) /\ c \in WordStart => TokenAt(text, pos) = WordAt(text, pos)
         /\ pos # Len(text) /\ c \in Digit => TokenAt(text, pos) = NumberToken(text, pos)
         /\ pos # Len(text) /\ c \notin DOMAIN Punctuation \cup WordStart \cup Digit =>
              TokenAt(text, pos) = Token("INVALID", pos + 1, 0)
<1>1. DOMAIN Punctuation = {",", ":", "[", "]", "\n"} BY DEF Punctuation
<1>2. \A x \in WordChar : x \notin DOMAIN Punctuation BY <1>1, WordCharsAre
<1>3. \A x \in Digit : x \notin WordStart
  <2>1. \A x \in Digit : x \notin Capitals /\ x # "_" BY DigitsAre DEF Capitals
  <2>2. \A x \in Digit : x \notin SmallLetters BY DigitsAre DEF SmallLetters
  <2> QED BY <2>1, <2>2, SmallIs, Zenon DEF WordStart
<1>4. TokenAt(text, pos) =
        CASE pos = Len(text) -> Token("EOF", pos, 0)
          [] c \in DOMAIN Punctuation -> Token(Punctuation[c], pos + 1, 0)
          [] c \in WordStart -> WordAt(text, pos)
          [] c \in Digit -> NumberToken(text, pos)
          [] OTHER -> Token("INVALID", pos + 1, 0)
      BY Zenon DEF TokenAt, WordAt, WordTo
<1>5. /\ c \in DOMAIN Punctuation => c \notin WordStart /\ c \notin Digit
      /\ c \in Digit => c \notin WordStart
      BY <1>2, <1>3, Zenon DEF WordChar
<1>6. pos = Len(text) => TokenAt(text, pos) = Token("EOF", pos, 0)
  <2>1. CASE pos = Len(text)
    <3>1. pos + 1 \notin DOMAIN text BY <2>1
    <3>2. c = "" BY <3>1 DEF Char
    <3>3. c \notin DOMAIN Punctuation /\ c \notin WordChar BY <1>1, <3>2, WordCharsAre
    <3> QED BY <1>4, <2>1, <3>3, Zenon DEF WordChar
  <2> QED BY <2>1
<1>7. pos # Len(text) /\ c \in DOMAIN Punctuation =>
        TokenAt(text, pos) = Token(Punctuation[c], pos + 1, 0)
      BY <1>4, <1>5, Zenon
<1>8. pos # Len(text) /\ c \in WordStart => TokenAt(text, pos) = WordAt(text, pos)
      BY <1>4, <1>5, Zenon
<1>9. pos # Len(text) /\ c \in Digit => TokenAt(text, pos) = NumberToken(text, pos)
      BY <1>4, <1>5, Zenon
<1>10. pos # Len(text) /\ c \notin DOMAIN Punctuation \cup WordStart \cup Digit =>
         TokenAt(text, pos) = Token("INVALID", pos + 1, 0)
       BY <1>4, Zenon
<1> QED BY <1>6, <1>7, <1>8, <1>9, <1>10

\* A token moves the position on, unless it is EOF, and exists.
LEMMA TokenAtIs ==
  ASSUME NEW text \in Seq(STRING), NEW pos \in 0 .. Len(text)
  PROVE  /\ TokenAt(text, pos).end \in pos .. Len(text)
         /\ pos # Len(text) => TokenAt(text, pos).end # pos
         /\ TokenAt(text, pos).type = "EOF" <=> pos = Len(text)
         /\ IsToken(TokenAt(text, pos))
<1>1. PICK c : c = Char(text, pos + 1) OBVIOUS
<1>2. Len(text) \in Nat /\ pos \in Nat OBVIOUS
<1>3. CASE pos = Len(text)
  <2>1. TokenAt(text, pos) = Token("EOF", pos, 0) BY <1>1, <1>3, TokenBranches
  <2> QED BY <1>2, <1>3, <2>1 DEF Token, IsToken
<1>4. CASE pos # Len(text) /\ c \in DOMAIN Punctuation
  <2>1. TokenAt(text, pos) = Token(Punctuation[c], pos + 1, 0) BY <1>1, <1>4, TokenBranches
  <2>2. PICK type \in {"COMMA", "COLON", "LBRACKET", "RBRACKET", "NEWLINE"} :
          type = Punctuation[c]
        BY <1>4 DEF Punctuation
  <2>3. TokenAt(text, pos) = Token(type, pos + 1, 0) BY <2>1, <2>2
  <2> QED BY <1>2, <1>4, <2>3 DEF Token, IsToken
<1>5. CASE pos # Len(text) /\ c \in WordStart
  <2>1. TokenAt(text, pos) = WordAt(text, pos) BY <1>1, <1>5, TokenBranches
  <2>2. PICK p : p = WordTo(text, pos) OBVIOUS
  <2>3. /\ p \in pos .. Len(text)
        /\ p = Len(text) \/ Char(text, p + 1) \notin WordChar
        BY <2>2, OutsideStops DEF WordTo
  <2>4. p # pos BY <1>1, <1>5, <2>3 DEF WordChar
  <2> QED BY <1>5, <2>1, <2>2, <2>3, <2>4, WordTokenIs DEF WordAt, Words
<1>6. CASE pos # Len(text) /\ c \in Digit
  <2>1. TokenAt(text, pos) = NumberToken(text, pos) BY <1>1, <1>6, TokenBranches
  <2>2. PICK p : p = DigitsTo(text, pos) OBVIOUS
  <2>3. p \in pos + 1 .. Len(text) BY <1>1, <1>6, <2>2, DigitsSpan
  <2> QED BY <1>1, <1>2, <1>6, <2>1, <2>2, <2>3, NumberTokenIs
<1>7. CASE pos # Len(text) /\ c \notin DOMAIN Punctuation \cup WordStart \cup Digit
  <2>1. TokenAt(text, pos) = Token("INVALID", pos + 1, 0) BY <1>1, <1>7, TokenBranches
  <2> QED BY <1>2, <1>7, <2>1 DEF Token, IsToken
<1> QED BY <1>3, <1>4, <1>5, <1>6, <1>7, Zenon

\* What rsm_lexer_tokenize returns, wherever it is called.
LEMMA TokenIs ==
  ASSUME NEW text \in Seq(STRING), NEW pos \in 0 .. Len(text),
         NEW t, t = rsm_lexer_tokenize(text, pos)
  PROVE  /\ t.end \in pos .. Len(text)
         /\ t.type # "EOF" => t.end > pos
         /\ IsToken(t)
<1>1. PICK p : p = SkipBlanks(text, pos) OBVIOUS
<1>2. p \in pos .. Len(text) BY <1>1, Skipped DEF IsFirstStop
<1>3. Len(text) \in Nat /\ pos \in Nat /\ p \in 0 .. Len(text) BY <1>2
<1>4. t = TokenAt(text, p) BY <1>1 DEF rsm_lexer_tokenize
<1> QED BY <1>2, <1>3, <1>4, TokenAtIs

-----------------------------------------------------------------------------
(***************************************************************************)
(* The tokens of a text.                                                   *)
(***************************************************************************)
Found(text) == {rsm_lexer_tokenize(text, pos) : pos \in 0 .. Len(text)}

\* ts is what the calls return from pos on.
IsRun(text, pos, ts) ==
  /\ ts \in Seq(Found(text))
  /\ Len(ts) \in Nat \ {0}
  /\ ts[1] = rsm_lexer_tokenize(text, pos)
  /\ \A n \in 1 .. Len(ts) - 1 :
       ts[n].type # "EOF" /\ ts[n + 1] = rsm_lexer_tokenize(text, ts[n].end)
  /\ ts[Len(ts)].type = "EOF"

\* At the end of the text there is one more token.
LEMMA RunOfOne ==
  ASSUME NEW text, NEW pos \in 0 .. Len(text),
         NEW t, t = rsm_lexer_tokenize(text, pos), t.type = "EOF"
  PROVE  IsRun(text, pos, <<t>>)
<1>1. t \in Found(text) BY DEF Found
<1>2. PICK ts : ts = <<t>> OBVIOUS
<1>3. ts \in Seq(Found(text)) /\ Len(ts) = 1 /\ ts[1] = t BY <1>1, <1>2
<1> QED BY <1>2, <1>3 DEF IsRun

\* Elsewhere, one more than behind the first.
LEMMA RunOfMore ==
  ASSUME NEW text, NEW pos \in 0 .. Len(text),
         NEW t, t = rsm_lexer_tokenize(text, pos), t.type # "EOF",
         NEW rest, IsRun(text, t.end, rest)
  PROVE  IsRun(text, pos, <<t>> \o rest)
<1>1. t \in Found(text) BY DEF Found
<1>2. PICK one : one = <<t>> OBVIOUS
<1>3. one \in Seq(Found(text)) /\ Len(one) = 1 /\ one[1] = t BY <1>1, <1>2
<1>4. rest \in Seq(Found(text)) /\ Len(rest) \in Nat \ {0} BY DEF IsRun
<1>5. PICK ts : ts = one \o rest OBVIOUS
<1>6. /\ ts \in Seq(Found(text))
      /\ Len(ts) = Len(one) + Len(rest)
      /\ \A i \in 1 .. Len(one) + Len(rest) :
           ts[i] = IF i <= Len(one) THEN one[i] ELSE rest[i - Len(one)]
      BY <1>3, <1>4, <1>5, ConcatProperties, Zenon
<1>7. /\ Len(ts) = Len(rest) + 1
      /\ ts[1] = t
      /\ \A i \in 1 .. Len(rest) : ts[i + 1] = rest[i]
  <2>1. Len(ts) = Len(rest) + 1 BY <1>3, <1>4, <1>6
  <2>2. ts[1] = t BY <1>3, <1>4, <1>6
  <2>3. ASSUME NEW i \in 1 .. Len(rest) PROVE ts[i + 1] = rest[i]
    <3>1. i + 1 \in 1 .. Len(one) + Len(rest) /\ ~(i + 1 <= Len(one)) /\ i + 1 - Len(one) = i
          BY <1>3, <1>4
    <3> QED BY <1>6, <3>1
  <2> QED BY <2>1, <2>2, <2>3
<1>8. ASSUME NEW n \in 1 .. Len(ts) - 1
      PROVE  ts[n].type # "EOF" /\ ts[n + 1] = rsm_lexer_tokenize(text, ts[n].end)
  <2>1. CASE n = 1
    <3>1. ts[2] = rest[1] BY <1>4, <1>7
    <3> QED BY <1>7, <2>1, <3>1 DEF IsRun
  <2>2. CASE n # 1
    <3>1. PICK m \in 1 .. Len(rest) - 1 : n = m + 1 BY <1>4, <1>7, <2>2
    <3>2. m \in 1 .. Len(rest) /\ m + 1 \in 1 .. Len(rest) BY <1>4
    <3>3. ts[n] = rest[m] /\ ts[n + 1] = rest[m + 1] BY <1>7, <3>1, <3>2
    <3> QED BY <3>3 DEF IsRun
  <2> QED BY <2>1, <2>2
<1>9. ts[Len(ts)].type = "EOF"
  <2>1. Len(rest) \in 1 .. Len(rest) BY <1>4
  <2>2. ts[Len(ts)] = rest[Len(rest)] BY <1>7, <2>1
  <2> QED BY <2>2 DEF IsRun
<1> QED BY <1>2, <1>4, <1>5, <1>6, <1>7, <1>8, <1>9 DEF IsRun

\* The tokens from each position on, in terms of those from later ones.
FromHere(text, pos, g) ==
  LET t == rsm_lexer_tokenize(text, pos)
  IN  IF t.type = "EOF" THEN <<t>> ELSE <<t>> \o g[t.end]

IsFrom(text, S, g) == g = [pos \in S |-> FromHere(text, pos, g)]

\* They exist, since each token ends behind the place where it was asked for.
LEMMA FromExists ==
  ASSUME NEW text \in Seq(STRING)
  PROVE  \E g : IsFrom(text, 0 .. Len(text), g)
<1>0. PICK N \in Nat : N = Len(text) OBVIOUS
<1> DEFINE S == {k \in 0 .. N : \E g : IsFrom(text, N - k .. N, g)}
<1>1. 0 \in S
  <2>1. PICK t : t = rsm_lexer_tokenize(text, N) OBVIOUS
  <2>2. t.end \in N .. N /\ (t.type # "EOF" => t.end > N) BY <1>0, <2>1, TokenIs
  <2>3. t.type = "EOF" BY <2>2
  <2>4. PICK g : g = [pos \in N .. N |-> <<t>>] OBVIOUS
  <2>5. \A pos \in N .. N : pos = N BY <1>0
  <2>6. \A pos \in N .. N : FromHere(text, pos, g) = <<t>> BY <2>1, <2>3, <2>5 DEF FromHere
  <2>7. IsFrom(text, N .. N, g) BY <2>4, <2>6 DEF IsFrom
  <2>8. N - 0 = N BY <1>0
  <2> QED BY <2>7, <2>8
<1>2. ASSUME NEW k \in 1 .. N, k - 1 \in S PROVE k \in S
  <2>1. PICK g : IsFrom(text, N - (k - 1) .. N, g) BY <1>2
  <2>2. PICK p : p = N - k OBVIOUS
  <2>3. p \in 0 .. N /\ p \in Nat /\ N - (k - 1) = p + 1 /\ k \in 0 .. N BY <1>0, <2>2
  <2>4. IsFrom(text, p + 1 .. N, g) BY <2>1, <2>3
  <2>5. PICK h : h = [pos \in p .. N |-> IF pos = p THEN FromHere(text, p, g) ELSE g[pos]] OBVIOUS
  <2>6. \A pos \in p + 1 .. N : h[pos] = g[pos] BY <1>0, <2>3, <2>5
  <2>7. ASSUME NEW pos \in p .. N PROVE FromHere(text, pos, h) = FromHere(text, pos, g)
    <3>1. PICK t : t = rsm_lexer_tokenize(text, pos) OBVIOUS
    <3>2. pos \in 0 .. Len(text) BY <1>0, <2>3
    <3>3. t.end \in pos .. N /\ (t.type # "EOF" => t.end > pos) BY <1>0, <3>1, <3>2, TokenIs
    <3>4. t.type # "EOF" => t.end \in p + 1 .. N BY <1>0, <2>3, <3>3
    <3>5. t.type # "EOF" => h[t.end] = g[t.end] BY <2>6, <3>4
    <3> QED BY <3>1, <3>5 DEF FromHere
  <2>8. ASSUME NEW pos \in p .. N PROVE h[pos] = FromHere(text, pos, h)
    <3>1. CASE pos = p BY <2>5, <2>7, <3>1
    <3>2. CASE pos # p
      <4>1. pos \in p + 1 .. N BY <1>0, <2>3, <3>2
      <4>2. g[pos] = FromHere(text, pos, g) BY <2>4, <4>1 DEF IsFrom
      <4> QED BY <2>6, <2>7, <4>1, <4>2
    <3> QED BY <3>1, <3>2
  <2>9. h = [pos \in p .. N |-> h[pos]] BY <2>5
  <2>10. IsFrom(text, p .. N, h) BY <2>8, <2>9 DEF IsFrom
  <2> QED BY <2>2, <2>3, <2>10
<1> HIDE DEF S
<1>3. N \in S
  <2>1. 0 .. N \subseteq S BY <1>0, <1>1, <1>2, UpTo
  <2>2. N \in 0 .. N BY <1>0
  <2> QED BY <2>1, <2>2
<1>4. N - N = 0 BY <1>0
<1> QED BY <1>0, <1>3, <1>4 DEF S

\* They are what the calls return.
LEMMA FromIsRun ==
  ASSUME NEW text \in Seq(STRING), NEW g, IsFrom(text, 0 .. Len(text), g)
  PROVE  \A pos \in 0 .. Len(text) : IsRun(text, pos, g[pos])
<1>0. PICK N \in Nat : N = Len(text) OBVIOUS
<1> DEFINE Bad == {k \in 0 .. N : ~IsRun(text, N - k, g[N - k])}
<1>1. ASSUME Bad # {} PROVE FALSE
  <2>1. Bad \subseteq Nat OBVIOUS
  <2>2. PICK k \in Bad : \A l \in Bad : k <= l BY <1>1, <2>1, LeastOf
  <2>3. PICK pos \in 0 .. N : pos = N - k BY <1>0
  <2>4. PICK t : t = rsm_lexer_tokenize(text, pos) OBVIOUS
  <2>5. t.end \in pos .. N /\ (t.type # "EOF" => t.end > pos) BY <1>0, <2>4, TokenIs
  <2>6. g[pos] = IF t.type = "EOF" THEN <<t>> ELSE <<t>> \o g[t.end]
        BY <1>0, <2>4 DEF IsFrom, FromHere
  <2>7. CASE t.type = "EOF"
    <3>1. IsRun(text, pos, g[pos]) BY <1>0, <2>4, <2>6, <2>7, RunOfOne
    <3> QED BY <2>3, <3>1
  <2>8. CASE t.type # "EOF"
    <3>1. PICK e \in 0 .. N : e = t.end BY <1>0, <2>5
    <3>2. N - e \in 0 .. N /\ N - (N - e) = e /\ ~(k <= N - e)
          BY <1>0, <2>3, <2>5, <2>8, <3>1
    <3>3. IsRun(text, e, g[e]) BY <2>2, <3>2
    <3>4. IsRun(text, pos, g[pos]) BY <1>0, <2>4, <2>6, <2>8, <3>1, <3>3, RunOfMore
    <3> QED BY <2>3, <3>4
  <2> QED BY <2>7, <2>8
<1>2. ASSUME NEW pos \in 0 .. N PROVE IsRun(text, pos, g[pos])
  <2>1. N - pos \in 0 .. N /\ N - (N - pos) = pos BY <1>0
  <2> QED BY <1>1, <2>1
<1> QED BY <1>0, <1>2

\* So are the tokens of the text.
LEMMA TokensRun ==
  ASSUME NEW text \in Seq(STRING)
  PROVE  IsRun(text, 0, Tokens(text))
<1>1. PICK g : g = CHOOSE f : IsFrom(text, 0 .. Len(text), f) OBVIOUS
<1>2. IsFrom(text, 0 .. Len(text), g) BY <1>1, FromExists
<1>3. Tokens(text) = g[0] BY <1>1, Zenon DEF Tokens, IsFrom, FromHere
<1>4. 0 \in 0 .. Len(text) OBVIOUS
<1> QED BY <1>2, <1>3, <1>4, FromIsRun

\* What the parser relies on: for every text, the calls of rsm_lexer_tokenize
\* return opcodes and registers that exist and numbers that are not negative,
\* and they reach EOF, which is the last of them and the only one.
THEOREM LexerReturnsTokens ==
  ASSUME NEW text \in Seq(STRING)
  PROVE  IsTokens(Tokens(text))
<1>1. PICK ts : ts = Tokens(text) OBVIOUS
<1>2. IsRun(text, 0, ts) BY <1>1, TokensRun
<1>3. ts \in Seq(Found(text)) /\ Len(ts) \in Nat \ {0} BY <1>2 DEF IsRun
<1>4. DOMAIN ts = 1 .. Len(ts) BY <1>3
<1>5. ASSUME NEW n \in DOMAIN ts PROVE IsToken(ts[n]) /\ (ts[n].type = "EOF" <=> n = Len(ts))
  <2>1. ts[n] \in Found(text) BY <1>3, <1>4
  <2>2. IsToken(ts[n]) BY <2>1, TokenIs DEF Found
  <2>3. n # Len(ts) => n \in 1 .. Len(ts) - 1 BY <1>3, <1>4
  <2> QED BY <1>2, <2>2, <2>3 DEF IsRun
<1> QED BY <1>1, <1>3, <1>4, <1>5 DEF IsTokens

-----------------------------------------------------------------------------
(***************************************************************************)
(* Where tokens end.                                                       *)
(***************************************************************************)
EndsWord(text, end) == end = Len(text) \/ Char(text, end + 1) \notin WordChar

\* A word is read to its end.
LEMMA WordsEnd ==
  ASSUME NEW text \in Seq(STRING), NEW pos \in 0 .. Len(text),
         NEW t, t = rsm_lexer_tokenize(text, pos), t.type \in Words
  PROVE  EndsWord(text, t.end)
<1>1. PICK p : p = SkipBlanks(text, pos) OBVIOUS
<1>2. p \in pos .. Len(text) BY <1>1, Skipped DEF IsFirstStop
<1>3. p \in 0 .. Len(text) BY <1>2
<1>4. t = TokenAt(text, p) BY <1>1 DEF rsm_lexer_tokenize
<1>5. PICK c : c = Char(text, p + 1) OBVIOUS
<1>6. p # Len(text) /\ c \in WordStart
  <2>1. p # Len(text) BY <1>3, <1>4, TokenAtIs DEF Words
  <2>2. c \notin DOMAIN Punctuation
    <3>1. ASSUME c \in DOMAIN Punctuation PROVE FALSE
      <4>1. t = Token(Punctuation[c], p + 1, 0) BY <1>3, <1>4, <1>5, <2>1, <3>1, TokenBranches
      <4>2. t.type = Punctuation[c] BY <4>1 DEF Token
      <4> QED BY <3>1, <4>2 DEF Punctuation, Words
    <3> QED BY <3>1
  <2>3. c \notin Digit
    <3>1. ASSUME c \in Digit PROVE FALSE
      <4>1. t = NumberToken(text, p) BY <1>3, <1>4, <1>5, <2>1, <3>1, TokenBranches
      <4> QED BY <1>3, <1>5, <2>1, <3>1, <4>1, NumberTokenIs DEF Words
    <3> QED BY <3>1
  <2>4. c \in DOMAIN Punctuation \cup WordStart \cup Digit
    <3>1. ASSUME c \notin DOMAIN Punctuation \cup WordStart \cup Digit PROVE FALSE
      <4>1. t = Token("INVALID", p + 1, 0) BY <1>3, <1>4, <1>5, <2>1, <3>1, TokenBranches
      <4> QED BY <4>1 DEF Token, Words
    <3> QED BY <3>1
  <2> QED BY <2>1, <2>2, <2>3, <2>4
<1>7. t = WordAt(text, p) BY <1>3, <1>4, <1>5, <1>6, TokenBranches
<1>8. t.end = WordTo(text, p) BY <1>7, WordTokenIs DEF WordAt
<1> QED BY <1>3, <1>8, OutsideStops DEF WordTo, EndsWord

\* Behind a token that ends in the middle of a word is the rest of the word.
LEMMA RestOfWord ==
  ASSUME NEW text \in Seq(STRING), NEW pos \in 0 .. Len(text), ~EndsWord(text, pos)
  PROVE  rsm_lexer_tokenize(text, pos).type \in Words \cup {"NUMBER", "INVALID"}
<1>1. PICK c : c = Char(text, pos + 1) OBVIOUS
<1>2. pos # Len(text) /\ c \in WordChar BY <1>1 DEF EndsWord
<1>3. c \notin Blank /\ c # ";" BY <1>2, WordCharsAre
<1>4. pos \in Starts(text, pos)
  <2>1. pos \in Outside(text, Blank) BY <1>1, <1>3 DEF Outside
  <2>2. \A q \in pos .. pos : q = pos OBVIOUS
  <2>3. ~InComment(text, pos, pos) BY <1>1, <1>3, <2>2 DEF InComment
  <2> QED BY <2>1, <2>3 DEF Starts
<1>5. IsFirstStop(pos, pos, Len(text), Starts(text, pos))
  <2>1. pos \in pos .. Len(text) /\ pos .. pos - 1 = {} OBVIOUS
  <2> QED BY <1>4, <2>1 DEF IsFirstStop
<1>6. pos = SkipBlanks(text, pos)
  <2>1. pos \in Nat /\ Len(text) \in Nat /\ pos <= Len(text) OBVIOUS
  <2> QED BY <1>5, <2>1, OneFirstStop DEF SkipBlanks, Starts
<1>7. rsm_lexer_tokenize(text, pos) = TokenAt(text, pos) BY <1>6 DEF rsm_lexer_tokenize
<1>8. CASE c \in WordStart
  <2>1. TokenAt(text, pos) = WordAt(text, pos) BY <1>1, <1>2, <1>8, TokenBranches
  <2> QED BY <1>7, <2>1, WordTokenIs DEF WordAt
<1>9. CASE c \in Digit
  <2>1. TokenAt(text, pos) = NumberToken(text, pos) BY <1>1, <1>2, <1>9, TokenBranches
  <2> QED BY <1>1, <1>2, <1>7, <1>9, <2>1, NumberTokenIs
<1> QED BY <1>2, <1>8, <1>9 DEF WordChar

\* A number or a word that ends in the middle of a word is followed by its rest.
LEMMA HalvesAreSeen ==
  ASSUME NEW text \in Seq(STRING), NEW ts, ts = Tokens(text),
         NEW n, n \in DOMAIN ts, ts[n].type \in Words \cup {"NUMBER"},
         ~EndsWord(text, ts[n].end)
  PROVE  /\ ts[n].type = "NUMBER" /\ n + 1 \in DOMAIN ts
         /\ ts[n + 1].type \in Words \cup {"NUMBER", "INVALID"}
<1>1. IsRun(text, 0, ts) BY TokensRun
<1>2. ts \in Seq(Found(text)) /\ Len(ts) \in Nat \ {0} /\ DOMAIN ts = 1 .. Len(ts)
      BY <1>1 DEF IsRun
<1>3. PICK pos \in 0 .. Len(text) : ts[n] = rsm_lexer_tokenize(text, pos)
  <2>1. ts[n] \in Found(text) BY <1>2
  <2> QED BY <2>1 DEF Found
<1>4. ts[n].type \notin Words BY <1>3, WordsEnd
<1>5. n # Len(ts) BY <1>1, <1>4 DEF IsRun
<1>6. n \in 1 .. Len(ts) - 1 /\ n + 1 \in DOMAIN ts BY <1>2, <1>5
<1>7. ts[n + 1] = rsm_lexer_tokenize(text, ts[n].end) BY <1>1, <1>6 DEF IsRun
<1>8. ts[n].end \in 0 .. Len(text) BY <1>3, TokenIs
<1> QED BY <1>4, <1>6, <1>7, <1>8, RestOfWord

-----------------------------------------------------------------------------
(***************************************************************************)
(* Comments.  at maps the positions of a text to those of the text without *)
(* its comments, and within says which of its characters are in a comment. *)
(***************************************************************************)
\* bare is text without the characters within comments.
Without(text, bare, at, within) ==
  /\ bare \in Seq(STRING)
  /\ at \in [0 .. Len(text) -> 0 .. Len(bare)] /\ within \subseteq 0 .. Len(text)
  /\ at[0] = 0 /\ at[Len(text)] = Len(bare) /\ 0 \notin within
  /\ \A n \in 1 .. Len(text) :
       /\ n \in within <=> text[n] # "\n" /\ (n - 1 \in within \/ text[n] = ";")
       /\ n \in within => at[n] = at[n - 1]
       /\ n \notin within => at[n] = at[n - 1] + 1 /\ bare[at[n]] = text[n]

\* What reading a character makes of the text before it.
ReadChar(before, c) ==
  LET in == c # "\n" /\ (before.in \/ c = ";")
  IN  [kept |-> IF in THEN before.kept ELSE Append(before.kept, c), in |-> in]

Kept == [kept : Seq(STRING), in : BOOLEAN]

IsBareUpto(text, u) ==
  u = [n \in 0 .. Len(text) |-> IF n = 0 THEN [kept |-> <<>>, in |-> FALSE]
                                ELSE ReadChar(u[n - 1], text[n])]

\* A character is kept, or it is in a comment.
LEMMA ReadCharType ==
  ASSUME NEW k \in Kept, NEW c \in STRING
  PROVE  /\ ReadChar(k, c) \in Kept
         /\ ReadChar(k, c).in <=> c # "\n" /\ (k.in \/ c = ";")
         /\ ReadChar(k, c).in => ReadChar(k, c).kept = k.kept
         /\ ~ReadChar(k, c).in => ReadChar(k, c).kept = Append(k.kept, c)
<1>1. k.kept \in Seq(STRING) /\ Append(k.kept, c) \in Seq(STRING) BY DEF Kept
<1>2. CASE c # "\n" /\ (k.in \/ c = ";")
  <2>1. PICK r : r = ReadChar(k, c) OBVIOUS
  <2>2. r = [kept |-> k.kept, in |-> TRUE] BY <1>2, <2>1, Zenon DEF ReadChar
  <2>3. r \in Kept BY <1>1, <2>2 DEF Kept
  <2>4. r.in /\ r.kept = k.kept BY <2>2
  <2> QED BY <1>2, <2>1, <2>3, <2>4
<1>3. CASE ~(c # "\n" /\ (k.in \/ c = ";"))
  <2>1. PICK r : r = ReadChar(k, c) OBVIOUS
  <2>2. r = [kept |-> Append(k.kept, c), in |-> FALSE] BY <1>3, <2>1, Zenon DEF ReadChar
  <2>3. r \in Kept BY <1>1, <2>2 DEF Kept
  <2>4. ~r.in /\ r.kept = Append(k.kept, c) BY <2>2
  <2> QED BY <1>3, <2>1, <2>3, <2>4
<1> QED BY <1>2, <1>3

\* The function by which Bare is defined.
LEMMA BareUpto ==
  ASSUME NEW text \in Seq(STRING)
  PROVE  \E u \in [0 .. Len(text) -> Kept] :
           /\ IsBareUpto(text, u)
           /\ Bare(text) = u[Len(text)].kept
<1>0. PICK N \in Nat : N = Len(text) OBVIOUS
<1>1. PICK f : f = [n \in 1 .. N |-> [k \in Kept |-> ReadChar(k, text[n])]] OBVIOUS
<1>2. PICK first : first = [kept |-> <<>>, in |-> FALSE] OBVIOUS
<1>3. first \in Kept BY <1>2 DEF Kept
<1>4. \A n \in 1 .. N : text[n] \in STRING BY <1>0
<1>5. f \in Steps(N, Kept) BY <1>1, <1>4, ReadCharType DEF Steps
<1>6. PICK g : GivenBy(g, N, Kept, first, f) BY <1>3, <1>5, StepByStep
<1>7. IsBareUpto(text, g)
  <2>1. g \in [0 .. N -> Kept] /\ g[0] = first BY <1>6 DEF GivenBy
  <2>2. ASSUME NEW n \in 1 .. N PROVE g[n] = ReadChar(g[n - 1], text[n])
    <3>1. g[n - 1] \in Kept BY <2>1
    <3> QED BY <1>1, <1>6, <3>1 DEF GivenBy
  <2>3. \A n \in 0 .. N : n # 0 => n \in 1 .. N OBVIOUS
  <2>4. g = [n \in 0 .. N |-> g[n]] BY <2>1
  <2>5. \A n \in 0 .. N : g[n] = IF n = 0 THEN first ELSE ReadChar(g[n - 1], text[n])
        BY <2>1, <2>2, <2>3
  <2> QED BY <1>0, <1>2, <2>4, <2>5 DEF IsBareUpto
<1>8. PICK u : u = CHOOSE h : IsBareUpto(text, h) OBVIOUS
<1>9. IsBareUpto(text, u) BY <1>7, <1>8
<1>10. Bare(text) = u[N].kept BY <1>0, <1>8, Zenon DEF Bare, IsBareUpto, ReadChar
<1>11. u \in [0 .. N -> Kept]
  <2> DEFINE S == {n \in 0 .. N : u[n] \in Kept}
  <2>1. \A n \in 0 .. N : u[n] = IF n = 0 THEN first ELSE ReadChar(u[n - 1], text[n])
        BY <1>0, <1>2, <1>9 DEF IsBareUpto
  <2>2. 0 \in S BY <1>3, <2>1
  <2>3. ASSUME NEW n \in 1 .. N, n - 1 \in S PROVE n \in S
    <3>1. u[n] = ReadChar(u[n - 1], text[n]) BY <2>1
    <3>2. u[n - 1] \in Kept BY <2>3
    <3>3. u[n] \in Kept
      <4>1. PICK k \in Kept : k = u[n - 1] BY <3>2
      <4>2. PICK c \in STRING : c = text[n] BY <1>4
      <4>3. ReadChar(k, c) \in Kept BY ReadCharType
      <4> QED BY <3>1, <4>1, <4>2, <4>3, Zenon
    <3>4. n \in 0 .. N OBVIOUS
    <3> QED BY <3>3, <3>4
  <2> HIDE DEF S
  <2>4. 0 .. N \subseteq S BY <2>2, <2>3, UpTo
  <2>5. \A n \in 0 .. N : u[n] \in Kept BY <2>4 DEF S
  <2>6. u = [n \in 0 .. N |-> u[n]] BY <1>0, <1>9 DEF IsBareUpto
  <2> QED BY <2>5, <2>6
<1> QED BY <1>0, <1>9, <1>10, <1>11

\* The old characters and the new one.
LEMMA Appended ==
  ASSUME NEW old \in Seq(STRING), NEW c \in STRING
  PROVE  /\ Len(Append(old, c)) = Len(old) + 1 /\ Append(old, c)[Len(old) + 1] = c
         /\ \A i \in 1 .. Len(old) : Append(old, c)[i] = old[i]
<1>1. PICK new : new = Append(old, c) OBVIOUS
<1>2. /\ Len(new) = Len(old) + 1
      /\ \A i \in 1 .. Len(old) : new[i] = old[i]
      /\ new[Len(old) + 1] = c
      BY <1>1, AppendProperties, Zenon
<1> QED BY <1>1, <1>2, Zenon

\* Bare leaves out what is in a comment and nothing else.
LEMMA BareIs ==
  ASSUME NEW text \in Seq(STRING)
  PROVE  \E at, within : Without(text, Bare(text), at, within)
<1>0. PICK N \in Nat : N = Len(text) OBVIOUS
<1>a. \A n \in 1 .. N : text[n] \in STRING BY <1>0
<1>1. PICK u \in [0 .. N -> Kept] : IsBareUpto(text, u) /\ Bare(text) = u[N].kept
      BY <1>0, BareUpto
<1>2. PICK at : at = [n \in 0 .. N |-> Len(u[n].kept)] OBVIOUS
<1>3. PICK within : within = {n \in 0 .. N : u[n].in} OBVIOUS
<1>4. \A n \in 0 .. N : u[n].kept \in Seq(STRING) /\ u[n].in \in BOOLEAN /\ at[n] = Len(u[n].kept)
      BY <1>2 DEF Kept
<1>5. u[0].kept = <<>> /\ ~u[0].in /\ at[0] = 0 BY <1>0, <1>1, <1>2 DEF IsBareUpto
<1>6. ASSUME NEW n \in 1 .. N
      PROVE  /\ u[n].in <=> text[n] # "\n" /\ (u[n - 1].in \/ text[n] = ";")
             /\ u[n].in => u[n].kept = u[n - 1].kept
             /\ ~u[n].in => u[n].kept = Append(u[n - 1].kept, text[n])
  <2>1. n \in 0 .. N /\ n # 0 /\ n - 1 \in 0 .. N BY <1>0
  <2>2. u[n] = ReadChar(u[n - 1], text[n]) BY <1>0, <1>1, <2>1 DEF IsBareUpto
  <2>3. PICK k \in Kept : k = u[n - 1] BY <1>1, <2>1
  <2>4. PICK c \in STRING : c = text[n] BY <1>a
  <2>5. /\ ReadChar(k, c).in <=> c # "\n" /\ (k.in \/ c = ";")
        /\ ReadChar(k, c).in => ReadChar(k, c).kept = k.kept
        /\ ~ReadChar(k, c).in => ReadChar(k, c).kept = Append(k.kept, c)
        BY ReadCharType
  <2> QED BY <2>2, <2>3, <2>4, <2>5, Zenon
<1> DEFINE Prefix(m, n) == /\ Len(u[m].kept) <= Len(u[n].kept)
                           /\ \A i \in 1 .. Len(u[m].kept) : u[n].kept[i] = u[m].kept[i]
           S == {n \in 0 .. N : \A m \in 0 .. n : Prefix(m, n)}
<1> HIDE DEF Prefix, S
<1>7. 0 \in S
  <2>1. \A m \in 0 .. 0 : m = 0 OBVIOUS
  <2>2. Prefix(0, 0) BY <1>5 DEF Prefix
  <2> QED BY <1>0, <2>1, <2>2 DEF S
<1>8. ASSUME NEW n \in 1 .. N, n - 1 \in S PROVE n \in S
  <2>1. n \in 0 .. N /\ n - 1 \in 0 .. N BY <1>0
  <2>2. PICK old \in Seq(STRING) : old = u[n - 1].kept BY <1>4, <2>1
  <2>3. PICK new \in Seq(STRING) : new = u[n].kept BY <1>4, <2>1
  <2>4. PICK c \in STRING : c = text[n] BY <1>a
  <2>5. new = old \/ new = Append(old, c) BY <1>6, <2>2, <2>3, <2>4, Zenon
  <2>6. Len(old) <= Len(new) /\ \A i \in 1 .. Len(old) : new[i] = old[i]
    <3>1. CASE new = old BY <3>1
    <3>2. CASE new = Append(old, c)
      <4>1. Len(new) = Len(old) + 1 BY <3>2, Appended, Zenon
      <4>2. \A i \in 1 .. Len(old) : new[i] = old[i] BY <3>2, Appended, Zenon
      <4> QED BY <4>1, <4>2
    <3> QED BY <2>5, <3>1, <3>2
  <2>7. ASSUME NEW m \in 0 .. n PROVE Prefix(m, n)
    <3>1. m \in 0 .. N BY <2>1
    <3>2. PICK from \in Seq(STRING) : from = u[m].kept BY <1>4, <3>1
    <3>3. CASE m = n BY <2>3, <3>2, <3>3 DEF Prefix
    <3>4. CASE m # n
      <4>1. m \in 0 .. n - 1 BY <1>0, <3>4
      <4>2. Prefix(m, n - 1) BY <1>8, <4>1 DEF S
      <4>3. Len(from) <= Len(old) /\ \A i \in 1 .. Len(from) : old[i] = from[i]
            BY <2>2, <3>2, <4>2 DEF Prefix
      <4>4. Len(from) <= Len(new) /\ \A i \in 1 .. Len(from) : new[i] = from[i]
            BY <2>6, <4>3
      <4> QED BY <2>3, <3>2, <4>4 DEF Prefix
    <3> QED BY <3>3, <3>4
  <2> QED BY <2>1, <2>7 DEF S
<1>9. \A m \in 0 .. N : Prefix(m, N)
  <2>1. 0 .. N \subseteq S BY <1>0, <1>7, <1>8, UpTo
  <2>2. N \in 0 .. N BY <1>0
  <2>3. N \in S BY <2>1, <2>2
  <2> QED BY <2>3 DEF S
<1>10. PICK bare \in Seq(STRING) : bare = Bare(text)
  <2>1. N \in 0 .. N BY <1>0
  <2> QED BY <1>1, <1>4, <2>1
<1>11. at \in [0 .. N -> 0 .. Len(bare)]
  <2>1. ASSUME NEW n \in 0 .. N PROVE at[n] \in 0 .. Len(bare)
    <3>1. PICK kept \in Seq(STRING) : kept = u[n].kept BY <1>4
    <3>2. Len(kept) <= Len(bare) BY <1>1, <1>9, <1>10, <3>1 DEF Prefix
    <3> QED BY <1>4, <3>1, <3>2
  <2> QED BY <1>2, <2>1
<1>12. at[N] = Len(bare) BY <1>0, <1>1, <1>4, <1>10
<1>13. within \subseteq 0 .. N /\ 0 \notin within
  <2>1. within \subseteq 0 .. N BY <1>3
  <2>2. 0 \notin within BY <1>0, <1>3, <1>5
  <2> QED BY <2>1, <2>2
<1>14. ASSUME NEW n \in 1 .. N
       PROVE  /\ n \in within <=> text[n] # "\n" /\ (n - 1 \in within \/ text[n] = ";")
              /\ n \in within => at[n] = at[n - 1]
              /\ n \notin within => at[n] = at[n - 1] + 1 /\ bare[at[n]] = text[n]
  <2>1. n \in 0 .. N /\ n - 1 \in 0 .. N BY <1>0
  <2>2. (n \in within <=> u[n].in) /\ (n - 1 \in within <=> u[n - 1].in) BY <1>3, <2>1
  <2>3. n \in within <=> text[n] # "\n" /\ (n - 1 \in within \/ text[n] = ";")
        BY <1>6, <2>2, Zenon
  <2>4. n \in within => at[n] = at[n - 1]
    <3>1. n \in within => u[n].kept = u[n - 1].kept BY <1>6, <2>2, Zenon
    <3> QED BY <1>4, <2>1, <3>1
  <2>5. ASSUME n \notin within PROVE at[n] = at[n - 1] + 1 /\ bare[at[n]] = text[n]
    <3>1. PICK old \in Seq(STRING) : old = u[n - 1].kept BY <1>4, <2>1
    <3>2. PICK c \in STRING : c = text[n] BY <1>a
    <3>3. PICK new \in Seq(STRING) : new = u[n].kept BY <1>4, <2>1
    <3>4. new = Append(old, c) BY <1>6, <2>2, <2>5, <3>1, <3>2, <3>3, Zenon
    <3>5. Len(new) = Len(old) + 1 /\ new[Len(old) + 1] = c BY <3>4, Appended, Zenon
    <3>6. at[n] = Len(new) /\ at[n - 1] = Len(old) BY <1>4, <2>1, <3>1, <3>3
    <3>7. Len(new) \in 1 .. Len(new) BY <3>5
    <3>8. bare[Len(new)] = new[Len(new)] BY <1>1, <1>9, <1>10, <2>1, <3>3, <3>7 DEF Prefix
    <3> QED BY <3>2, <3>5, <3>6, <3>8
  <2> QED BY <2>3, <2>4, <2>5
<1>15. Without(text, bare, at, within)
       BY <1>0, <1>5, <1>11, <1>12, <1>13, <1>14 DEF Without
<1> QED BY <1>10, <1>15

\* The same with Char, which has a value at every position.
Reads(text, bare, at, within, N, M) ==
  /\ at \in [0 .. N -> 0 .. M] /\ within \subseteq 0 .. N
  /\ at[0] = 0 /\ at[N] = M /\ 0 \notin within
  /\ \A n \in 1 .. N :
       /\ n \in within <=> Char(text, n) # "\n" /\ (n - 1 \in within \/ Char(text, n) = ";")
       /\ n \in within => at[n] = at[n - 1]
       /\ n \notin within => at[n] = at[n - 1] + 1 /\ Char(bare, at[n - 1] + 1) = Char(text, n)

\* Without says so.
LEMMA ReadOne ==
  ASSUME NEW text \in Seq(STRING), NEW bare, NEW at, NEW within,
         Without(text, bare, at, within),
         NEW N \in Nat, N = Len(text), NEW M \in Nat, M = Len(bare)
  PROVE  Reads(text, bare, at, within, N, M)
<1>1. /\ at \in [0 .. N -> 0 .. M] /\ within \subseteq 0 .. N
      /\ at[0] = 0 /\ at[N] = M /\ 0 \notin within /\ bare \in Seq(STRING)
      BY DEF Without
<1>2. ASSUME NEW n \in 1 .. N
      PROVE  /\ n \in within <=> Char(text, n) # "\n" /\ (n - 1 \in within \/ Char(text, n) = ";")
             /\ n \in within => at[n] = at[n - 1]
             /\ n \notin within => /\ at[n] = at[n - 1] + 1
                                   /\ Char(bare, at[n - 1] + 1) = Char(text, n)
  <2>0. text[n] \in STRING /\ n \in DOMAIN text OBVIOUS
  <2>1. PICK c \in STRING : c = text[n] BY <2>0
  <2>2. Char(text, n) = c BY <2>0, <2>1, Zenon DEF Char
  <2>3. /\ n \in within <=> c # "\n" /\ (n - 1 \in within \/ c = ";")
        /\ n \in within => at[n] = at[n - 1]
        /\ n \notin within => at[n] = at[n - 1] + 1 /\ bare[at[n]] = c
        BY <2>1, Zenon DEF Without
  <2>4. n - 1 \in 0 .. N /\ n \in 0 .. N OBVIOUS
  <2>5. PICK a \in 0 .. M : a = at[n - 1] BY <1>1, <2>4
  <2>6. PICK b \in 0 .. M : b = at[n] BY <1>1, <2>4
  <2>7. b = a + 1 => b \in DOMAIN bare
    <3>1. DOMAIN bare = 1 .. M BY <1>1
    <3> QED BY <3>1
  <2>8. n \notin within => Char(bare, a + 1) = c BY <2>3, <2>5, <2>6, <2>7, Zenon DEF Char
  <2> QED BY <2>2, <2>3, <2>5, <2>8, Zenon
<1> QED BY <1>1, <1>2, Zenon DEF Reads

\* No semicolon is left.
LEMMA BareHasNoComment ==
  ASSUME NEW text \in Seq(STRING), NEW bare, NEW at, NEW within,
         Without(text, bare, at, within), NEW q
  PROVE  Char(bare, q) # ";"
<1>0. PICK N \in Nat : N = Len(text) OBVIOUS
<1>1. bare \in Seq(STRING) BY DEF Without
<1>2. PICK M \in Nat : M = Len(bare) BY <1>1
<1>a. Reads(text, bare, at, within, N, M) BY <1>0, <1>2, ReadOne, Zenon
<1>3. /\ at \in [0 .. N -> 0 .. M] /\ at[0] = 0 /\ at[N] = M
      /\ \A n \in 1 .. N :
           /\ n \in within <=> Char(text, n) # "\n" /\ (n - 1 \in within \/ Char(text, n) = ";")
           /\ n \in within => at[n] = at[n - 1]
           /\ n \notin within => /\ at[n] = at[n - 1] + 1
                                 /\ Char(bare, at[n - 1] + 1) = Char(text, n)
      BY <1>a, Zenon DEF Reads
<1> DEFINE S == {n \in 0 .. N : \A i \in 1 .. at[n] : Char(bare, i) # ";"}
<1>4. 0 \in S
  <2>1. \A i \in 1 .. 0 : FALSE OBVIOUS
  <2>2. \A i \in 1 .. at[0] : Char(bare, i) # ";" BY <1>3, <2>1
  <2>3. 0 \in 0 .. N OBVIOUS
  <2> QED BY <2>2, <2>3, Zenon
<1> HIDE DEF S
<1>5. ASSUME NEW n \in 1 .. N, n - 1 \in S PROVE n \in S
  <2>1. n \in 0 .. N /\ n - 1 \in 0 .. N OBVIOUS
  <2>2. PICK a \in 0 .. M : a = at[n - 1] BY <1>3, <2>1
  <2>3. \A i \in 1 .. a : Char(bare, i) # ";" BY <1>5, <2>2 DEF S
  <2>4. CASE n \in within
    <3>1. at[n] = a BY <1>3, <2>2, <2>4
    <3> QED BY <2>1, <2>3, <3>1 DEF S
  <2>5. CASE n \notin within
    <3>1. at[n] = a + 1 /\ Char(bare, a + 1) = Char(text, n) BY <1>3, <2>2, <2>5, Zenon
    <3>2. Char(text, n) # ";" BY <1>3, <2>5
    <3>3. \A i \in 1 .. a + 1 : i \in 1 .. a \/ i = a + 1 OBVIOUS
    <3>4. \A i \in 1 .. a + 1 : Char(bare, i) # ";" BY <2>3, <3>1, <3>2, <3>3
    <3> QED BY <2>1, <3>1, <3>4 DEF S
  <2> QED BY <2>4, <2>5
<1>6. 0 .. N \subseteq S BY <1>0, <1>4, <1>5, UpTo
<1>7. N \in S BY <1>0, <1>6
<1>8. \A i \in 1 .. M : Char(bare, i) # ";" BY <1>3, <1>7 DEF S
<1>9. CASE q \in DOMAIN bare
  <2>1. q \in 1 .. M BY <1>1, <1>2, <1>9
  <2> QED BY <1>8, <2>1
<1>10. CASE q \notin DOMAIN bare BY <1>10 DEF Char
<1> QED BY <1>9, <1>10

\* A comment goes on, or starts here.
LEMMA InCommentStep ==
  ASSUME NEW text, NEW from \in Nat, NEW p \in Nat, from <= p, NEW c, c = Char(text, p + 1)
  PROVE  InComment(text, from, p) <=>
           c # "\n" /\ (c = ";" \/ (from < p /\ InComment(text, from, p - 1)))
<1>1. ASSUME InComment(text, from, p)
      PROVE  c # "\n" /\ (c = ";" \/ (from < p /\ InComment(text, from, p - 1)))
  <2>1. PICK q \in from .. p :
          Char(text, q + 1) = ";" /\ \A r \in q .. p : Char(text, r + 1) # "\n"
        BY <1>1 DEF InComment
  <2>2. p \in q .. p /\ q \in Int OBVIOUS
  <2>3. CASE q = p BY <2>1, <2>2, <2>3
  <2>4. CASE q # p
    <3>1. from < p /\ q \in from .. p - 1 BY <2>2, <2>4
    <3>2. \A r \in q .. p - 1 : r \in q .. p BY <2>2
    <3>3. InComment(text, from, p - 1) BY <2>1, <3>1, <3>2 DEF InComment
    <3> QED BY <2>1, <2>2, <3>1, <3>3
  <2> QED BY <2>3, <2>4
<1>2. ASSUME c # "\n", c = ";" PROVE InComment(text, from, p)
  <2>1. p \in from .. p /\ \A r \in p .. p : r = p OBVIOUS
  <2> QED BY <1>2, <2>1 DEF InComment
<1>3. ASSUME c # "\n", from < p, InComment(text, from, p - 1) PROVE InComment(text, from, p)
  <2>1. PICK q \in from .. p - 1 :
          Char(text, q + 1) = ";" /\ \A r \in q .. p - 1 : Char(text, r + 1) # "\n"
        BY <1>3 DEF InComment
  <2>2. q \in from .. p /\ \A r \in q .. p : r \in q .. p - 1 \/ r = p OBVIOUS
  <2> QED BY <1>3, <2>1, <2>2 DEF InComment
<1> QED BY <1>1, <1>2, <1>3

\* The same, counted from the character before.
ReadsAt(text, bare, at, within, p) ==
  /\ p + 1 \in within <=>
       Char(text, p + 1) # "\n" /\ (p \in within \/ Char(text, p + 1) = ";")
  /\ p + 1 \in within => at[p + 1] = at[p]
  /\ p + 1 \notin within =>
       at[p + 1] = at[p] + 1 /\ Char(bare, at[p] + 1) = Char(text, p + 1)

\* Reads says so.
LEMMA ReadNext ==
  ASSUME NEW text, NEW bare, NEW at, NEW within, NEW N \in Nat, NEW M \in Nat,
         Reads(text, bare, at, within, N, M), NEW p \in Nat, p + 1 <= N
  PROVE  ReadsAt(text, bare, at, within, p)
<1>1. p + 1 \in 1 .. N /\ p + 1 - 1 = p OBVIOUS
<1>2. PICK n \in 1 .. N : n = p + 1 /\ n - 1 = p BY <1>1
<1>3. /\ n \in within <=> Char(text, n) # "\n" /\ (n - 1 \in within \/ Char(text, n) = ";")
      /\ n \in within => at[n] = at[n - 1]
      /\ n \notin within => at[n] = at[n - 1] + 1 /\ Char(bare, at[n - 1] + 1) = Char(text, n)
      BY Zenon DEF Reads
<1> QED BY <1>2, <1>3, Zenon DEF ReadsAt

\* The lexer sees a comment where there is one, unless it starts in one.
LEMMA CommentsSeen ==
  ASSUME NEW text, NEW bare, NEW at, NEW within, NEW N \in Nat, NEW M \in Nat,
         Reads(text, bare, at, within, N, M),
         NEW from \in 0 .. N, from \notin within, NEW p \in from .. N - 1
  PROVE  InComment(text, from, p) <=> p + 1 \in within
<1>1. from \in Nat /\ p \in Nat /\ from <= p /\ p <= N - 1 /\ p - from \in Nat OBVIOUS
<1>2. PICK K \in Nat : K = p - from BY <1>1
<1>3. \A n \in Nat : n + 1 <= N => ReadsAt(text, bare, at, within, n) BY ReadNext, Zenon
<1> DEFINE S == {k \in 0 .. K : InComment(text, from, from + k) <=> from + k + 1 \in within}
<1> HIDE DEF S
<1>4. 0 \in S
  <2>1. PICK c : c = Char(text, from + 1) OBVIOUS
  <2>2. InComment(text, from, from) <=> c # "\n" /\ c = ";"
    <3>1. ~(from < from) /\ from <= from BY <1>1
    <3> QED BY <1>1, <2>1, <3>1, InCommentStep, Zenon
  <2>3. from + 1 <= N BY <1>1
  <2>4. from + 1 \in within <=> c # "\n" /\ c = ";" BY <1>1, <1>3, <2>1, <2>3, Zenon DEF ReadsAt
  <2>5. from + 0 = from /\ 0 \in 0 .. K BY <1>1, <1>2
  <2> QED BY <2>2, <2>4, <2>5, Zenon DEF S
<1>5. ASSUME NEW k \in 1 .. K, k - 1 \in S PROVE k \in S
  <2>1. PICK m \in Nat : m = from + k BY <1>1
  <2>2. m + 1 <= N /\ from <= m /\ from < m
        /\ from + (k - 1) = m - 1 /\ m - 1 + 1 = m /\ k \in 0 .. K
        BY <1>1, <1>2, <2>1
  <2>3. InComment(text, from, m - 1) <=> m \in within BY <1>5, <2>2, Zenon DEF S
  <2>4. PICK c : c = Char(text, m + 1) OBVIOUS
  <2>5. InComment(text, from, m) <=>
          c # "\n" /\ (c = ";" \/ (from < m /\ InComment(text, from, m - 1)))
        BY <1>1, <2>2, <2>4, InCommentStep, Zenon
  <2>6. m + 1 \in within <=> c # "\n" /\ (m \in within \/ c = ";")
        BY <1>3, <2>2, <2>4, Zenon DEF ReadsAt
  <2>7. InComment(text, from, from + k) <=> from + k + 1 \in within
        BY <2>1, <2>2, <2>3, <2>5, <2>6, Zenon
  <2> QED BY <2>2, <2>7, Zenon DEF S
<1>6. 0 .. K \subseteq S BY <1>2, <1>4, <1>5, UpTo
<1>7. K \in 0 .. K /\ from + K = p BY <1>1, <1>2
<1>8. K \in S BY <1>6, <1>7
<1> QED BY <1>7, <1>8, Zenon DEF S

\* Where it starts outside of a comment, the lexer reads the same character in
\* both texts, or one that ends every word.
LEMMA SameCharacter ==
  ASSUME NEW text \in Seq(STRING), NEW bare \in Seq(STRING), NEW at, NEW within,
         NEW N \in Nat, N = Len(text), NEW M \in Nat, M = Len(bare),
         Reads(text, bare, at, within, N, M), NEW p \in 0 .. N, p \notin within
  PROVE  /\ \/ Char(bare, at[p] + 1) = Char(text, p + 1)
            \/ /\ Char(text, p + 1) \notin WordChar
               /\ Char(bare, at[p] + 1) \notin WordChar
         /\ Char(text, p + 1) \in WordChar =>
              p + 1 \in 0 .. N /\ p + 1 \notin within /\ at[p + 1] = at[p] + 1
<1>1. at \in [0 .. N -> 0 .. M] /\ at[N] = M BY DEF Reads
<1>a. p \in Nat /\ p <= N OBVIOUS
<1>b. p + 1 <= N => ReadsAt(text, bare, at, within, p) BY <1>a, ReadNext, Zenon
<1>2. \A n \in 1 .. N :
        /\ n \in within <=> Char(text, n) # "\n" /\ (n - 1 \in within \/ Char(text, n) = ";")
        /\ n \in within => at[n] = at[n - 1]
        /\ n \notin within => at[n] = at[n - 1] + 1 /\ Char(bare, at[n - 1] + 1) = Char(text, n)
      BY Zenon DEF Reads
<1>3. PICK a \in 0 .. M : a = at[p] BY <1>1
<1>4. ";" \notin WordChar /\ "\n" \notin WordChar /\ "" \notin WordChar BY WordCharsAre
<1>5. CASE p = N
  <2>1. p + 1 \notin DOMAIN text /\ M + 1 \notin DOMAIN bare BY <1>5
  <2>2. Char(text, p + 1) = "" /\ Char(bare, M + 1) = "" BY <2>1 DEF Char
  <2> QED BY <1>1, <1>4, <1>5, <2>2
<1>6. CASE p # N /\ Char(text, p + 1) # ";"
  <2>0. p # N BY <1>6
  <2>1. p + 1 <= N /\ p + 1 \in 0 .. N BY <1>a, <2>0
  <2>2. p + 1 \notin within BY <1>b, <1>6, <2>1, Zenon DEF ReadsAt
  <2>3. at[p + 1] = at[p] + 1 /\ Char(bare, at[p] + 1) = Char(text, p + 1)
        BY <1>b, <2>1, <2>2, Zenon DEF ReadsAt
  <2> QED BY <2>1, <2>2, <2>3, Zenon
<1>7. CASE p # N /\ Char(text, p + 1) = ";"
  <2>0. p # N BY <1>7
  <2>1. p + 1 <= N /\ p + 1 \in 0 .. N BY <1>a, <2>0
  <2>2. PICK K \in Nat : K = N - (p + 1)
    <3>1. N - (p + 1) \in Nat BY <2>1
    <3> QED BY <3>1
  <2> DEFINE Ended(n) == a < at[n] /\ Char(bare, a + 1) = "\n"
             S == {k \in 0 .. K : (p + 1 + k \in within /\ at[p + 1 + k] = a) \/ Ended(p + 1 + k)}
  <2> HIDE DEF S
  <2>3. 0 \in S
    <3>1. p + 1 \in within
      <4>1. ";" # "\n" OBVIOUS
      <4> QED BY <1>b, <1>7, <2>1, <4>1, Zenon DEF ReadsAt
    <3>2. at[p + 1] = a BY <1>b, <1>3, <2>1, <3>1, Zenon DEF ReadsAt
    <3>3. p + 1 + 0 = p + 1 /\ 0 \in 0 .. K BY <2>2
    <3> QED BY <3>1, <3>2, <3>3, Zenon DEF S
  <2>4. ASSUME NEW k \in 1 .. K, k - 1 \in S PROVE k \in S
    <3>1. PICK n \in 1 .. N : n = p + 1 + k
      <4>1. p + 1 + k \in 1 .. N BY <2>2
      <4> QED BY <4>1
    <3>2. p + 1 + (k - 1) = n - 1 /\ k \in 0 .. K /\ n \in 0 .. N /\ n - 1 \in 0 .. N BY <2>2, <3>1
    <3>3. (n - 1 \in within /\ at[n - 1] = a) \/ Ended(n - 1) BY <2>4, <3>2, Zenon DEF S
    <3>4. PICK b \in 0 .. M, c \in 0 .. M : b = at[n - 1] /\ c = at[n] BY <1>1, <3>2
    <3>5. (n \in within => c = b) /\ (n \notin within => c = b + 1 /\ Char(bare, b + 1) = Char(text, n))
          BY <1>2, <3>4, Zenon
    <3>6. CASE Ended(n - 1)
      <4>1. a < b /\ Char(bare, a + 1) = "\n" BY <3>4, <3>6
      <4>2. a < c BY <3>5, <4>1
      <4>3. Ended(n) BY <3>4, <4>1, <4>2
      <4> QED BY <3>1, <3>2, <4>3, Zenon DEF S
    <3>7. CASE n - 1 \in within /\ b = a /\ n \in within
      <4>1. at[n] = a BY <3>4, <3>5, <3>7
      <4> QED BY <3>1, <3>2, <3>7, <4>1, Zenon DEF S
    <3>8. CASE n - 1 \in within /\ b = a /\ n \notin within
      <4>1. Char(text, n) = "\n" BY <1>2, <3>8
      <4>2. Char(bare, a + 1) = "\n" /\ c = a + 1 BY <3>5, <3>8, <4>1
      <4>3. a < c BY <4>2
      <4>4. Ended(n) BY <3>4, <4>2, <4>3
      <4> QED BY <3>1, <3>2, <4>4, Zenon DEF S
    <3> QED BY <3>3, <3>4, <3>6, <3>7, <3>8
  <2>5. 0 .. K \subseteq S BY <2>2, <2>3, <2>4, UpTo
  <2>6. K \in S /\ p + 1 + K = N BY <2>2, <2>5
  <2>7. at[N] = a \/ Ended(N) BY <2>6, Zenon DEF S
  <2>8. Char(bare, a + 1) \in {"", "\n"}
    <3>1. CASE at[N] = a
      <4>1. a + 1 \notin DOMAIN bare BY <1>1, <3>1
      <4> QED BY <4>1 DEF Char
    <3>2. CASE Ended(N) BY <3>2
    <3> QED BY <2>7, <3>1, <3>2
  <2> QED BY <1>3, <1>4, <1>7, <2>8
<1> QED BY <1>5, <1>6, <1>7

NoComments(bare) == \A q : Char(bare, q) # ";"

IsSameStart(text, bare, at, within, N, M, from, s) ==
  /\ s \in from .. N /\ at[s] \in 0 .. M
  /\ at[s] = SkipBlanks(bare, at[from])
  /\ s = N <=> at[s] = M
  /\ s # N => /\ s + 1 \in 0 .. N /\ s + 1 \notin within /\ at[s + 1] = at[s] + 1
              /\ Char(bare, at[s] + 1) = Char(text, s + 1)
              /\ Char(text, s + 1) # "\n" => s \notin within

\* Skipping blanks leads to the same character in both texts.
LEMMA SameStart ==
  ASSUME NEW text \in Seq(STRING), NEW bare \in Seq(STRING), NEW at, NEW within,
         NEW N \in Nat, N = Len(text), NEW M \in Nat, M = Len(bare),
         Reads(text, bare, at, within, N, M), NoComments(bare),
         NEW from \in 0 .. N, from \notin within, NEW s, s = SkipBlanks(text, from)
  PROVE  IsSameStart(text, bare, at, within, N, M, from, s)
<1>1. at \in [0 .. N -> 0 .. M] /\ at[N] = M BY DEF Reads
<1>2. IsFirstStop(s, from, N, Starts(text, from)) BY Skipped
<1>3. /\ s \in from .. N
      /\ s = N \/ s \in Starts(text, from)
      /\ \A q \in from .. s - 1 : q \notin Starts(text, from)
      BY <1>2 DEF IsFirstStop
<1>4. from \in Nat /\ s \in Nat /\ from <= s /\ s <= N /\ s \in 0 .. N BY <1>3
<1>5. PICK a \in 0 .. M, b \in 0 .. M : a = at[from] /\ b = at[s] BY <1>1, <1>4
<1>6. s # N => ReadsAt(text, bare, at, within, s)
  <2>1. s # N => s + 1 <= N BY <1>4
  <2> QED BY <1>4, <2>1, ReadNext, Zenon
<1>7. ASSUME s # N
      PROVE  /\ s + 1 \in 0 .. N /\ s + 1 \notin within /\ at[s + 1] = at[s] + 1
             /\ Char(bare, at[s] + 1) = Char(text, s + 1)
             /\ Char(text, s + 1) # "\n" => s \notin within
             /\ Char(text, s + 1) \notin Blank
  <2>1. s \in from .. N - 1 /\ s + 1 \in 0 .. N BY <1>3, <1>4, <1>7
  <2>2. ~InComment(text, from, s) /\ Char(text, s + 1) \notin Blank
        BY <1>3, <1>7, Zenon DEF Starts, Outside
  <2>3. s + 1 \notin within BY <2>1, <2>2, CommentsSeen
  <2> QED BY <1>6, <1>7, <2>1, <2>2, <2>3, Zenon DEF ReadsAt
<1>8. s # N => b # M
  <2>1. s # N => at[s + 1] \in 0 .. M BY <1>1, <1>7
  <2>2. s # N => b + 1 \in 0 .. M BY <1>5, <1>7, <2>1
  <2> QED BY <2>2
<1>9. PICK K \in Nat : K = s - from
  <2>1. s - from \in Nat BY <1>4
  <2> QED BY <2>1
<1> DEFINE S == {k \in 0 .. K : /\ a <= at[from + k]
                                /\ \A q \in a .. at[from + k] - 1 : Char(bare, q + 1) \in Blank}
<1> HIDE DEF S
<1>10. 0 \in S
  <2>1. at[from + 0] = a /\ 0 \in 0 .. K BY <1>4, <1>5
  <2>2. \A q \in a .. a - 1 : FALSE OBVIOUS
  <2>3. a <= a OBVIOUS
  <2>4. \A q \in a .. at[from + 0] - 1 : Char(bare, q + 1) \in Blank BY <2>1, <2>2
  <2> QED BY <2>1, <2>3, <2>4, Zenon DEF S
<1>11. ASSUME NEW k \in 1 .. K, k - 1 \in S PROVE k \in S
  <2>1. PICK p \in from .. s - 1 : p = from + (k - 1)
    <3>1. from + (k - 1) \in from .. s - 1 BY <1>4, <1>9
    <3> QED BY <3>1
  <2>2. /\ p \in Nat /\ p + 1 <= N /\ p \in 0 .. N /\ p + 1 \in 0 .. N /\ p \in from .. N - 1
        /\ from + k = p + 1 /\ k \in 0 .. K
        BY <1>4, <1>9, <2>1
  <2>3. PICK c \in 0 .. M, d \in 0 .. M : c = at[p] /\ d = at[p + 1] BY <1>1, <2>2
  <2>4. a <= c /\ \A q \in a .. c - 1 : Char(bare, q + 1) \in Blank
        BY <1>11, <2>1, <2>3, Zenon DEF S
  <2>5. ReadsAt(text, bare, at, within, p) BY <2>2, ReadNext, Zenon
  <2>6. CASE p + 1 \in within
    <3>1. d = c BY <2>3, <2>5, <2>6, Zenon DEF ReadsAt
    <3> QED BY <2>2, <2>3, <2>4, <3>1, Zenon DEF S
  <2>7. CASE p + 1 \notin within
    <3>1. ~InComment(text, from, p) BY <2>2, <2>7, CommentsSeen
    <3>2. p \in 0 .. Len(text) BY <2>2
    <3>3. Char(text, p + 1) \in Blank BY <1>3, <3>1, <3>2, Zenon DEF Starts, Outside
    <3>4. d = c + 1 /\ Char(bare, c + 1) = Char(text, p + 1)
          BY <2>3, <2>5, <2>7, Zenon DEF ReadsAt
    <3>5. \A q \in a .. d - 1 : q \in a .. c - 1 \/ q = c BY <3>4
    <3>6. \A q \in a .. d - 1 : Char(bare, q + 1) \in Blank BY <2>4, <3>3, <3>4, <3>5
    <3>7. a <= d BY <2>4, <3>4
    <3> QED BY <2>2, <2>3, <3>6, <3>7, Zenon DEF S
  <2> QED BY <2>6, <2>7
<1>12. 0 .. K \subseteq S BY <1>9, <1>10, <1>11, UpTo
<1>13. K \in S /\ from + K = s BY <1>4, <1>9, <1>12
<1>14. a <= b /\ \A q \in a .. b - 1 : Char(bare, q + 1) \in Blank
       BY <1>5, <1>13, Zenon DEF S
<1>15. \A q, r : ~InComment(bare, q, r) BY Zenon DEF InComment, NoComments
<1>16. IsFirstStop(b, a, M, Starts(bare, a))
  <2>1. b \in a .. M BY <1>14
  <2>2. b = M \/ b \in Starts(bare, a)
    <3>1. b # M => Char(bare, b + 1) \notin Blank BY <1>1, <1>5, <1>7
    <3>2. b \in 0 .. Len(bare) OBVIOUS
    <3> QED BY <1>15, <3>1, <3>2, Zenon DEF Starts, Outside
  <2>3. \A q \in a .. b - 1 : q \notin Starts(bare, a) BY <1>14, Zenon DEF Starts, Outside
  <2> QED BY <2>1, <2>2, <2>3 DEF IsFirstStop
<1>17. b = SkipBlanks(bare, a)
  <2>1. a \in Nat /\ a <= M OBVIOUS
  <2> QED BY <1>16, <2>1, OneFirstStop DEF SkipBlanks, Starts
<1> QED BY <1>1, <1>3, <1>5, <1>7, <1>8, <1>17 DEF IsSameStart

IsSameSpan(text, bare, at, within, p, class, e) ==
  /\ e \in p .. Len(text) /\ e \notin within
  /\ at[e] = FirstStop(at[p], Len(bare), Outside(bare, class))
  /\ SubSeq(text, p + 1, e) = SubSeq(bare, at[p] + 1, at[e])

\* A word, or the digits of a number, are the same characters in both texts.
LEMMA SameSpan ==
  ASSUME NEW text \in Seq(STRING), NEW bare \in Seq(STRING), NEW at, NEW within,
         NEW N \in Nat, N = Len(text), NEW M \in Nat, M = Len(bare),
         Reads(text, bare, at, within, N, M), NEW p \in 0 .. N, p \notin within,
         NEW class, class \subseteq WordChar,
         NEW e, e = FirstStop(p, N, Outside(text, class))
  PROVE  IsSameSpan(text, bare, at, within, p, class, e)
<1>1. at \in [0 .. N -> 0 .. M] /\ at[N] = M BY DEF Reads
<1>2. /\ e \in p .. N
      /\ e = N \/ Char(text, e + 1) \notin class
      /\ \A q \in p .. e - 1 : Char(text, q + 1) \in class
      BY OutsideStops
<1>3. p \in Nat /\ e \in Nat /\ p <= e /\ e <= N /\ e \in 0 .. N BY <1>2
<1>4. PICK K \in Nat : K = e - p
  <2>1. e - p \in Nat BY <1>3
  <2> QED BY <2>1
<1>5. PICK a \in 0 .. M, b \in 0 .. M : a = at[p] /\ b = at[e] BY <1>1, <1>3
<1> DEFINE S == {k \in 0 .. K : p + k \notin within /\ at[p + k] = a + k}
<1> HIDE DEF S
<1>6. 0 \in S
  <2>1. p + 0 = p /\ 0 \in 0 .. K /\ a + 0 = a BY <1>3
  <2> QED BY <1>5, <2>1, Zenon DEF S
<1>7. \A k \in 0 .. K : k \in S => /\ p + k \in 0 .. N
                                   /\ \/ Char(bare, a + k + 1) = Char(text, p + k + 1)
                                      \/ /\ Char(text, p + k + 1) \notin WordChar
                                         /\ Char(bare, a + k + 1) \notin WordChar
                                   /\ Char(text, p + k + 1) \in WordChar =>
                                        p + k + 1 \notin within /\ at[p + k + 1] = a + k + 1
  <2>1. ASSUME NEW k \in 0 .. K, k \in S
        PROVE  /\ p + k \in 0 .. N
               /\ \/ Char(bare, a + k + 1) = Char(text, p + k + 1)
                  \/ /\ Char(text, p + k + 1) \notin WordChar
                     /\ Char(bare, a + k + 1) \notin WordChar
               /\ Char(text, p + k + 1) \in WordChar =>
                    p + k + 1 \notin within /\ at[p + k + 1] = a + k + 1
    <3>1. PICK n \in 0 .. N : n = p + k
      <4>1. p + k \in 0 .. N BY <1>3, <1>4
      <4> QED BY <4>1
    <3>2. n \notin within /\ at[n] = a + k BY <2>1, <3>1, Zenon DEF S
    <3>3. /\ \/ Char(bare, at[n] + 1) = Char(text, n + 1)
             \/ /\ Char(text, n + 1) \notin WordChar
                /\ Char(bare, at[n] + 1) \notin WordChar
          /\ Char(text, n + 1) \in WordChar => n + 1 \notin within /\ at[n + 1] = at[n] + 1
          BY <3>2, SameCharacter
    <3> QED BY <3>1, <3>2, <3>3, Zenon
  <2> QED BY <2>1
<1>8. ASSUME NEW k \in 1 .. K, k - 1 \in S PROVE k \in S
  <2>1. PICK l \in 0 .. K : l = k - 1 OBVIOUS
  <2>2. p + l \in p .. e - 1 BY <1>3, <1>4, <2>1
  <2>3. Char(text, p + l + 1) \in WordChar BY <1>2, <2>2
  <2>4. p + l + 1 \notin within /\ at[p + l + 1] = a + l + 1 BY <1>7, <1>8, <2>1, <2>3, Zenon
  <2>5. p + l + 1 = p + k /\ a + l + 1 = a + k /\ k \in 0 .. K BY <1>3, <2>1
  <2> QED BY <2>4, <2>5, Zenon DEF S
<1>9. 0 .. K \subseteq S BY <1>4, <1>6, <1>8, UpTo
<1>10. K \in 0 .. K /\ K \in S /\ p + K = e BY <1>3, <1>4, <1>9
<1>11. e \notin within /\ b = a + K BY <1>5, <1>10, Zenon DEF S
<1>12. ASSUME NEW q \in a .. b - 1 PROVE Char(bare, q + 1) \in class
  <2>1. PICK k \in 0 .. K : k = q - a /\ k # K /\ a + k = q
    <3>1. q - a \in 0 .. K /\ q - a # K /\ a + (q - a) = q BY <1>11
    <3> QED BY <3>1
  <2>2. k \in S /\ p + k \in p .. e - 1 BY <1>3, <1>4, <1>9, <2>1
  <2>3. Char(text, p + k + 1) \in class /\ Char(text, p + k + 1) \in WordChar BY <1>2, <2>2
  <2>4. Char(bare, a + k + 1) = Char(text, p + k + 1) BY <1>7, <2>2, <2>3, Zenon
  <2> QED BY <2>1, <2>3, <2>4
<1>13. b = M \/ Char(bare, b + 1) \notin class
  <2>1. CASE e = N BY <1>1, <1>5, <2>1
  <2>2. CASE Char(text, e + 1) \notin class
    <3>1. \/ Char(bare, b + 1) = Char(text, e + 1)
          \/ Char(bare, b + 1) \notin WordChar
          BY <1>7, <1>10, <1>11, Zenon
    <3> QED BY <2>2, <3>1
  <2> QED BY <1>2, <2>1, <2>2
<1>14. IsFirstStop(b, a, M, Outside(bare, class))
  <2>1. b \in a .. M BY <1>11
  <2>2. b \in 0 .. Len(bare) OBVIOUS
  <2>3. b = M \/ b \in Outside(bare, class) BY <1>13, <2>2 DEF Outside
  <2>4. \A q \in a .. b - 1 : q \notin Outside(bare, class) BY <1>12 DEF Outside
  <2> QED BY <2>1, <2>3, <2>4 DEF IsFirstStop
<1>15. b = FirstStop(a, M, Outside(bare, class))
  <2>1. a \in Nat /\ a <= M BY <1>11
  <2> QED BY <1>14, <2>1, OneFirstStop
<1>16. SubSeq(text, p + 1, e) = SubSeq(bare, a + 1, b)
  <2>1. PICK u, v : u = SubSeq(text, p + 1, e) /\ v = SubSeq(bare, a + 1, b) OBVIOUS
  <2>2. u = [i \in 1 .. K |-> text[p + i]] BY <1>3, <1>4, <2>1
  <2>3. v = [i \in 1 .. K |-> bare[a + i]] BY <1>11, <2>1
  <2>4. ASSUME NEW i \in 1 .. K PROVE text[p + i] = bare[a + i]
    <3>1. PICK k \in 0 .. K : k = i - 1 /\ k # K OBVIOUS
    <3>2. k \in S /\ p + k \in p .. e - 1 /\ p + k + 1 = p + i /\ a + k + 1 = a + i
          BY <1>3, <1>4, <1>9, <3>1
    <3>3. Char(text, p + i) \in WordChar BY <1>2, <3>2
    <3>4. Char(bare, a + i) = Char(text, p + i) BY <1>7, <3>2, <3>3, Zenon
    <3>5. p + i \in DOMAIN text /\ a + i \in DOMAIN bare BY <1>3, <1>4, <1>11
    <3> QED BY <3>4, <3>5, Zenon DEF Char
  <2> QED BY <2>1, <2>2, <2>3, <2>4
<1> QED BY <1>2, <1>5, <1>11, <1>15, <1>16 DEF IsSameSpan

\* The length of the text need not be asked for.
LEMMA HexPrefixIs ==
  ASSUME NEW text \in Seq(STRING), NEW pos \in Nat
  PROVE  HexPrefix(text, pos) <=> /\ Char(text, pos + 1) = "0"
                                  /\ rsm_tolower(Char(text, pos + 2)) = "x"
                                  /\ Char(text, pos + 3) \in Digits[16]
<1>1. ASSUME Char(text, pos + 3) \in Digits[16] PROVE pos + 3 <= Len(text)
  <2>1. 16 \in Bases BY DEF Bases
  <2>2. Char(text, pos + 3) \in WordChar BY <1>1, <2>1, DigitsOf
  <2>3. Char(text, pos + 3) # "" BY <2>2, WordCharsAre
  <2>4. pos + 3 \in DOMAIN text BY <2>3 DEF Char
  <2> QED BY <2>4
<1> QED BY <1>1, Zenon DEF HexPrefix

\* The characters of a hexadecimal prefix are characters of words.
LEMMA PrefixInWord ==
  /\ "0" \in WordChar
  /\ \A c : rsm_tolower(c) = "x" => c \in WordChar
  /\ Digits[16] \subseteq WordChar
<1>1. "0" \in WordChar BY DigitsAre DEF WordChar
<1>2. ASSUME NEW c, rsm_tolower(c) = "x" PROVE c \in WordChar
  <2>1. CASE c \in DOMAIN Small BY <2>1 DEF WordChar, WordStart
  <2>2. CASE c \notin DOMAIN Small
    <3>1. c = "x" BY <1>2, <2>2, Zenon DEF rsm_tolower
    <3>2. "X" \in DOMAIN Small /\ Small["X"] = "x" BY SMT DEF Small
    <3> QED BY <3>1, <3>2, Zenon DEF WordChar, WordStart
  <2> QED BY <2>1, <2>2
<1>3. Digits[16] \subseteq WordChar
  <2>1. 16 \in Bases BY DEF Bases
  <2> QED BY <2>1, DigitsOf
<1> QED BY <1>1, <1>2, <1>3

BehindPrefix(N, at, within, p) == p + 2 \in 0 .. N /\ p + 2 \notin within /\ at[p + 2] = at[p] + 2

\* No comment comes between the characters of a hexadecimal prefix.
LEMMA SameHexPrefix ==
  ASSUME NEW text \in Seq(STRING), NEW bare \in Seq(STRING), NEW at, NEW within,
         NEW N \in Nat, N = Len(text), NEW M \in Nat, M = Len(bare),
         Reads(text, bare, at, within, N, M), NEW p \in 0 .. N, p \notin within
  PROVE  /\ HexPrefix(text, p) <=> HexPrefix(bare, at[p])
         /\ HexPrefix(text, p) => BehindPrefix(N, at, within, p)
<1>1. at \in [0 .. N -> 0 .. M] BY DEF Reads
<1>2. PICK a \in Nat : a = at[p] BY <1>1
<1>3. PICK c1, c2, c3 : c1 = Char(text, p + 1) /\ c2 = Char(text, p + 2) /\ c3 = Char(text, p + 3)
      OBVIOUS
<1>4. PICK d1, d2, d3 : d1 = Char(bare, a + 1) /\ d2 = Char(bare, a + 2) /\ d3 = Char(bare, a + 3)
      OBVIOUS
<1>5. HexPrefix(text, p) <=> c1 = "0" /\ rsm_tolower(c2) = "x" /\ c3 \in Digits[16]
  <2>1. p \in Nat OBVIOUS
  <2> QED BY <1>3, <2>1, HexPrefixIs, Zenon
<1>6. HexPrefix(bare, a) <=> d1 = "0" /\ rsm_tolower(d2) = "x" /\ d3 \in Digits[16]
      BY <1>2, <1>4, HexPrefixIs, Zenon
<1>7. /\ d1 = c1 \/ (c1 \notin WordChar /\ d1 \notin WordChar)
      /\ c1 \in WordChar => p + 1 \in 0 .. N /\ p + 1 \notin within /\ at[p + 1] = a + 1
      BY <1>2, <1>3, <1>4, SameCharacter
<1>8. ASSUME c1 \in WordChar
      PROVE  /\ d2 = c2 \/ (c2 \notin WordChar /\ d2 \notin WordChar)
             /\ c2 \in WordChar => p + 2 \in 0 .. N /\ p + 2 \notin within /\ at[p + 2] = a + 2
  <2>1. PICK q \in 0 .. N : q = p + 1 BY <1>7, <1>8
  <2>2. q \notin within /\ at[q] = a + 1 BY <1>7, <1>8, <2>1
  <2>3. q + 1 = p + 2 /\ a + 1 + 1 = a + 2 BY <1>2, <2>1
  <2>4. /\ \/ Char(bare, at[q] + 1) = Char(text, q + 1)
           \/ /\ Char(text, q + 1) \notin WordChar
              /\ Char(bare, at[q] + 1) \notin WordChar
        /\ Char(text, q + 1) \in WordChar =>
             q + 1 \in 0 .. N /\ q + 1 \notin within /\ at[q + 1] = at[q] + 1
        BY <2>2, SameCharacter
  <2> QED BY <1>3, <1>4, <2>2, <2>3, <2>4, Zenon
<1>9. ASSUME c1 \in WordChar, c2 \in WordChar
      PROVE  d3 = c3 \/ (c3 \notin WordChar /\ d3 \notin WordChar)
  <2>1. PICK q \in 0 .. N : q = p + 2 BY <1>8, <1>9
  <2>2. q \notin within /\ at[q] = a + 2 BY <1>8, <1>9, <2>1
  <2>3. q + 1 = p + 3 /\ a + 2 + 1 = a + 3 BY <1>2, <2>1
  <2>4. \/ Char(bare, at[q] + 1) = Char(text, q + 1)
        \/ /\ Char(text, q + 1) \notin WordChar
           /\ Char(bare, at[q] + 1) \notin WordChar
        BY <2>2, SameCharacter
  <2> QED BY <1>3, <1>4, <2>2, <2>3, <2>4, Zenon
<1>10. HexPrefix(text, p) <=> HexPrefix(bare, a)
       BY <1>5, <1>6, <1>7, <1>8, <1>9, PrefixInWord, Zenon
<1>11. HexPrefix(text, p) => c1 \in WordChar /\ c2 \in WordChar
       BY <1>5, PrefixInWord, Zenon
<1> QED BY <1>2, <1>8, <1>10, <1>11, Zenon DEF BehindPrefix

Same(u, v) == u.type = v.type /\ u.value = v.value /\ u.ident = v.ident

\* Two tokens that say the same, the first of text and the second of bare, and
\* the places where they end.
Agree(at, within, N, u, v) ==
  /\ Same(u, v)
  /\ u.type # "EOF" => u.end \in 0 .. N /\ u.end \notin within /\ v.end = at[u.end]

\* What a token says does not depend on where it ends.
LEMMA SameButForTheEnd ==
  ASSUME NEW d, NEW e
  PROVE  /\ \A type, value : Same(Token(type, d, value), Token(type, e, value))
         /\ \A word : Same(WordToken(word, d), WordToken(word, e))
<1>1. \A type, value : Same(Token(type, d, value), Token(type, e, value)) BY DEF Same, Token
<1>2. ASSUME NEW word PROVE Same(WordToken(word, d), WordToken(word, e))
  <2>1. CASE Spelled(word, Mnemonic) # {}
    <3>1. PICK v : v = Mnemonic[CHOOSE name \in Spelled(word, Mnemonic) : TRUE] OBVIOUS
    <3>2. WordToken(word, d) = Token("OPCODE", d, v) /\ WordToken(word, e) = Token("OPCODE", e, v)
          BY <2>1, <3>1, Zenon DEF WordToken
    <3> QED BY <1>1, <3>2
  <2>2. CASE Spelled(word, Mnemonic) = {} /\ Spelled(word, RegisterName) # {}
    <3>1. PICK v : v = RegisterName[CHOOSE name \in Spelled(word, RegisterName) : TRUE] OBVIOUS
    <3>2. WordToken(word, d) = Token("REG", d, v) /\ WordToken(word, e) = Token("REG", e, v)
          BY <2>2, <3>1, Zenon DEF WordToken
    <3> QED BY <1>1, <3>2
  <2>3. CASE Spelled(word, Mnemonic) = {} /\ Spelled(word, RegisterName) = {}
    <3>1. \A end : WordToken(word, end) = [type |-> "IDENT", end |-> end, value |-> 0, ident |-> word]
          BY <2>3 DEF WordToken, Token
    <3> QED BY <3>1 DEF Same
  <2> QED BY <2>1, <2>2, <2>3
<1> QED BY <1>1, <1>2

\* A number is the same in both texts.
LEMMA SameNumber ==
  ASSUME NEW text \in Seq(STRING), NEW bare \in Seq(STRING), NEW at, NEW within,
         NEW N \in Nat, N = Len(text), NEW M \in Nat, M = Len(bare),
         Reads(text, bare, at, within, N, M), NEW p \in 0 .. N, p \notin within,
         p # N, Char(text, p + 1) \in Digit
  PROVE  Agree(at, within, N, NumberToken(text, p), NumberToken(bare, at[p]))
<1>1. at \in [0 .. N -> 0 .. M] /\ at[N] = M BY DEF Reads
<1>2. PICK a \in 0 .. M : a = at[p] BY <1>1
<1>3. PICK c : c = Char(text, p + 1) OBVIOUS
<1>4. c \in Digit /\ c \in WordChar BY <1>3 DEF WordChar
<1>5. Char(bare, a + 1) = c BY <1>2, <1>3, <1>4, SameCharacter
<1>6. HexPrefix(text, p) <=> HexPrefix(bare, a) BY <1>2, SameHexPrefix
<1>7. PICK base : base = Base(text, p) OBVIOUS
<1>8. base = Base(bare, a) BY <1>3, <1>5, <1>6, <1>7, Zenon DEF Base
<1>9. base \in Bases /\ (base = 16 => HexPrefix(text, p)) BY <1>7, BaseOf
<1>10. PICK from : from = DigitsFrom(text, p) OBVIOUS
<1>11. from \in 0 .. N /\ from \notin within /\ at[from] = DigitsFrom(bare, a)
  <2>1. CASE base = 16
    <3>1. from = p + 2 /\ DigitsFrom(bare, a) = a + 2
          BY <1>7, <1>8, <1>10, <2>1, Zenon DEF DigitsFrom
    <3>2. HexPrefix(text, p) => BehindPrefix(N, at, within, p) BY SameHexPrefix
    <3> QED BY <1>2, <1>9, <2>1, <3>1, <3>2, Zenon DEF BehindPrefix
  <2>2. CASE base # 16
    <3>1. from = p /\ DigitsFrom(bare, a) = a
          BY <1>7, <1>8, <1>10, <2>2, Zenon DEF DigitsFrom
    <3> QED BY <1>2, <3>1
  <2> QED BY <2>1, <2>2
<1>12. PICK e : e = DigitsTo(text, p) OBVIOUS
<1>13. PICK class : class = Digits[base] OBVIOUS
<1>14. class \subseteq WordChar BY <1>9, <1>13, DigitsOf
<1>15. e = FirstStop(from, N, Outside(text, class))
       BY <1>7, <1>10, <1>12, <1>13, Zenon DEF DigitsTo
<1>16. /\ e \in from .. N /\ e \notin within
       /\ at[e] = FirstStop(at[from], M, Outside(bare, class))
       /\ SubSeq(text, from + 1, e) = SubSeq(bare, at[from] + 1, at[e])
  <2>1. PICK q \in 0 .. N : q = from BY <1>11
  <2>2. q \notin within /\ e = FirstStop(q, N, Outside(text, class)) BY <1>11, <1>15, <2>1, Zenon
  <2>3. IsSameSpan(text, bare, at, within, q, class, e) BY <1>14, <2>2, SameSpan, Zenon
  <2> QED BY <2>1, <2>3, Zenon DEF IsSameSpan
<1>17. DigitsTo(bare, a) = at[e]
       BY <1>8, <1>11, <1>13, <1>16, Zenon DEF DigitsTo
<1>18. DigitsAt(text, p) = DigitsAt(bare, a)
       BY <1>10, <1>11, <1>12, <1>16, <1>17, Zenon DEF DigitsAt
<1>19. PICK n : n = NumberOf(DigitsAt(text, p), base) OBVIOUS
<1>20. n = NumberOf(DigitsAt(bare, a), base) BY <1>18, <1>19, Zenon
<1>21. NumberToken(text, p) =
         IF n # TooLarge THEN Token("NUMBER", e, n)
         ELSE IF LongIsWide THEN Token("INVALID", e, 0)
         ELSE Token("NUMBER", e, INT32_MAX)
       BY <1>7, <1>12, <1>19, Zenon DEF NumberToken, DigitsAt, DigitsFrom, DigitsTo
<1>22. PICK f : f = at[e] OBVIOUS
<1>23. NumberToken(bare, a) =
         IF n # TooLarge THEN Token("NUMBER", f, n)
         ELSE IF LongIsWide THEN Token("INVALID", f, 0)
         ELSE Token("NUMBER", f, INT32_MAX)
       BY <1>8, <1>17, <1>20, <1>22, Zenon DEF NumberToken, DigitsAt, DigitsFrom, DigitsTo
<1>24. Same(NumberToken(text, p), NumberToken(bare, a))
       BY <1>21, <1>23, SameButForTheEnd, Zenon
<1>25. a # M
  <2>1. c # "" BY <1>4, WordCharsAre
  <2>2. a + 1 \in DOMAIN bare BY <1>5, <2>1 DEF Char
  <2> QED BY <2>2
<1>26. NumberToken(text, p).end = e BY <1>12, NumberTokenIs
<1>27. NumberToken(bare, a).end = at[e]
  <2>1. Char(bare, a + 1) \in Digit BY <1>4, <1>5
  <2> QED BY <1>17, <1>25, <2>1, NumberTokenIs
<1>28. e \in 0 .. N BY <1>11, <1>16
<1> QED BY <1>2, <1>16, <1>24, <1>26, <1>27, <1>28, Zenon DEF Agree

\* A word is the same in both texts.
LEMMA SameWord ==
  ASSUME NEW text \in Seq(STRING), NEW bare \in Seq(STRING), NEW at, NEW within,
         NEW N \in Nat, N = Len(text), NEW M \in Nat, M = Len(bare),
         Reads(text, bare, at, within, N, M), NEW p \in 0 .. N, p \notin within
  PROVE  Agree(at, within, N, WordAt(text, p), WordAt(bare, at[p]))
<1>1. PICK e : e = WordTo(text, p) OBVIOUS
<1>2. PICK class : class = WordChar OBVIOUS
<1>3. class \subseteq WordChar /\ e = FirstStop(p, N, Outside(text, class))
      BY <1>1, <1>2, Zenon DEF WordTo
<1>4. IsSameSpan(text, bare, at, within, p, class, e) BY <1>3, SameSpan, Zenon
<1>5. WordTo(bare, at[p]) = at[e] BY <1>2, <1>4, Zenon DEF IsSameSpan, WordTo
<1>6. PICK word : word = SubSeq(text, p + 1, e) OBVIOUS
<1>7. word = SubSeq(bare, at[p] + 1, at[e]) BY <1>4, <1>6, Zenon DEF IsSameSpan
<1>8. WordAt(text, p) = WordToken(word, e) BY <1>1, <1>6, Zenon DEF WordAt
<1>9. WordAt(bare, at[p]) = WordToken(word, at[e]) BY <1>5, <1>7, Zenon DEF WordAt
<1>10. Same(WordAt(text, p), WordAt(bare, at[p])) BY <1>8, <1>9, SameButForTheEnd, Zenon
<1>11. WordAt(text, p).end = e /\ WordAt(bare, at[p]).end = at[e]
       BY <1>8, <1>9, WordTokenIs, Zenon
<1>12. e \in 0 .. N /\ e \notin within
  <2>1. e \in p .. N /\ e \notin within BY <1>4 DEF IsSameSpan
  <2> QED BY <2>1
<1> QED BY <1>10, <1>11, <1>12, Zenon DEF Agree

\* From corresponding positions, the lexer returns the same in both texts.
LEMMA SameToken ==
  ASSUME NEW text \in Seq(STRING), NEW bare \in Seq(STRING), NEW at, NEW within,
         NEW N \in Nat, N = Len(text), NEW M \in Nat, M = Len(bare),
         Reads(text, bare, at, within, N, M), NoComments(bare),
         NEW from \in 0 .. N, from \notin within
  PROVE  Agree(at, within, N, rsm_lexer_tokenize(text, from), rsm_lexer_tokenize(bare, at[from]))
<1>1. PICK s : s = SkipBlanks(text, from) OBVIOUS
<1>2. /\ s \in from .. N /\ at[s] \in 0 .. M
      /\ at[s] = SkipBlanks(bare, at[from])
      /\ s = N <=> at[s] = M
      /\ s # N => /\ s + 1 \in 0 .. N /\ s + 1 \notin within /\ at[s + 1] = at[s] + 1
                  /\ Char(bare, at[s] + 1) = Char(text, s + 1)
                  /\ Char(text, s + 1) # "\n" => s \notin within
  <2>1. IsSameStart(text, bare, at, within, N, M, from, s) BY <1>1, SameStart, Zenon
  <2> QED BY <2>1, Zenon DEF IsSameStart
<1>3. PICK a \in 0 .. M : a = at[s] BY <1>2
<1>4. PICK p \in 0 .. N : p = s BY <1>2
<1>5. PICK u, v : u = TokenAt(text, p) /\ v = TokenAt(bare, a) OBVIOUS
<1>6. u = rsm_lexer_tokenize(text, from) /\ v = rsm_lexer_tokenize(bare, at[from])
      BY <1>1, <1>2, <1>3, <1>4, <1>5, Zenon DEF rsm_lexer_tokenize
<1>7. PICK c : c = Char(text, p + 1) OBVIOUS
<1>8. DOMAIN Punctuation = {",", ":", "[", "]", "\n"} BY DEF Punctuation
<1>9. CASE p = N
  <2>1. a = M BY <1>2, <1>3, <1>4, <1>9
  <2>2. u = Token("EOF", p, 0) BY <1>5, <1>9, TokenBranches
  <2>3. v = Token("EOF", a, 0) BY <1>5, <2>1, TokenBranches
  <2>4. u.type = "EOF" BY <2>2 DEF Token
  <2> QED BY <1>6, <2>2, <2>3, <2>4, SameButForTheEnd, Zenon DEF Agree
<1>10. ASSUME p # N
       PROVE  /\ a # M /\ Char(bare, a + 1) = c
              /\ p + 1 \in 0 .. N /\ p + 1 \notin within /\ at[p + 1] = a + 1
              /\ c # "\n" => p \notin within
       BY <1>2, <1>3, <1>4, <1>7, <1>10
<1>11. ASSUME p # N, NEW type, u = Token(type, p + 1, 0), v = Token(type, a + 1, 0)
       PROVE  Agree(at, within, N, u, v)
  <2>1. u.end = p + 1 /\ v.end = a + 1 BY <1>11 DEF Token
  <2>2. Same(u, v) BY <1>11, SameButForTheEnd, Zenon
  <2> QED BY <1>10, <1>11, <2>1, <2>2, Zenon DEF Agree
<1>12. CASE p # N /\ c \in DOMAIN Punctuation
  <2>1. u = Token(Punctuation[c], p + 1, 0) BY <1>5, <1>7, <1>12, TokenBranches
  <2>2. v = Token(Punctuation[c], a + 1, 0) BY <1>5, <1>10, <1>12, TokenBranches
  <2> QED BY <1>6, <1>11, <1>12, <2>1, <2>2, Zenon
<1>13. CASE p # N /\ c \notin DOMAIN Punctuation \cup WordStart \cup Digit
  <2>1. u = Token("INVALID", p + 1, 0) BY <1>5, <1>7, <1>13, TokenBranches
  <2>2. v = Token("INVALID", a + 1, 0) BY <1>5, <1>10, <1>13, TokenBranches
  <2> QED BY <1>6, <1>11, <1>13, <2>1, <2>2, Zenon
<1>14. CASE p # N /\ c \in WordStart
  <2>1. c # "\n" BY <1>14, WordCharsAre DEF WordChar
  <2>2. p \notin within BY <1>10, <1>14, <2>1
  <2>3. u = WordAt(text, p) BY <1>5, <1>7, <1>14, TokenBranches
  <2>4. v = WordAt(bare, at[p])
    <3>1. v = WordAt(bare, a) BY <1>5, <1>10, <1>14, TokenBranches
    <3> QED BY <1>3, <1>4, <3>1, Zenon
  <2> QED BY <1>6, <2>2, <2>3, <2>4, SameWord, Zenon
<1>15. CASE p # N /\ c \in Digit
  <2>1. c # "\n" BY <1>15, WordCharsAre DEF WordChar
  <2>2. p \notin within BY <1>10, <1>15, <2>1
  <2>3. u = NumberToken(text, p) BY <1>5, <1>7, <1>15, TokenBranches
  <2>4. v = NumberToken(bare, at[p])
    <3>1. v = NumberToken(bare, a) BY <1>5, <1>10, <1>15, TokenBranches
    <3> QED BY <1>3, <1>4, <3>1, Zenon
  <2>5. p # N /\ Char(text, p + 1) \in Digit BY <1>7, <1>15
  <2> QED BY <1>6, <2>2, <2>3, <2>4, <2>5, SameNumber, Zenon
<1> QED BY <1>9, <1>12, <1>13, <1>14, <1>15, Zenon

\* Without its comments a text has the same tokens.
LEMMA TokensOfBare ==
  ASSUME NEW text \in Seq(STRING), NEW ts, ts = Tokens(text),
         NEW bs, bs = Tokens(Bare(text))
  PROVE  Len(bs) = Len(ts) /\ \A n \in DOMAIN ts : Same(ts[n], bs[n])
<1>1. PICK at, within : Without(text, Bare(text), at, within) BY BareIs
<1>2. PICK bare \in Seq(STRING) : bare = Bare(text) BY <1>1 DEF Without
<1>3. PICK N \in Nat : N = Len(text) OBVIOUS
<1>4. PICK M \in Nat : M = Len(bare) OBVIOUS
<1>5. Without(text, bare, at, within) BY <1>1, <1>2, Zenon
<1>6. Reads(text, bare, at, within, N, M) BY <1>3, <1>4, <1>5, ReadOne, Zenon
<1>7. NoComments(bare) BY <1>5, BareHasNoComment, Zenon DEF NoComments
<1>8. IsRun(text, 0, ts) BY TokensRun
<1>9. IsRun(bare, 0, bs)
  <2>1. bs = Tokens(bare) BY <1>2, Zenon
  <2> QED BY <2>1, TokensRun
<1>10. PICK K \in Nat : K + 1 = Len(ts)
  <2>1. Len(ts) - 1 \in Nat /\ Len(ts) - 1 + 1 = Len(ts) BY <1>8 DEF IsRun
  <2> QED BY <2>1
<1>11. PICK L \in Nat : L + 1 = Len(bs)
  <2>1. Len(bs) - 1 \in Nat /\ Len(bs) - 1 + 1 = Len(bs) BY <1>9 DEF IsRun
  <2> QED BY <2>1
<1> DEFINE S == {k \in 0 .. K : k <= L /\ Agree(at, within, N, ts[k + 1], bs[k + 1])}
<1> HIDE DEF S
<1>12. \A from \in 0 .. N : from \notin within =>
         Agree(at, within, N, rsm_lexer_tokenize(text, from), rsm_lexer_tokenize(bare, at[from]))
       BY <1>3, <1>4, <1>6, <1>7, SameToken, Zenon
<1>13. 0 \in S
  <2>0. 0 \in 0 .. N OBVIOUS
  <2>1. at[0] = 0 /\ 0 \notin within /\ 0 \in 0 .. N BY <1>6, <2>0, Zenon DEF Reads
  <2>2. Agree(at, within, N, rsm_lexer_tokenize(text, 0), rsm_lexer_tokenize(bare, 0))
        BY <1>12, <2>1, Zenon
  <2>3. ts[1] = rsm_lexer_tokenize(text, 0) /\ bs[1] = rsm_lexer_tokenize(bare, 0)
        BY <1>8, <1>9, Zenon DEF IsRun
  <2>4. 0 + 1 = 1 /\ 0 \in 0 .. K /\ 0 <= L OBVIOUS
  <2> QED BY <2>2, <2>3, <2>4, Zenon DEF S
<1>14. ASSUME NEW k \in 1 .. K, k - 1 \in S PROVE k \in S
  <2>1. k - 1 <= L /\ Agree(at, within, N, ts[k - 1 + 1], bs[k - 1 + 1]) BY <1>14, Zenon DEF S
  <2>2. k - 1 + 1 = k OBVIOUS
  <2>3. PICK u, v : u = ts[k] /\ v = bs[k] OBVIOUS
  <2>4. Agree(at, within, N, u, v) BY <2>1, <2>2, <2>3, Zenon
  <2>5. k \in 1 .. Len(ts) - 1 BY <1>10
  <2>6. u.type # "EOF" /\ ts[k + 1] = rsm_lexer_tokenize(text, u.end)
        BY <1>8, <2>3, <2>5, Zenon DEF IsRun
  <2>7. v.type # "EOF" BY <2>4, <2>6, Zenon DEF Agree, Same
  <2>8. k # Len(bs) BY <1>9, <2>3, <2>7, Zenon DEF IsRun
  <2>9. k \in 1 .. Len(bs) - 1 /\ k <= L BY <1>11, <2>1, <2>8
  <2>10. bs[k + 1] = rsm_lexer_tokenize(bare, v.end) BY <1>9, <2>3, <2>9, Zenon DEF IsRun
  <2>11. u.end \in 0 .. N /\ u.end \notin within /\ v.end = at[u.end]
         BY <2>4, <2>6, Zenon DEF Agree
  <2>12. Agree(at, within, N, ts[k + 1], bs[k + 1]) BY <1>12, <2>6, <2>10, <2>11, Zenon
  <2>13. k \in 0 .. K OBVIOUS
  <2> QED BY <2>9, <2>12, <2>13, Zenon DEF S
<1>15. 0 .. K \subseteq S BY <1>13, <1>14, UpTo
<1>16. K <= L /\ Agree(at, within, N, ts[K + 1], bs[K + 1])
  <2>1. K \in S BY <1>15
  <2> QED BY <2>1, Zenon DEF S
<1>17. bs[K + 1].type = "EOF"
  <2>1. ts[K + 1].type = "EOF" BY <1>8, <1>10, Zenon DEF IsRun
  <2> QED BY <1>16, <2>1, Zenon DEF Agree, Same
<1>18. K = L
  <2>1. ASSUME K # L PROVE FALSE
    <3>1. K + 1 \in 1 .. Len(bs) - 1 BY <1>11, <1>16, <2>1
    <3>2. bs[K + 1].type # "EOF" BY <1>9, <3>1, Zenon DEF IsRun
    <3> QED BY <1>17, <3>2
  <2> QED BY <2>1
<1>19. ASSUME NEW n \in DOMAIN ts PROVE Same(ts[n], bs[n])
  <2>1. ts \in Seq(Found(text)) BY <1>8 DEF IsRun
  <2>2. n \in 1 .. K + 1 BY <1>10, <2>1
  <2>3. PICK k \in 0 .. K : k = n - 1 /\ k + 1 = n
    <3>1. n - 1 \in 0 .. K /\ n - 1 + 1 = n BY <2>2
    <3> QED BY <3>1
  <2>4. k \in S BY <1>15
  <2> QED BY <2>3, <2>4, Zenon DEF S, Agree
<1> QED BY <1>10, <1>11, <1>18, <1>19

-----------------------------------------------------------------------------
(***************************************************************************)
(* The numbers of mathematics, which have no largest one.                  *)
(***************************************************************************)
\* The values of the first n digits, for every n.
IsValue(exact, digits, base) ==
  /\ exact \in [0 .. Len(digits) -> Nat]
  /\ exact[0] = 0
  /\ \A n \in 1 .. Len(digits) : exact[n] = (exact[n - 1] * base) + ValueOf(digits[n])

\* They exist.
LEMMA ValueExists ==
  ASSUME NEW base \in Bases, NEW digits \in Seq(Digits[base])
  PROVE  \E exact : IsValue(exact, digits, base)
<1>1. PICK N \in Nat : N = Len(digits) OBVIOUS
<1>2. \A n \in 1 .. N : ValueOf(digits[n]) \in Nat
  <2>1. ASSUME NEW n \in 1 .. N PROVE ValueOf(digits[n]) \in Nat
    <3>1. digits[n] \in Digits[base] BY <1>1
    <3>2. ValueOf(digits[n]) \in 0 .. base - 1 BY <3>1, DigitsOf
    <3> QED BY <3>2
  <2> QED BY <2>1
<1>3. base \in Nat BY DEF Bases
<1>4. PICK f : f = [n \in 1 .. N |-> [v \in Nat |-> (v * base) + ValueOf(digits[n])]] OBVIOUS
<1>5. f \in Steps(N, Nat)
  <2>1. \A n \in 1 .. N : \A v \in Nat : (v * base) + ValueOf(digits[n]) \in Nat BY <1>2, <1>3
  <2> QED BY <1>4, <2>1 DEF Steps
<1>6. PICK g : GivenBy(g, N, Nat, 0, f) BY <1>5, StepByStep
<1>7. ASSUME NEW n \in 1 .. N PROVE g[n] = (g[n - 1] * base) + ValueOf(digits[n])
  <2>1. n - 1 \in 0 .. N OBVIOUS
  <2>2. g[n - 1] \in Nat BY <1>6, <2>1 DEF GivenBy
  <2> QED BY <1>4, <1>6, <2>2 DEF GivenBy
<1>8. IsValue(g, digits, base) BY <1>1, <1>6, <1>7 DEF IsValue, GivenBy
<1> QED BY <1>8

\* The check before a digit is added is exact.
LEMMA OneMoreDigit ==
  ASSUME NEW base \in Bases, NEW v \in Nat, NEW d \in 0 .. base - 1
  PROVE  /\ v <= INT32_MAX =>
              ReadDigit(v, d, base) =
                IF (v * base) + d <= INT32_MAX THEN (v * base) + d ELSE TooLarge
         /\ v > INT32_MAX => (v * base) + d > INT32_MAX
<1>1. PICK max \in Nat : max = INT32_MAX /\ max > 15
  <2>1. INT32_MAX \in Nat /\ INT32_MAX > 15 BY SMT DEF INT32_MAX
  <2> QED BY <2>1
<1>2. v # TooLarge BY SMT DEF TooLarge
<1>3. CASE base = 8
  <2>1. v > (max - d) \div 8 <=> (v * 8) + d > max BY <1>1, <1>3
  <2>2. v > max => (v * 8) + d > max BY <1>1, <1>3
  <2>3. (v * 8) + d \in Int BY <1>3
  <2> QED BY <1>1, <1>2, <1>3, <2>1, <2>2, <2>3 DEF ReadDigit
<1>4. CASE base = 10
  <2>1. v > (max - d) \div 10 <=> (v * 10) + d > max BY <1>1, <1>4
  <2>2. v > max => (v * 10) + d > max BY <1>1, <1>4
  <2>3. (v * 10) + d \in Int BY <1>4
  <2> QED BY <1>1, <1>2, <1>4, <2>1, <2>2, <2>3 DEF ReadDigit
<1>5. CASE base = 16
  <2>1. v > (max - d) \div 16 <=> (v * 16) + d > max BY <1>1, <1>5
  <2>2. v > max => (v * 16) + d > max BY <1>1, <1>5
  <2>3. (v * 16) + d \in Int BY <1>5
  <2> QED BY <1>1, <1>2, <1>5, <2>1, <2>2, <2>3 DEF ReadDigit
<1> QED BY <1>3, <1>4, <1>5 DEF Bases

\* NumberOf is the value, as long as an int32_t holds it.
LEMMA NumberIsExact ==
  ASSUME NEW base \in Bases, NEW digits \in Seq(Digits[base]),
         NEW exact, IsValue(exact, digits, base)
  PROVE  /\ exact[Len(digits)] \in Nat
         /\ exact[Len(digits)] <= INT32_MAX => NumberOf(digits, base) = exact[Len(digits)]
         /\ exact[Len(digits)] > INT32_MAX => NumberOf(digits, base) = TooLarge
<1>1. PICK N \in Nat : N = Len(digits) OBVIOUS
<1>2. PICK u : Spelling(u, digits, base) BY SpellingExists
<1>3. PICK max \in Nat : max = INT32_MAX BY MaxIsNatural
<1>4. exact \in [0 .. N -> Nat] /\ exact[0] = 0 /\ u[0] = 0 BY <1>1, <1>2 DEF IsValue, Spelling
<1>5. ASSUME NEW n \in 1 .. N
      PROVE  /\ exact[n] = (exact[n - 1] * base) + ValueOf(digits[n])
             /\ u[n] = ReadDigit(u[n - 1], ValueOf(digits[n]), base)
             /\ ValueOf(digits[n]) \in 0 .. base - 1
  <2>1. digits[n] \in Digits[base] BY <1>1
  <2>2. ValueOf(digits[n]) \in 0 .. base - 1 BY <2>1, DigitsOf
  <2> QED BY <1>1, <1>2, <2>2, Zenon DEF IsValue, Spelling
<1> DEFINE Right(n) == /\ exact[n] <= max => u[n] = exact[n]
                       /\ exact[n] > max => u[n] = TooLarge
           S == {n \in 0 .. N : Right(n)}
<1> HIDE DEF S
<1>6. 0 \in S
  <2>1. Right(0) BY <1>3, <1>4
  <2> QED BY <2>1 DEF S
<1>7. ASSUME NEW n \in 1 .. N, n - 1 \in S PROVE n \in S
  <2>1. n - 1 \in 0 .. N /\ n \in 0 .. N OBVIOUS
  <2>2. PICK v \in Nat, w \in Nat : v = exact[n - 1] /\ w = exact[n] BY <1>4, <2>1
  <2>3. PICK d \in 0 .. base - 1 : d = ValueOf(digits[n]) BY <1>5
  <2>4. w = (v * base) + d /\ u[n] = ReadDigit(u[n - 1], d, base) BY <1>5, <2>2, <2>3, Zenon
  <2>5. Right(n - 1) BY <1>7 DEF S
  <2>6. CASE v <= max
    <3>1. u[n - 1] = v BY <2>2, <2>5, <2>6
    <3>2. u[n] = IF w <= max THEN w ELSE TooLarge
          BY <1>3, <2>4, <2>6, <3>1, OneMoreDigit, Zenon
    <3>3. Right(n) BY <2>2, <3>2
    <3> QED BY <2>1, <3>3 DEF S
  <2>7. CASE v > max
    <3>1. u[n - 1] = TooLarge BY <2>2, <2>5, <2>7
    <3>2. u[n] = TooLarge BY <2>4, <3>1, Zenon DEF ReadDigit
    <3>3. w > max BY <1>3, <2>4, <2>7, OneMoreDigit, Zenon
    <3>4. Right(n) BY <2>2, <3>2, <3>3
    <3> QED BY <2>1, <3>4 DEF S
  <2> QED BY <2>6, <2>7
<1>8. 0 .. N \subseteq S BY <1>1, <1>6, <1>7, UpTo
<1>9. N \in S BY <1>8
<1>10. Right(N) BY <1>9 DEF S
<1>11. NumberOf(digits, base) = u[N] BY <1>1, <1>2, OneSpelling
<1>12. exact[N] \in Nat BY <1>4
<1> QED BY <1>1, <1>3, <1>10, <1>11, <1>12, Zenon

\* What the range check of rsm_lexer_tokenize is for: the int32_t of a token is
\* the value the digits have in their base, for every number of digits, and
\* none wraps around.  A number larger than INT32_MAX is an invalid token where
\* a long is wide, and INT32_MAX where it is not, as strtol saturates there.
THEOREM NumbersAreExact ==
  ASSUME NEW text \in Seq(STRING), NEW pos \in 0 .. Len(text), pos # Len(text),
         Char(text, pos + 1) \in Digit,
         NEW digits, digits = DigitsAt(text, pos), NEW end, end = DigitsTo(text, pos)
  PROVE  \E exact :
           /\ IsValue(exact, digits, Base(text, pos))
           /\ exact[Len(digits)] <= INT32_MAX =>
                NumberToken(text, pos) = Token("NUMBER", end, exact[Len(digits)])
           /\ exact[Len(digits)] > INT32_MAX =>
                NumberToken(text, pos) = IF LongIsWide THEN Token("INVALID", end, 0)
                                         ELSE Token("NUMBER", end, INT32_MAX)
<1>1. PICK base \in Bases : base = Base(text, pos) BY DigitsSpan
<1>2. digits \in Seq(Digits[base]) BY <1>1, DigitsSpan
<1>3. PICK exact : IsValue(exact, digits, base) BY <1>2, ValueExists
<1>4. PICK value : value = exact[Len(digits)] OBVIOUS
<1>5. PICK n : n = NumberOf(digits, base) OBVIOUS
<1>6. value \in Nat /\ (value <= INT32_MAX => n = value) /\ (value > INT32_MAX => n = TooLarge)
      BY <1>2, <1>3, <1>4, <1>5, NumberIsExact, Zenon
<1>7. value # TooLarge BY <1>6, SMT DEF TooLarge
<1>8. NumberToken(text, pos) =
        IF n # TooLarge THEN Token("NUMBER", end, n)
        ELSE IF LongIsWide THEN Token("INVALID", end, 0)
        ELSE Token("NUMBER", end, INT32_MAX)
      BY <1>1, <1>5, Zenon DEF NumberToken, DigitsAt, DigitsFrom, DigitsTo
<1> QED BY <1>1, <1>3, <1>4, <1>6, <1>7, <1>8, Zenon

=============================================================================
