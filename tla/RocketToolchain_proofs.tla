----------------------- MODULE RocketToolchain_proofs -----------------------
(***************************************************************************)
(* Theorems about rocketasm and rocketrun on one file, for every set of    *)
(* texts and old files, every layout and every interleaving of the two.    *)
(* The invariants of the parser, of the encoder and of the machine are     *)
(* taken over from their modules; what is new is about the file between    *)
(* them: which bytes it holds, and how much of it was read before it was   *)
(* written again.                                                          *)
(***************************************************************************)
EXTENDS RocketToolchain, RocketVm_proofs, RocketCpu_stack

-----------------------------------------------------------------------------
(***************************************************************************)
(* rocketasm up to the words.                                              *)
(***************************************************************************)
FrontPhase == {"start", "parsing"} \cup P!Ended
BackPhase  == {"parsed", "resolved", "emitting", "failed", "done"}

\* The invariant of the parser until it returns, that of the encoder from
\* then on, and no word before the file is open.
AsmInv ==
  /\ asm \in FrontPhase \cup BackPhase
  /\ asm \in FrontPhase => P!PInv
  /\ asm \in BackPhase => A!AInv
  /\ asm \in FrontPhase \cup {"resolved"} => out = <<>>

\* The assumptions of the parser's module.
LEMMA ParserAssumptions ==
  /\ Capacity \in Nat \ {0}
  /\ UINT16_MAX \in P!Word
  /\ LongIsWide \in BOOLEAN
  /\ \A t \in Texts : t \in Seq(STRING)
BY FrontEndAssumption DEF Word, P!Word

LEMMA ParserTokens == \A t \in Texts : P!IsTokens(P!Tokens(t))
BY ParserAssumptions, P!TextsHaveTokens

\* A parsed program is one for the encoder: the two modules mean the same.
LEMMA SameContract == ASSUME NEW p, P!IsParsed(p) PROVE A!IsParsed(p)
BY DEF P!IsParsed, A!IsParsed, P!IsArray, A!IsArray, P!IsParsedInstr, A!IsParsedInstr,
       P!IsParsedOperand, A!IsParsedOperand, P!NoOperand, A!NoOperand,
       P!Word, A!Word, P!Reg, A!Reg, P!RVM_OP, A!RVM_OP

\* The parser hands over such a program.
LEMMA HandedOver == P!PInv => A!IsParsed(program)
<1> SUFFICES ASSUME P!PInv PROVE A!IsParsed(program) OBVIOUS
<1>1. P!IsTokens(tokens) BY ParserTokens DEF P!PInv
<1>2. P!ProgramOK BY DEF P!PInv
<1>3. P!KeepsTheContract BY <1>1, <1>2, ParserAssumptions, P!ContractKept
<1> QED BY <1>3, SameContract DEF P!KeepsTheContract

LEMMA AsmInit == ToolInit => AsmInv
<1> SUFFICES ASSUME ToolInit PROVE AsmInv OBVIOUS
<1>1. P!PInv BY ParserAssumptions, P!ParserInit DEF ToolInit
<1>2. asm = "start" /\ out = <<>> BY DEF ToolInit, P!Init
<1> QED BY <1>1, <1>2 DEF AsmInv, FrontPhase, BackPhase, P!Ended

\* The front end.
LEMMA ParseKeepsAsm == ASSUME AsmInv, Parse PROVE AsmInv'
<1>1. P!FrontEnd /\ out' = out BY DEF Parse, output
<1>2. asm \in {"start", "parsing"}
      BY <1>1 DEF P!FrontEnd, P!Usage, P!SetupFails, P!Start, P!Label, P!Instruction,
                  P!NewLine, P!EndOfText, P!Reject, P!PushFails, P!AtLabel, P!Holding,
                  P!Unexpected, P!LabelTooFar, P!BadInstruction
<1>3. P!PInv /\ out = <<>> BY <1>2 DEF AsmInv, FrontPhase
<1>4. P!PInv' BY <1>1, <1>3, ParserAssumptions, P!ParserStep DEF P!Next
<1>5. asm' \in FrontPhase BY <1>4 DEF P!PInv, P!TypeOK, FrontPhase
<1>6. asm' \in BackPhase => asm' = "parsed" BY <1>5 DEF FrontPhase, BackPhase, P!Ended
<1>7. (P!PInv => A!IsParsed(program))' BY HandedOver, PTL
<1>8. A!IsParsed(program)' BY <1>4, <1>7
<1>9. Len(program'.instrs) \in Nat BY <1>8 DEF A!IsParsed, A!IsArray
<1>10. asm' = "parsed" => A!TypeOK' BY <1>1, <1>3, <1>9 DEF A!TypeOK
<1>11. asm' = "parsed" => A!AInv'
       BY <1>1, <1>3, <1>8, <1>10 DEF A!AInv, A!Resolved
<1> QED BY <1>1, <1>3, <1>4, <1>5, <1>6, <1>11 DEF AsmInv

\* A step that only the files know of.
LEMMA AsmUnchanged == ASSUME AsmInv, UNCHANGED <<text, program, asm, out>> PROVE AsmInv'
<1>1. UNCHANGED P!vars /\ UNCHANGED A!vars BY DEF P!vars, A!vars, text
<1>2. asm \in FrontPhase => P!PInv' BY <1>1, ParserAssumptions, P!ParserStep DEF AsmInv
<1>3. asm \in BackPhase => A!AInv' BY <1>1, A!AssemblerStep DEF AsmInv
<1> QED BY <1>2, <1>3 DEF AsmInv

\* The back end.
LEMMA EncodeKeepsAsm ==
  ASSUME AsmInv, asm \in BackPhase, A!Next,
         asm' \in BackPhase \ {"parsed"}, asm' = "resolved" => out' = <<>>
  PROVE  AsmInv'
<1>1. A!AInv' BY A!AssemblerStep DEF AsmInv
<1> QED BY <1>1 DEF AsmInv, FrontPhase, BackPhase, P!Ended

LEMMA RocketasmKeepsAsm == ASSUME AsmInv, rocketasm PROVE AsmInv'
<1>1. CASE Parse BY <1>1, ParseKeepsAsm
<1>2. CASE Flush \/ FlushFails
      BY <1>2, AsmUnchanged DEF Flush, FlushFails
<1>3. CASE ResolveLabels
  <2>1. A!Resolve /\ asm = "parsed" /\ asm' \in {"resolved", "failed"} /\ out' = out
        BY <1>3 DEF ResolveLabels, A!Resolve
  <2>2. out = <<>> BY <2>1 DEF AsmInv, FrontPhase, P!Ended
  <2> QED BY <2>1, <2>2, EncodeKeepsAsm DEF A!Next, BackPhase
<1>4. CASE OpenOutput
  <2>1. A!OpenOutput /\ asm = "resolved" /\ asm' \in {"emitting", "failed"}
        BY <1>4 DEF OpenOutput, A!OpenOutput
  <2> QED BY <2>1, EncodeKeepsAsm DEF A!Next, BackPhase
<1>5. CASE Emit
  <2>1. A!EmitWord /\ asm = "emitting" /\ asm' = asm BY <1>5 DEF Emit, A!EmitWord, A!More
  <2> QED BY <2>1, EncodeKeepsAsm DEF A!Next, BackPhase
<1>6. CASE CloseOutput
  <2>1. A!CloseOutput /\ asm = "emitting" /\ asm' = "done"
        BY <1>6 DEF CloseOutput, A!CloseOutput
  <2> QED BY <2>1, EncodeKeepsAsm DEF A!Next, BackPhase
<1>7. CASE EmitFails
  <2>1. A!EmitFails /\ asm = "emitting" /\ asm' = "failed"
        BY <1>7 DEF EmitFails, A!EmitFails, A!More
  <2> QED BY <2>1, EncodeKeepsAsm DEF A!Next, BackPhase
<1> QED BY <1>1, <1>2, <1>3, <1>4, <1>5, <1>6, <1>7 DEF rocketasm

-----------------------------------------------------------------------------
(***************************************************************************)
(* The bytes.  A file of rocketasm is untouched, or it was opened and      *)
(* holds, with the buffer of stdio, a beginning of what was emitted.  If   *)
(* no write has failed that is all of it, byte by byte.                    *)
(***************************************************************************)
\* Byte i of the words o.
Emitted(o, i) == WordBytes(o[(i + 1) \div 2])[IF i % 2 = 1 THEN 1 ELSE 2]

IsBeginning(s, t) == Len(s) <= Len(t) /\ \A i \in 1 .. Len(s) : s[i] = t[i]

\* The file f and the buffer p hold the bytes of o.
Holds(f, p, o) ==
  /\ \A i \in 1 .. Len(f) : f[i] = Emitted(o, i)
  /\ \A i \in 1 .. Len(p) : p[i] = Emitted(o, Len(f) + i)

Untouched ==
  /\ asm \notin {"emitting", "done"}
  /\ file = old /\ out = <<>> /\ pending = <<>>
  /\ IsBeginning(buf, old)

Opened ==
  /\ asm \in {"emitting", "failed", "done"}
  /\ A!resolve_labels(program)
  /\ asm = "done" => pending = <<>>
  /\ Len(file) + Len(pending) <= 2 * Len(out)
  /\ NothingLost => Holds(file, pending, out)

FileInv ==
  /\ file \in Seq(Byte) /\ pending \in Seq(Byte) /\ old \in Seq(Byte)
  /\ Untouched \/ Opened

\* A word more leaves the bytes of the others where they are ...
LEMMA EmittedKept ==
  ASSUME NEW S, NEW o, o \in Seq(S), NEW w, w \in S, NEW i, i \in 1 .. 2 * Len(o)
  PROVE  Emitted(Append(o, w), i) = Emitted(o, i)
<1>1. (i + 1) \div 2 \in 1 .. Len(o) OBVIOUS
<1>2. Append(o, w)[(i + 1) \div 2] = o[(i + 1) \div 2] BY <1>1
<1> QED BY <1>2 DEF Emitted

\* ... and has its own two behind them.
LEMMA EmittedLast ==
  ASSUME NEW S, NEW o, o \in Seq(S), NEW w, w \in S
  PROVE  /\ Emitted(Append(o, w), 2 * Len(o) + 1) = w % 256
         /\ Emitted(Append(o, w), 2 * Len(o) + 2) = w \div 256
<1>1. PICK n \in Nat : n = Len(o) OBVIOUS
<1>2. (2 * n + 1 + 1) \div 2 = n + 1 /\ (2 * n + 1) % 2 = 1 OBVIOUS
<1>3. (2 * n + 2 + 1) \div 2 = n + 1 /\ (2 * n + 2) % 2 = 0 OBVIOUS
<1>4. Append(o, w)[n + 1] = w BY <1>1
<1> QED BY <1>1, <1>2, <1>3, <1>4 DEF Emitted, WordBytes

LEMMA WordBytesAreBytes ==
  ASSUME NEW w, w \in Word
  PROVE  /\ WordBytes(w) \in Seq(Byte) /\ Len(WordBytes(w)) = 2
         /\ WordBytes(w)[1] = w % 256 /\ WordBytes(w)[2] = w \div 256
<1>1. w % 256 \in Byte /\ w \div 256 \in Byte BY DEF Word, Byte
<1> QED BY <1>1 DEF WordBytes

LEMMA PairBehind ==
  ASSUME NEW S, NEW p, p \in Seq(S), NEW b, b \in Seq(S), Len(b) = 2
  PROVE  /\ Len(p \o b) = Len(p) + 2
         /\ \A i \in 1 .. Len(p) : (p \o b)[i] = p[i]
         /\ (p \o b)[Len(p) + 1] = b[1] /\ (p \o b)[Len(p) + 2] = b[2]
<1>1. /\ Len(p \o b) = Len(p) + Len(b)
      /\ \A i \in 1 .. Len(p) + Len(b) :
           (p \o b)[i] = IF i <= Len(p) THEN p[i] ELSE b[i - Len(p)]
      BY ConcatProperties, Zenon
<1>2. PICK c : c = p \o b OBVIOUS
<1>3. PICK n \in Nat : n = Len(p) OBVIOUS
<1>4. /\ Len(c) = n + 2
      /\ \A i \in 1 .. n + 2 : c[i] = IF i <= n THEN p[i] ELSE b[i - n]
      BY <1>1, <1>2, <1>3, Zenon
<1>5. \A i \in 1 .. n : c[i] = p[i] BY ONLY <1>4, n \in Nat
<1>6. c[n + 1] = b[1] /\ c[n + 2] = b[2] BY ONLY <1>4, n \in Nat
<1> QED BY <1>2, <1>3, <1>4, <1>5, <1>6, Zenon

\* fwrite of a word.
LEMMA AppendHolds ==
  ASSUME NEW f, f \in Seq(Byte), NEW p, p \in Seq(Byte), NEW o, o \in Seq(Word),
         NEW w, w \in Word, Holds(f, p, o), Len(f) + Len(p) = 2 * Len(o)
  PROVE  Holds(f, p \o WordBytes(w), Append(o, w))
<1> DEFINE q == p \o WordBytes(w)
           n == Len(p)
<1>1. n \in Nat /\ Len(f) \in Nat /\ Len(o) \in Nat OBVIOUS
<1>2. /\ Len(q) = n + 2
      /\ \A i \in 1 .. n : q[i] = p[i]
      /\ q[n + 1] = w % 256 /\ q[n + 2] = w \div 256
  <2>1. PICK b : b = WordBytes(w) OBVIOUS
  <2>2. b \in Seq(Byte) /\ Len(b) = 2 /\ b[1] = w % 256 /\ b[2] = w \div 256
        BY <2>1, WordBytesAreBytes
  <2>3. /\ Len(p \o b) = Len(p) + 2
        /\ \A i \in 1 .. Len(p) : (p \o b)[i] = p[i]
        /\ (p \o b)[Len(p) + 1] = b[1] /\ (p \o b)[Len(p) + 2] = b[2]
        BY <2>2, PairBehind
  <2> QED BY <2>1, <2>2, <2>3
<1>3. ASSUME NEW i \in 1 .. Len(f) PROVE f[i] = Emitted(Append(o, w), i)
  <2>1. f[i] = Emitted(o, i) BY DEF Holds
  <2>2. i \in 1 .. 2 * Len(o) BY <1>1
  <2> QED BY <2>1, <2>2, EmittedKept
<1>4. ASSUME NEW i \in 1 .. n PROVE q[i] = Emitted(Append(o, w), Len(f) + i)
  <2>1. p[i] = Emitted(o, Len(f) + i) BY DEF Holds
  <2>2. Len(f) + i \in 1 .. 2 * Len(o) BY <1>1
  <2>3. Emitted(Append(o, w), Len(f) + i) = Emitted(o, Len(f) + i) BY <2>2, EmittedKept
  <2> QED BY <1>2, <2>1, <2>3
<1>5. /\ q[n + 1] = Emitted(Append(o, w), Len(f) + (n + 1))
      /\ q[n + 2] = Emitted(Append(o, w), Len(f) + (n + 2))
  <2>1. Len(f) + (n + 1) = 2 * Len(o) + 1 /\ Len(f) + (n + 2) = 2 * Len(o) + 2 BY <1>1
  <2> HIDE DEF q, n
  <2> QED BY <1>2, <2>1, EmittedLast
<1>6. \A i \in 1 .. Len(q) : i \in 1 .. n \/ i = n + 1 \/ i = n + 2 BY <1>1, <1>2
<1>7. \A i \in 1 .. Len(q) : q[i] = Emitted(Append(o, w), Len(f) + i)
  <2> HIDE DEF q, n
  <2> QED BY <1>4, <1>5, <1>6
<1> QED BY <1>3, <1>7 DEF Holds

\* A flush of n bytes takes the file f and the buffer p to g and q.
Flushed(f, p, n, g, q) ==
  /\ f \in Seq(Byte) /\ p \in Seq(Byte) /\ n \in 0 .. Len(p)
  /\ g = f \o SubSeq(p, 1, n)
  /\ q = SubSeq(p, n + 1, Len(p))

LEMMA FlushHolds ==
  ASSUME NEW f, NEW p, NEW o, NEW n, NEW g, NEW q, Flushed(f, p, n, g, q)
  PROVE  /\ g \in Seq(Byte) /\ Len(g) = Len(f) + n
         /\ q \in Seq(Byte) /\ Len(q) = Len(p) - n
         /\ Holds(f, p, o) => Holds(g, q, o)
<1> USE DEF Flushed
<1>1. Len(f) \in Nat /\ Len(p) \in Nat /\ n \in Nat /\ n <= Len(p) OBVIOUS
<1>2. SubSeq(p, 1, n) \in Seq(Byte) /\ Len(SubSeq(p, 1, n)) = n
      /\ \A i \in 1 .. n : SubSeq(p, 1, n)[i] = p[i]
      BY <1>1
<1>3. /\ g \in Seq(Byte) /\ Len(g) = Len(f) + n
      /\ \A i \in 1 .. Len(f) : g[i] = f[i]
      /\ \A i \in 1 .. n : g[Len(f) + i] = p[i]
  <2>1. PICK s : s = SubSeq(p, 1, n) OBVIOUS
  <2> QED BY <1>1, <1>2, <2>1
<1>4. /\ q \in Seq(Byte) /\ Len(q) = Len(p) - n
      /\ \A i \in 1 .. Len(p) - n : q[i] = p[n + i]
      BY <1>1
<1>5. ASSUME Holds(f, p, o) PROVE Holds(g, q, o)
  <2>1. ASSUME NEW i \in 1 .. Len(g) PROVE g[i] = Emitted(o, i)
    <3>1. CASE i \in 1 .. Len(f) BY <1>3, <1>5, <3>1 DEF Holds
    <3>2. CASE i \notin 1 .. Len(f)
      <4>1. PICK k \in 1 .. n : i = Len(f) + k
        <5>1. i - Len(f) \in 1 .. n /\ i = Len(f) + (i - Len(f)) BY <1>1, <1>3, <3>2
        <5> QED BY <5>1
      <4>2. k \in 1 .. Len(p) BY <1>1
      <4>3. p[k] = Emitted(o, Len(f) + k) BY <1>5, <4>2 DEF Holds
      <4> QED BY <1>3, <4>1, <4>3
    <3> QED BY <3>1, <3>2
  <2>2. ASSUME NEW i \in 1 .. Len(q) PROVE q[i] = Emitted(o, Len(g) + i)
    <3>1. n + i \in 1 .. Len(p) /\ Len(g) + i = Len(f) + (n + i)
      <4>1. PICK k \in 1 .. Len(p) - n : k = i BY <1>4
      <4>2. n + k \in 1 .. Len(p) /\ (Len(f) + n) + k = Len(f) + (n + k) BY <1>1
      <4> QED BY <1>3, <4>1, <4>2
    <3>2. p[n + i] = Emitted(o, Len(f) + (n + i)) BY <1>5, <3>1 DEF Holds
    <3>3. q[i] = p[n + i] BY <1>4
    <3> QED BY <3>1, <3>2, <3>3
  <2> QED BY <2>1, <2>2 DEF Holds
<1> QED BY <1>3, <1>4, <1>5

\* What is in the file when nothing else is.
LEMMA HoldsWithoutBuffer ==
  ASSUME NEW f, NEW p, NEW o, Holds(f, p, o)
  PROVE  Holds(f, <<>>, o)
BY DEF Holds

\* The words are words for the processor, too.
LEMMA WordsEmitted ==
  ASSUME AsmInv, asm \in BackPhase
  PROVE  out \in Seq(Word) /\ Len(out) \in Nat
<1>1. A!Word = Word BY DEF A!Word, Word
<1>2. out \in Seq(A!Word) BY DEF AsmInv, A!AInv, A!TypeOK
<1> QED BY <1>1, <1>2

\* One word after the other is emitted.
LEMMA EmitsWord ==
  ASSUME AsmInv, Emit
  PROVE  /\ asm = "emitting" /\ asm' = asm /\ UNCHANGED <<program, file>>
         /\ out \in Seq(Word) /\ Len(out) \in Nat /\ Len(out') = Len(out) + 1
         /\ \E w \in Word : out' = Append(out, w) /\ pending' = pending \o WordBytes(w)
<1>1. AsmInv' BY RocketasmKeepsAsm DEF rocketasm
<1>2. /\ asm = "emitting" /\ asm' = asm /\ UNCHANGED <<program, file>>
      /\ \E w : out' = Append(out, w)
      /\ pending' = pending \o WordBytes(out'[Len(out')])
      BY DEF Emit, A!EmitWord, A!More
<1>3. PICK w : out' = Append(out, w) BY <1>2
<1>4. out \in Seq(Word) /\ Len(out) \in Nat BY <1>2, WordsEmitted DEF BackPhase
<1>5. (asm \in BackPhase /\ AsmInv => out \in Seq(Word))' BY WordsEmitted, PTL
<1>6. out' \in Seq(Word) BY <1>1, <1>2, <1>5 DEF BackPhase
<1>7. Len(out') = Len(out) + 1 /\ out'[Len(out) + 1] = w BY <1>3, <1>4
<1>8. Len(out) + 1 \in 1 .. Len(out') BY <1>4, <1>7
<1>9. w \in Word BY <1>6, <1>7, <1>8
<1> QED BY <1>2, <1>3, <1>4, <1>7, <1>9

\* rocketasm writes bytes, and what it has lost it never makes good.
LEMMA RocketasmKeepsFile ==
  ASSUME AsmInv, FileInv, rocketasm
  PROVE  FileInv' /\ (NothingLost' => NothingLost)
<1>1. AsmInv' BY RocketasmKeepsAsm
<1>2. /\ file \in Seq(Byte) /\ pending \in Seq(Byte) /\ old \in Seq(Byte)
      /\ Len(file) \in Nat /\ Len(pending) \in Nat
      BY DEF FileInv
<1>3. buf' = buf /\ old' = old
      BY DEF rocketasm, Parse, ResolveLabels, OpenOutput, Emit, Flush, FlushFails,
             CloseOutput, EmitFails, AsmOnly, runner, loader
<1>4. CASE Parse \/ ResolveLabels
  <2>1. /\ asm \notin {"emitting", "failed", "done"} /\ asm' \notin {"emitting", "done"}
        /\ UNCHANGED <<out, pending, file>>
    <3>1. CASE Parse
      <4>1. asm \in {"start", "parsing"}
            BY <3>1 DEF Parse, P!FrontEnd, P!Usage, P!SetupFails, P!Start, P!Label,
                        P!Instruction, P!NewLine, P!EndOfText, P!Reject, P!PushFails,
                        P!AtLabel, P!Holding, P!Unexpected, P!LabelTooFar, P!BadInstruction
      <4>2. asm' \in {"start", "parsing", "usage", "error", "rejected", "parsed"}
            BY <3>1, <4>1
               DEF Parse, P!FrontEnd, P!Usage, P!SetupFails, P!Start, P!Label,
                   P!Instruction, P!NewLine, P!EndOfText, P!Reject, P!PushFails,
                   P!AtLabel, P!Holding, P!Unexpected, P!LabelTooFar, P!BadInstruction
      <4> QED BY <3>1, <4>1, <4>2 DEF Parse, output
    <3>2. CASE ResolveLabels BY <3>2 DEF ResolveLabels, A!Resolve
    <3> QED BY <1>4, <3>1, <3>2
  <2>2. Untouched BY <2>1 DEF FileInv, Opened
  <2> QED BY <1>2, <1>3, <2>1, <2>2 DEF FileInv, Untouched, NothingLost
<1>5. CASE OpenOutput
  <2>1. /\ asm = "resolved" /\ asm' \in {"emitting", "failed"}
        /\ file' = IF asm' = "emitting" THEN <<>> ELSE file
        /\ UNCHANGED <<program, out, pending>>
        BY <1>5 DEF OpenOutput, A!OpenOutput
  <2>2. Untouched BY <2>1 DEF FileInv, Opened
  <2>3. NothingLost BY <1>2, <2>2 DEF Untouched, NothingLost
  <2>4. CASE asm' = "failed" BY <1>2, <1>3, <2>1, <2>2, <2>3, <2>4 DEF FileInv, Untouched
  <2>5. CASE asm' = "emitting"
    <3>1. A!resolve_labels(program)' BY <1>1, <2>5 DEF AsmInv, BackPhase, A!AInv, A!Resolved
    <3>2. file' = <<>> /\ pending' = <<>> /\ out' = <<>> BY <2>1, <2>2, <2>5 DEF Untouched
    <3>3. Holds(file', pending', out') BY <3>2 DEF Holds
    <3>4. Opened' BY <2>5, <3>1, <3>2, <3>3 DEF Opened
    <3> QED BY <1>2, <1>3, <2>3, <3>2, <3>4 DEF FileInv
  <2> QED BY <2>1, <2>4, <2>5
<1>6. ASSUME asm = "emitting", asm' \in {"emitting", "failed", "done"},
             UNCHANGED <<program, out>>,
             NEW n \in 0 .. Len(pending), file' = file \o SubSeq(pending, 1, n),
             \/ pending' = <<>>
             \/ asm' = "emitting" /\ pending' = SubSeq(pending, n + 1, Len(pending))
      PROVE  FileInv' /\ (NothingLost' => NothingLost)
  <2>1. Opened BY <1>6 DEF FileInv, Untouched
  <2>2. PICK q : q = SubSeq(pending, n + 1, Len(pending)) OBVIOUS
  <2>3. /\ file' \in Seq(Byte) /\ Len(file') = Len(file) + n
        /\ q \in Seq(Byte) /\ Len(q) = Len(pending) - n
        /\ Holds(file, pending, out) => Holds(file', q, out)
    <3>1. Flushed(file, pending, n, file', q) BY <1>2, <1>6, <2>2 DEF Flushed
    <3> QED BY <3>1, FlushHolds
  <2>4. Len(pending') <= Len(pending) - n /\ pending' \in Seq(Byte)
    <3>1. CASE pending' = <<>> BY <1>2, <3>1
    <3>2. CASE pending' = q BY <1>2, <2>3, <3>2
    <3> QED BY <1>6, <2>2, <3>1, <3>2
  <2>5. Len(out) \in Nat BY <1>6, WordsEmitted DEF BackPhase
  <2>6. Len(file') + Len(pending') <= Len(file) + Len(pending) BY <1>2, <2>3, <2>4
  <2>7. NothingLost' => NothingLost BY <1>2, <1>6, <2>3, <2>4, <2>5, <2>6 DEF NothingLost
  <2>8. Holds(file, pending, out) => Holds(file', pending', out')
        BY <1>6, <2>2, <2>3, HoldsWithoutBuffer
  <2>9. A!resolve_labels(program)' BY <1>6, <2>1 DEF Opened
  <2>10. Len(file') + Len(pending') <= 2 * Len(out')
         BY <1>2, <1>6, <2>1, <2>3, <2>4, <2>5, <2>6 DEF Opened
  <2>11. asm' = "done" => pending' = <<>> BY <1>6
  <2>12. Opened' BY <1>6, <2>1, <2>7, <2>8, <2>9, <2>10, <2>11 DEF Opened
  <2> QED BY <1>2, <1>3, <2>3, <2>4, <2>7, <2>12 DEF FileInv
<1>7. CASE Emit
  <2>1. /\ asm = "emitting" /\ asm' = asm /\ UNCHANGED <<program, file>>
        /\ out \in Seq(Word) /\ Len(out) \in Nat /\ Len(out') = Len(out) + 1
        BY <1>7, EmitsWord
  <2>2. PICK w \in Word : out' = Append(out, w) /\ pending' = pending \o WordBytes(w)
        BY <1>7, EmitsWord
  <2>3. Opened BY <2>1 DEF FileInv, Untouched
  <2>4. pending' \in Seq(Byte) /\ Len(pending') = Len(pending) + 2
    <3>1. PICK b : b = WordBytes(w) OBVIOUS
    <3>2. b \in Seq(Byte) /\ Len(b) = 2 BY <3>1, WordBytesAreBytes
    <3>3. pending' = pending \o b BY <2>2, <3>1
    <3>4. pending \o b \in Seq(Byte) BY <1>2, <3>2
    <3>5. Len(pending \o b) = Len(pending) + 2 BY <1>2, <3>2, PairBehind
    <3> QED BY <3>3, <3>4, <3>5
  <2>5. NothingLost' => NothingLost BY <1>2, <2>1, <2>4 DEF NothingLost
  <2>6. NothingLost => Len(file) + Len(pending) = 2 * Len(out)
    <3>1. Len(file) + Len(pending) <= 2 * Len(out) BY <2>3 DEF Opened
    <3>2. NothingLost => Len(file) + Len(pending) >= 2 * Len(out) BY DEF NothingLost
    <3>3. PICK l \in Nat : l = Len(out) BY <2>1
    <3>4. PICK b \in Nat : b = Len(file) + Len(pending) BY <1>2
    <3>5. b <= 2 * l /\ (NothingLost => b >= 2 * l) BY <3>1, <3>2, <3>3, <3>4
    <3>6. NothingLost => b = 2 * l BY <3>5
    <3> QED BY <3>3, <3>4, <3>6
  <2>7. NothingLost => Holds(file', pending', out')
         BY <1>2, <2>1, <2>2, <2>3, <2>6, AppendHolds DEF Opened
  <2>8. A!resolve_labels(program)'
         BY <2>1, <2>3 DEF Opened
  <2>9. Len(file') + Len(pending') <= 2 * Len(out')
         BY <1>2, <2>1, <2>3, <2>4 DEF Opened
  <2>10. Opened' BY <2>1, <2>5, <2>7, <2>8, <2>9 DEF Opened
  <2> QED BY <1>2, <1>3, <2>1, <2>4, <2>5, <2>10 DEF FileInv
<1>8. CASE Flush
  <2>1. PICK n \in 1 .. Len(pending) :
          /\ file' = file \o SubSeq(pending, 1, n)
          /\ pending' = SubSeq(pending, n + 1, Len(pending))
        BY <1>8 DEF Flush
  <2>2. n \in 0 .. Len(pending) BY <1>2
  <2> QED BY <1>6, <1>8, <2>1, <2>2 DEF Flush
<1>9. CASE FlushFails
  <2>1. file' = file \o SubSeq(pending, 1, 0) /\ 0 \in 0 .. Len(pending)
    <3>1. SubSeq(pending, 1, 0) = <<>> BY <1>2
    <3>2. file \o <<>> = file BY <1>2, ConcatEmptySeq
    <3> QED BY <1>2, <1>9, <3>1, <3>2 DEF FlushFails
  <2> QED BY <1>6, <1>9, <2>1 DEF FlushFails
<1>10. CASE CloseOutput \/ EmitFails
  <2>1. /\ LastFlush /\ asm = "emitting" /\ asm' \in {"failed", "done"}
        /\ UNCHANGED <<program, out>>
        BY <1>10 DEF CloseOutput, EmitFails, A!CloseOutput, A!EmitFails, A!More
  <2>2. PICK n \in 0 .. Len(pending) : file' = file \o SubSeq(pending, 1, n)
        BY <2>1 DEF LastFlush
  <2> QED BY <1>6, <2>1, <2>2 DEF LastFlush
<1> QED BY <1>4, <1>5, <1>7, <1>8, <1>9, <1>10 DEF rocketasm

-----------------------------------------------------------------------------
(***************************************************************************)
(* rocketrun beside it.                                                    *)
(***************************************************************************)
\* What a read delivers: more of the file, at the places it has there.
LEMMA ReadBytes ==
  ASSUME buf \in Seq(Byte), file \in Seq(Byte), size \in Nat, Read
  PROVE  /\ buf' \in Seq(Byte) /\ Len(buf) \in Nat /\ Len(buf') \in Nat
         /\ Len(buf) <= Len(buf') /\ Len(buf') <= Len(file)
         /\ \A i \in 1 .. Len(buf) : buf'[i] = buf[i]
         /\ \A i \in Len(buf) + 1 .. Len(buf') : buf'[i] = file[i]
<1>1. PICK n \in Len(buf) + 1 .. size :
        n <= Len(file) /\ buf' = buf \o SubSeq(file, Len(buf) + 1, n)
      BY DEF Read
<1>2. PICK l \in Nat : l = Len(buf) OBVIOUS
<1>3. n \in Nat /\ l + 1 <= n /\ Len(file) \in Nat BY <1>1, <1>2
<1>4. PICK s : s = SubSeq(file, l + 1, n) OBVIOUS
<1>5. /\ s \in Seq(Byte) /\ Len(s) = n - l
      /\ \A i \in 1 .. n - l : s[i] = file[l + i]
      BY <1>1, <1>3, <1>4
<1>6. /\ buf \o s \in Seq(Byte) /\ Len(buf \o s) = Len(buf) + Len(s)
      /\ \A i \in 1 .. Len(buf) + Len(s) :
           (buf \o s)[i] = IF i <= Len(buf) THEN buf[i] ELSE s[i - Len(buf)]
      BY <1>5, ConcatProperties, Zenon
<1>7. PICK c : c = buf \o s OBVIOUS
<1>8. /\ c \in Seq(Byte) /\ Len(c) = n
      /\ \A i \in 1 .. n : c[i] = IF i <= l THEN buf[i] ELSE s[i - l]
  <2>1. Len(buf) + Len(s) = n BY <1>2, <1>3, <1>5
  <2> QED BY <1>2, <1>6, <1>7, <2>1, Zenon
<1>9. buf' = c BY <1>1, <1>2, <1>4, <1>7
<1>10. \A i \in 1 .. l : c[i] = buf[i] BY <1>3, <1>8
<1>11. ASSUME NEW i \in l + 1 .. n PROVE c[i] = file[i]
  <2>1. i - l \in 1 .. n - l /\ l + (i - l) = i /\ i \in 1 .. n /\ ~(i <= l) BY <1>3
  <2> QED BY <1>5, <1>8, <2>1
<1> QED BY <1>1, <1>2, <1>3, <1>8, <1>9, <1>10, <1>11

\* Every other step of rocketrun leaves the buffer as it is.
LEMMA RunReads ==
  ASSUME Run
  PROVE  /\ UNCHANGED <<file, assembler, old>>
         /\ Read \/ buf' = buf
BY DEF Run, rocketrun, Advance, LibraryError, Usage, Open, Measure, EmptyFile, ShortRead,
       Load, LoadTooLarge, Cycle, Finish, CycleFailed, Exit, loader, Read

\* Reading keeps a beginning of the file a beginning of the file.
LEMMA ReadKeepsBeginning ==
  ASSUME buf \in Seq(Byte), file \in Seq(Byte), size \in Nat, Read, IsBeginning(buf, file)
  PROVE  IsBeginning(buf', file)
<1>1. /\ Len(buf) \in Nat /\ Len(buf') \in Nat
      /\ Len(buf) <= Len(buf') /\ Len(buf') <= Len(file)
      /\ \A i \in 1 .. Len(buf) : buf'[i] = buf[i]
      /\ \A i \in Len(buf) + 1 .. Len(buf') : buf'[i] = file[i]
      BY ReadBytes
<1>2. ASSUME NEW i \in 1 .. Len(buf') PROVE buf'[i] = file[i]
  <2>1. i \in 1 .. Len(buf) \/ i \in Len(buf) + 1 .. Len(buf') BY <1>1
  <2> QED BY <1>1, <2>1 DEF IsBeginning
<1> QED BY <1>1, <1>2 DEF IsBeginning

LEMMA VmTypes == ASSUME VmInv PROVE buf \in Seq(Byte) /\ size \in Nat
BY DEF VmInv, LoaderInv, Transfer

LEMMA RunKeepsFile == ASSUME FileInv, VmInv, Run PROVE FileInv'
<1>1. UNCHANGED <<file, old, program, asm, out, pending>>
      BY RunReads DEF assembler, text, output
<1>2. NothingLost' <=> NothingLost BY <1>1 DEF NothingLost
<1>3. Opened => Opened' BY <1>1, <1>2 DEF Opened
<1>4. Untouched => Untouched'
  <2> SUFFICES ASSUME Untouched PROVE IsBeginning(buf', old) BY <1>1 DEF Untouched
  <2>1. file = old /\ IsBeginning(buf, old) /\ file \in Seq(Byte) BY DEF Untouched, FileInv
  <2>2. CASE buf' = buf BY <2>1, <2>2
  <2>3. CASE Read
    <3>1. IsBeginning(buf, file) BY <2>1
    <3>2. IsBeginning(buf', file) BY <2>1, <2>3, <3>1, VmTypes, ReadKeepsBeginning
    <3> QED BY <2>1, <3>2
  <2> QED BY <2>2, <2>3, RunReads
<1> QED BY <1>1, <1>3, <1>4 DEF FileInv

\* The machine does not see the assembler, only bytes.
LEMMA RocketasmKeepsVm == ASSUME VmInv, rocketasm PROVE VmInv'
<1>1. UNCHANGED <<cpu, loader>>
      BY DEF rocketasm, Parse, ResolveLabels, OpenOutput, Emit, Flush, FlushFails,
             CloseOutput, EmitFails, AsmOnly, runner
<1> QED BY <1>1, RunnerUntouched

LEMMA RunKeepsVm == ASSUME VmInv, FileInv, Run PROVE VmInv'
BY RocketrunKeepsInv, RocketrunKeepsLoaderInv DEF Run, FileInv, VmInv

LEMMA RunKeepsAsm == ASSUME AsmInv, Run PROVE AsmInv'
BY RunReads, AsmUnchanged DEF assembler, output

-----------------------------------------------------------------------------
(***************************************************************************)
(* The invariant of both.                                                  *)
(***************************************************************************)
BothInv == AsmInv /\ VmInv /\ FileInv

LEMMA BothInit == ToolInit => BothInv
<1> SUFFICES ASSUME ToolInit PROVE BothInv OBVIOUS
<1>1. AsmInv BY AsmInit
<1>2. VmInv BY VmInitEstablishesInv DEF ToolInit
<1>3. /\ file \in Seq(Byte) /\ old = file /\ out = <<>> /\ pending = <<>>
      /\ buf = <<>> /\ asm = "start"
      BY ImagesAssumption DEF ToolInit, VmInit, P!Init
<1>4. FileInv BY <1>3 DEF FileInv, Untouched, IsBeginning
<1> QED BY <1>1, <1>2, <1>4 DEF BothInv

LEMMA BothStep == BothInv /\ [ToolNext]_toolVars => BothInv'
<1> SUFFICES ASSUME BothInv, [ToolNext]_toolVars PROVE BothInv' OBVIOUS
<1>1. AsmInv /\ VmInv /\ FileInv BY DEF BothInv
<1>2. CASE rocketasm
      BY <1>1, <1>2, RocketasmKeepsAsm, RocketasmKeepsVm, RocketasmKeepsFile DEF BothInv
<1>3. CASE Run BY <1>1, <1>3, RunKeepsAsm, RunKeepsVm, RunKeepsFile DEF BothInv
<1>4. CASE UNCHANGED toolVars
  <2>1. UNCHANGED <<cpu, loader, file, text, program, asm, out, pending, old, buf>>
        BY <1>4 DEF toolVars, runner, assembler, output, loader
  <2>2. AsmInv' BY <1>1, <2>1, AsmUnchanged
  <2>3. VmInv' BY <1>1, <2>1, RunnerUntouched
  <2>4. FileInv' BY <1>1, <2>1 DEF FileInv, Untouched, Opened, NothingLost
  <2> QED BY <2>2, <2>3, <2>4 DEF BothInv
<1> QED BY <1>2, <1>3, <1>4 DEF ToolNext

LEMMA BothInvariant == ToolSpec => []BothInv
BY BothInit, BothStep, PTL DEF ToolSpec

\* rocketrun reports its exit status by the same rules when the file changes
\* under it, between any two of its reads.
THEOREM ToolExitStatus == ToolSpec => []ExitStatus
<1>1. BothInv => ExitStatus BY DEF BothInv, VmInv, LoaderInv
<1> QED BY <1>1, BothInvariant, PTL

\* No mixture of two files can take the processor out of its types, its stack
\* region or its alignment.
THEOREM ToolMachineSafe == ToolSpec => [](TypeOK /\ StackDiscipline /\ RipAligned)
<1>1. BothInv => TypeOK /\ StackDiscipline /\ RipAligned BY DEF BothInv, VmInv, IInv
<1> QED BY <1>1, BothInvariant, PTL

\* A branch target without a definition is found before fopen empties the
\* file.
THEOREM UndefinedTargetsAreHarmless == ToolSpec => []UndefinedTargetsKeepTheFile
<1> DEFINE NoSuch(name) == \A j \in DOMAIN program.labels : program.labels[j].name # name
<1>1. ASSUME BothInv, NEW i \in DOMAIN program.instrs,
             program.instrs[i].opr1.type = "LABEL", NoSuch(program.instrs[i].opr1.label)
      PROVE  file = old
  <2>1. FileInv BY <1>1 DEF BothInv
  <2>2. CASE Untouched BY <2>2 DEF Untouched
  <2>3. CASE Opened
    <3>1. A!find_label_address(program, program.instrs[i]["opr1"].label) # A!Undefined
      <4>1. A!resolve_labels(program) BY <2>3 DEF Opened
      <4> QED BY <1>1, <4>1 DEF A!resolve_labels
    <3>2. {j \in DOMAIN program.labels :
             program.labels[j].name = program.instrs[i]["opr1"].label} = {}
          BY <1>1
    <3> QED BY <3>1, <3>2 DEF A!find_label_address
  <2> QED BY <2>1, <2>2, <2>3 DEF FileInv
<1>2. BothInv => UndefinedTargetsKeepTheFile
      BY <1>1 DEF UndefinedTargetsKeepTheFile
<1> QED BY <1>2, BothInvariant, PTL

-----------------------------------------------------------------------------
(***************************************************************************)
(* What is read while it is written.                                       *)
(***************************************************************************)
\* The buffer b of rocketrun has k bytes of the file f, which the words o
\* replace, and bytes of the words behind them.
MixedAt(b, f, o, k) ==
  /\ k <= Len(f)
  /\ \A i \in 1 .. k : b[i] = f[i]
  /\ Len(b) <= 2 * Len(o) \/ k = Len(b)
  /\ \A i \in k + 1 .. Len(b) : b[i] = Emitted(o, i)

Mixed == NothingLost => \E k \in 0 .. Len(buf) : MixedAt(buf, old, out, k)

\* A beginning of the old file is such a mixture without any word.
LEMMA BeginningIsMixed ==
  ASSUME NEW b, b \in Seq(Byte), NEW f, IsBeginning(b, f), NEW o
  PROVE  Len(b) \in 0 .. Len(b) /\ MixedAt(b, f, o, Len(b))
BY DEF IsBeginning, MixedAt

\* Words that are emitted later change nothing of it.
LEMMA EmitKeepsMixed ==
  ASSUME NEW b, b \in Seq(Byte), NEW f, NEW o, o \in Seq(Word), NEW w, w \in Word,
         NEW k, k \in 0 .. Len(b), MixedAt(b, f, o, k)
  PROVE  MixedAt(b, f, Append(o, w), k)
<1>1. Len(Append(o, w)) = Len(o) + 1 /\ Len(o) \in Nat /\ Len(b) \in Nat /\ k \in Nat OBVIOUS
<1>2. ASSUME NEW i \in k + 1 .. Len(b) PROVE b[i] = Emitted(Append(o, w), i)
  <2>1. k # Len(b) BY <1>1, <1>2
  <2>2. i \in 1 .. 2 * Len(o) BY <1>1, <2>1 DEF MixedAt
  <2>3. b[i] = Emitted(o, i) BY <1>2 DEF MixedAt
  <2> QED BY <2>2, <2>3, EmittedKept
<1>3. Len(b) <= 2 * Len(Append(o, w)) \/ k = Len(b) BY <1>1 DEF MixedAt
<1> QED BY <1>2, <1>3 DEF MixedAt

\* rocketasm leaves the buffers alone and emits at most a word.
LEMMA RocketasmGrows ==
  ASSUME AsmInv, FileInv, rocketasm
  PROVE  /\ UNCHANGED <<buf, old>>
         /\ out' = out \/ (out \in Seq(Word) /\ \E w \in Word : out' = Append(out, w))
<1>1. UNCHANGED <<buf, old>>
      BY DEF rocketasm, Parse, ResolveLabels, OpenOutput, Emit, Flush, FlushFails,
             CloseOutput, EmitFails, AsmOnly, runner, loader
<1>2. CASE Emit BY <1>1, <1>2, EmitsWord
<1>3. ~Emit => out' = out
      BY DEF rocketasm, Parse, output, ResolveLabels, A!Resolve, OpenOutput, A!OpenOutput,
             Flush, FlushFails, CloseOutput, A!CloseOutput, EmitFails, A!EmitFails
<1> QED BY <1>1, <1>2, <1>3

LEMMA RocketasmKeepsMixed ==
  ASSUME BothInv, Mixed, rocketasm
  PROVE  Mixed'
<1>1. AsmInv /\ FileInv /\ buf \in Seq(Byte) BY VmTypes DEF BothInv
<1>2. NothingLost' => NothingLost BY <1>1, RocketasmKeepsFile
<1>3. UNCHANGED <<buf, old>> BY <1>1, RocketasmGrows
<1>4. SUFFICES ASSUME NothingLost' PROVE \E k \in 0 .. Len(buf) : MixedAt(buf, old, out', k)
      BY <1>3 DEF Mixed
<1>5. PICK k \in 0 .. Len(buf) : MixedAt(buf, old, out, k) BY <1>2, <1>4 DEF Mixed
<1>6. CASE out' = out BY <1>5, <1>6
<1>7. CASE out \in Seq(Word) /\ \E w \in Word : out' = Append(out, w)
      BY <1>1, <1>5, <1>7, EmitKeepsMixed
<1> QED BY <1>1, <1>6, <1>7, RocketasmGrows

LEMMA RunKeepsMixed ==
  ASSUME BothInv, Mixed, Run
  PROVE  Mixed'
<1>1. FileInv /\ VmInv /\ buf \in Seq(Byte) /\ size \in Nat /\ file \in Seq(Byte)
      /\ pending \in Seq(Byte)
      BY VmTypes DEF BothInv, FileInv
<1>2. UNCHANGED <<file, old, out, pending>> BY RunReads DEF assembler, output
<1>3. NothingLost' <=> NothingLost BY <1>2 DEF NothingLost
<1>4. CASE buf' = buf BY <1>2, <1>3, <1>4 DEF Mixed
<1>5. CASE Read
  <2> SUFFICES ASSUME NothingLost PROVE \E k \in 0 .. Len(buf') : MixedAt(buf', old, out, k)
      BY <1>2, <1>3 DEF Mixed
  <2>1. /\ buf' \in Seq(Byte) /\ Len(buf) \in Nat /\ Len(buf') \in Nat
        /\ Len(buf) <= Len(buf') /\ Len(buf') <= Len(file)
        /\ \A i \in 1 .. Len(buf) : buf'[i] = buf[i]
        /\ \A i \in Len(buf) + 1 .. Len(buf') : buf'[i] = file[i]
        BY <1>1, <1>5, ReadBytes
  <2>2. CASE Untouched
    <3>1. Untouched'
      <4>1. IsBeginning(buf, file) /\ file = old BY <2>2 DEF Untouched
      <4>2. IsBeginning(buf', file) BY <1>1, <1>5, <4>1, ReadKeepsBeginning
      <4>3. asm' = asm BY RunReads DEF assembler
      <4> QED BY <1>2, <2>2, <4>1, <4>2, <4>3 DEF Untouched
    <3>2. IsBeginning(buf', old) BY <1>2, <3>1 DEF Untouched
    <3> QED BY <2>1, <3>2, BeginningIsMixed
  <2>3. CASE Opened
    <3>1. Holds(file, pending, out) /\ Len(file) + Len(pending) <= 2 * Len(out)
          BY <2>3 DEF Opened
    <3>2. PICK k \in 0 .. Len(buf) : MixedAt(buf, old, out, k) BY DEF Mixed
    <3>3. Len(out) \in Nat
          BY <2>3, WordsEmitted DEF BothInv, Opened, BackPhase
    <3>4. Len(file) \in Nat /\ Len(pending) \in Nat BY <1>1
    <3>5. Len(buf') <= 2 * Len(out) BY <2>1, <3>1, <3>3, <3>4
    <3>6. \A i \in 1 .. k : buf'[i] = old[i] BY <2>1 , <3>2 DEF MixedAt
    <3>7. ASSUME NEW i \in k + 1 .. Len(buf') PROVE buf'[i] = Emitted(out, i)
      <4>1. CASE i \in k + 1 .. Len(buf)
        <5>1. i \in 1 .. Len(buf) BY <2>1, <4>1
        <5> QED BY <2>1, <3>2, <4>1, <5>1 DEF MixedAt
      <4>2. CASE i \in Len(buf) + 1 .. Len(buf')
        <5>1. i \in 1 .. Len(file) BY <2>1, <3>4, <4>2
        <5> QED BY <2>1, <3>1, <4>2, <5>1 DEF Holds
      <4> QED BY <2>1, <4>1, <4>2
    <3>8. MixedAt(buf', old, out, k) BY <3>2, <3>5, <3>6, <3>7 DEF MixedAt
    <3>9. k \in 0 .. Len(buf') BY <2>1
    <3> QED BY <3>8, <3>9
  <2> QED BY <1>1, <2>2, <2>3 DEF FileInv
<1> QED BY <1>4, <1>5, RunReads

\* The property, with the places of the bytes spelled out.
LEMMA MixedIsOldThenNew ==
  ASSUME BothInv, Mixed
  PROVE  RunsOldThenNew
<1>1. buf \in Seq(Byte) /\ old \in Seq(Byte) BY VmTypes DEF BothInv, FileInv
<1> SUFFICES ASSUME NothingLost
             PROVE  \E k \in 0 .. Len(buf) :
                      /\ k <= Len(old) /\ SubSeq(buf, 1, k) = SubSeq(old, 1, k)
                      /\ 2 * Len(out) >= Len(buf) \/ k = Len(buf)
                      /\ \A i \in k + 1 .. Len(buf) : buf[i] = Emitted(out, i)
    BY DEF RunsOldThenNew, Emitted
<1>2. PICK k \in 0 .. Len(buf) : MixedAt(buf, old, out, k) BY DEF Mixed
<1>3. Len(buf) \in Nat /\ Len(old) \in Nat /\ k \in Nat /\ k <= Len(buf) /\ k <= Len(old)
      BY <1>1, <1>2 DEF MixedAt
<1>4. PICK s : s = SubSeq(buf, 1, k) OBVIOUS
<1>5. PICK t : t = SubSeq(old, 1, k) OBVIOUS
<1>6. s \in Seq(Byte) /\ Len(s) = k /\ \A i \in 1 .. k : s[i] = buf[i] BY <1>1, <1>3, <1>4
<1>7. t \in Seq(Byte) /\ Len(t) = k /\ \A i \in 1 .. k : t[i] = old[i] BY <1>1, <1>3, <1>5
<1>8. \A i \in 1 .. k : s[i] = t[i] BY <1>2, <1>6, <1>7 DEF MixedAt
<1>9. s = t BY <1>6, <1>7, <1>8, SeqEqual
<1>10. Len(buf) <= 2 * Len(out) => 2 * Len(out) >= Len(buf) BY <1>3
<1> QED BY <1>2, <1>4, <1>5, <1>9, <1>10 DEF MixedAt

\* A rocketrun that races with rocketasm runs bytes of the old file up to some
\* point and of the new program from there on, each at its own place: for
\* every text, every old file and every order of reads and flushes.
THEOREM OldThenNew == ToolSpec => []RunsOldThenNew
<1>1. ToolInit => Mixed
  <2> SUFFICES ASSUME ToolInit PROVE MixedAt(buf, old, out, 0) /\ Len(buf) = 0
      BY DEF Mixed
  <2>1. buf = <<>> /\ old \in Seq(Byte)
        BY ImagesAssumption DEF ToolInit, VmInit
  <2> QED BY <2>1 DEF MixedAt
<1>2. BothInv /\ Mixed /\ [ToolNext]_toolVars => Mixed'
  <2> SUFFICES ASSUME BothInv, Mixed, [ToolNext]_toolVars PROVE Mixed' OBVIOUS
  <2>1. CASE rocketasm BY <2>1, RocketasmKeepsMixed
  <2>2. CASE Run BY <2>2, RunKeepsMixed
  <2>3. CASE UNCHANGED toolVars
        BY <2>3 DEF toolVars, runner, loader, assembler, output, Mixed, NothingLost
  <2> QED BY <2>1, <2>2, <2>3 DEF ToolNext
<1>3. BothInv /\ Mixed => RunsOldThenNew BY MixedIsOldThenNew
<1> QED BY <1>1, <1>2, <1>3, BothInvariant, PTL DEF ToolSpec

-----------------------------------------------------------------------------
(***************************************************************************)
(* What is read when rocketasm is done.  The file is all there, and does   *)
(* not change any more; the machine has it in a zeroed memory; and as long *)
(* as nothing is stored into the program, it stays there.                  *)
(***************************************************************************)
\* The word at address a if the words o start at 0 and zeros follow.
WordAt(o, a) == IF a \div 2 < Len(o) THEN o[(a \div 2) + 1] ELSE 0

\* In the memory m the fetch finds the words o and nothing else.
Placed(m, o) ==
  \A a \in 0 .. RVM_MEMORY_PROGRAM_END - 2 : a % 2 = 0 =>
    rvm_memory_read_uint16(m, a) = WordAt(o, a)

\* A STORE of the program that is about to execute does not hit the region the
\* program is in: it faults, or writes the heap, the stack or what is above.
StoresMissTheProgram ==
  launched = "done" /\ phase = "running" /\ NothingLost /\ Running /\ Fetchable
    /\ instr.opcode = RVM_OP.STORE =>
  BadAddress(Source) \/ Source > RVM_MEMORY_PROGRAM_END

Unloaded ==
  phase \notin {"running", "exited"} => mem = ZeroMemory /\ rsp = RVM_MEMORY_STACK_END

\* What a rocketrun that was started behind a successful rocketasm has read.
ReadsAll ==
  launched = "done" =>
    /\ asm = "done"
    /\ IsBeginning(buf, file)
    /\ phase \in {"measured", "read", "running"} => size = Len(file)

RunsAll == launched = "done" /\ phase = "running" /\ NothingLost => Placed(mem, out)

LaunchInv == Unloaded /\ ReadsAll /\ RunsAll

\* The two bytes of word j.
LEMMA EmittedPair ==
  ASSUME NEW o, NEW j, j \in Nat
  PROVE  /\ Emitted(o, 2 * j + 1) = o[j + 1] % 256
         /\ Emitted(o, 2 * j + 2) = o[j + 1] \div 256
<1>1. (2 * j + 1 + 1) \div 2 = j + 1 /\ (2 * j + 1) % 2 = 1 OBVIOUS
<1>2. (2 * j + 2 + 1) \div 2 = j + 1 /\ (2 * j + 2) % 2 = 0 OBVIOUS
<1> QED BY <1>1, <1>2 DEF Emitted, WordBytes

\* The image b is the bytes of the words o and fits the memory.
IsImageOf(b, o) ==
  /\ b \in Seq(Byte) /\ o \in Seq(Word)
  /\ Len(b) = 2 * Len(o) /\ Len(b) <= RVM_MEMORY_SIZE
  /\ \A i \in 1 .. Len(b) : b[i] = Emitted(o, i)

\* rvm_vm_load puts word j at address 2 * j, counted from 0, and leaves the
\* zeros behind the last.
LEMMA LoadedWord ==
  ASSUME NEW b, NEW o, IsImageOf(b, o), NEW j, j \in Nat, InBounds(2 * j)
  PROVE  rvm_memory_read_uint16(Loaded(b, ZeroMemory), 2 * j)
           = IF j < Len(o) THEN o[j + 1] ELSE 0
<1> DEFINE m == Loaded(b, ZeroMemory)
<1>1. PICK n \in Nat : n = Len(o) BY DEF IsImageOf
<1>2. Len(b) = 2 * n BY <1>1 DEF IsImageOf
<1>3. 2 * j \in Address /\ 2 * j + 1 \in Address
      BY LayoutAssumption DEF InBounds, Address
<1>4. /\ m[2 * j] = IF 2 * j < 2 * n THEN b[2 * j + 1] ELSE 0
      /\ m[2 * j + 1] = IF 2 * j + 1 < 2 * n THEN b[2 * j + 2] ELSE 0
      BY <1>2, <1>3 DEF Loaded, ZeroMemory
<1>5. CASE j < n
  <2>1. 2 * j < 2 * n /\ 2 * j + 1 < 2 * n
        /\ 2 * j + 1 \in 1 .. 2 * n /\ 2 * j + 2 \in 1 .. 2 * n
        BY <1>5
  <2>2. m[2 * j] = o[j + 1] % 256 /\ m[2 * j + 1] = o[j + 1] \div 256
    <3>1. b[2 * j + 1] = Emitted(o, 2 * j + 1) /\ b[2 * j + 2] = Emitted(o, 2 * j + 2)
          BY <1>2, <2>1 DEF IsImageOf
    <3>2. /\ Emitted(o, 2 * j + 1) = o[j + 1] % 256
          /\ Emitted(o, 2 * j + 2) = o[j + 1] \div 256
          BY EmittedPair
    <3> HIDE DEF m
    <3>3. m[2 * j] = b[2 * j + 1] /\ m[2 * j + 1] = b[2 * j + 2] BY <1>4, <2>1, Zenon
    <3> QED BY <3>1, <3>2, <3>3, Zenon
  <2>3. PICK w \in Word : w = o[j + 1]
    <3>1. j + 1 \in 1 .. Len(o) BY <1>1, <1>5
    <3> QED BY <3>1 DEF IsImageOf
  <2>4. (w \div 256) * 256 + (w % 256) = w
    <3>1. w \in Int BY DEF Word
    <3> QED BY <3>1
  <2> QED BY <1>1, <1>5, <2>2, <2>3, <2>4 DEF rvm_memory_read_uint16
<1>6. CASE ~(j < n)
  <2>1. ~(2 * j < 2 * n) /\ ~(2 * j + 1 < 2 * n) BY <1>6
  <2>2. m[2 * j] = 0 /\ m[2 * j + 1] = 0 BY <1>4, <2>1
  <2> QED BY <1>1, <1>6, <2>2 DEF rvm_memory_read_uint16
<1> QED BY <1>5, <1>6

\* A loaded program is all there, and zeros are behind it.
LEMMA LoadedRuns ==
  ASSUME NEW b, NEW o, IsImageOf(b, o)
  PROVE  Placed(Loaded(b, ZeroMemory), o)
<1>1. ASSUME NEW a \in 0 .. RVM_MEMORY_PROGRAM_END - 2, a % 2 = 0
      PROVE  rvm_memory_read_uint16(Loaded(b, ZeroMemory), a) = WordAt(o, a)
  <2>1. PICK j \in Nat : a = 2 * j /\ a \div 2 = j
    <3>1. a \div 2 \in Nat /\ a = 2 * (a \div 2) BY <1>1, LayoutAssumption
    <3> QED BY <3>1
  <2>2. InBounds(2 * j) BY <2>1, LayoutAssumption DEF InBounds
  <2>3. rvm_memory_read_uint16(Loaded(b, ZeroMemory), 2 * j)
          = IF j < Len(o) THEN o[j + 1] ELSE 0
        BY <2>2, LoadedWord
  <2> QED BY <2>1, <2>3 DEF WordAt
<1> QED BY <1>1 DEF Placed

\* A write behind the program region leaves it where it is.
LEMMA WriteKeepsPlaced ==
  ASSUME NEW m \in [Address -> Byte], NEW a \in Nat, RVM_MEMORY_PROGRAM_END < a,
         NEW w \in Word, NEW o, Placed(m, o)
  PROVE  Placed(rvm_memory_write_uint16(m, a, w), o)
<1>1. ASSUME NEW b \in 0 .. RVM_MEMORY_PROGRAM_END - 2
      PROVE  rvm_memory_read_uint16(rvm_memory_write_uint16(m, a, w), b)
               = rvm_memory_read_uint16(m, b)
  <2>1. b \in Nat /\ InBounds(b) /\ b + 1 < a BY LayoutAssumption DEF InBounds
  <2> QED BY <2>1, ReadElsewhere
<1> QED BY <1>1 DEF Placed

\* So does a cycle of the processor whose store, if it is one, misses.
LEMMA CycleKeepsPlaced ==
  ASSUME IInv, Next, NEW o, Placed(mem, o),
         rvm_cpu_exec_store => BadAddress(Source) \/ Source > RVM_MEMORY_PROGRAM_END
  PROVE  Placed(mem', o)
<1>1. CASE UNCHANGED mem BY <1>1
<1>2. CASE rvm_cpu_exec_call /\ ~UNCHANGED mem
  <2>1. /\ ~CallOverflows
        /\ mem' = rvm_memory_write_uint16(mem, rsp - 2, NextRip)
        BY <1>2 DEF rvm_cpu_exec_call, Stop
  <2>2. Fetchable BY <1>2 DEF rvm_cpu_exec_call, Executing
  <2>3. mem \in [Address -> Byte] /\ NextRip \in Word
        BY <2>2, Operands DEF IInv, TypeOK
  <2>4. rsp - 2 \in Nat /\ RVM_MEMORY_PROGRAM_END < rsp - 2
        BY <2>1, PushFits, LayoutAssumption
  <2> QED BY <2>1, <2>3, <2>4, WriteKeepsPlaced
<1>3. CASE rvm_cpu_exec_store /\ ~UNCHANGED mem
  <2>1. /\ ~BadAddress(Source)
        /\ mem' = rvm_memory_write_uint16(mem, Source, Destination)
        BY <1>3 DEF rvm_cpu_exec_store, Stop
  <2>2. Fetchable BY <1>3 DEF rvm_cpu_exec_store, Executing
  <2>3. mem \in [Address -> Byte] /\ Destination \in Word /\ Source \in Word
        BY <2>2, Operands DEF IInv, TypeOK
  <2>4. Source \in Nat /\ RVM_MEMORY_PROGRAM_END < Source
        BY <1>3, <2>1, <2>3, LayoutAssumption DEF Word
  <2> QED BY <2>1, <2>3, <2>4, WriteKeepsPlaced
<1>4. rvm_cpu_exec_ret => UNCHANGED mem BY DEF rvm_cpu_exec_ret, Stop
<1> QED BY <1>1, <1>2, <1>3, <1>4, OthersKeepFrames

-----------------------------------------------------------------------------
(***************************************************************************)
(* The steps of both.                                                      *)
(***************************************************************************)
\* When rocketasm is done, it is done.
LEMMA DoneIsDone == ASSUME rocketasm PROVE asm # "done"
BY DEF rocketasm, Parse, P!FrontEnd, P!Usage, P!SetupFails, P!Start, P!Label, P!Instruction,
       P!NewLine, P!EndOfText, P!Reject, P!PushFails, P!AtLabel, P!Holding, P!Unexpected,
       P!LabelTooFar, P!BadInstruction, ResolveLabels, A!Resolve, OpenOutput, A!OpenOutput,
       Emit, A!EmitWord, A!More, Flush, FlushFails, CloseOutput, A!CloseOutput,
       EmitFails, A!EmitFails

LEMMA RocketasmKeepsLaunch ==
  ASSUME LaunchInv, rocketasm
  PROVE  LaunchInv'
<1>1. UNCHANGED <<cpu, loader, launched>>
      BY DEF rocketasm, Parse, ResolveLabels, OpenOutput, Emit, Flush, FlushFails,
             CloseOutput, EmitFails, AsmOnly, runner
<1>2. launched # "done" BY DoneIsDone DEF LaunchInv, ReadsAll
<1>3. Unloaded' BY <1>1 DEF LaunchInv, Unloaded, cpu, vars, loader
<1> QED BY <1>1, <1>2, <1>3 DEF LaunchInv, ReadsAll, RunsAll

\* What the words of a finished file decode to.
LEMMA OpcodeEmitted ==
  ASSUME AsmInv, asm = "done", NEW i, i \in 1 .. Len(out)
  PROVE  /\ i \in DOMAIN out /\ i \in DOMAIN program.instrs
         /\ rvm_decode(out[i]).opcode = program.instrs[i].opcode
<1>1. A!AInv BY DEF AsmInv, BackPhase
<1>2. out \in Seq(Word) BY WordsEmitted DEF BackPhase
<1>3. i \in DOMAIN out BY <1>2
<1>4. /\ A!IsParsed(program) /\ i - 1 \in Nat
      /\ i \in DOMAIN program.instrs
      /\ A!IsParsedInstr(A!Instr(i))
      /\ A!encode_instr(program, A!Instr(i), i - 1) # A!Invalid
      /\ out[i] = A!encode_instr(program, A!Instr(i), i - 1)
      BY <1>1, <1>3, A!EmittedWord
<1>5. A!rvm_decode(out[i]).opcode = A!Instr(i).opcode BY <1>4, A!EncodedWord
<1>6. A!rvm_decode(out[i]) = rvm_decode(out[i]) BY DEF A!rvm_decode, rvm_decode
<1> QED BY <1>3, <1>4, <1>5, <1>6 DEF A!Instr

\* A finished file is the image of the words in it.
LEMMA FinishedFile ==
  ASSUME BothInv, asm = "done", NothingLost, IsBeginning(buf, file), Len(buf) = Len(file),
         Len(buf) <= RVM_MEMORY_SIZE
  PROVE  IsImageOf(buf, out)
<1>1. /\ AsmInv /\ FileInv /\ buf \in Seq(Byte) /\ file \in Seq(Byte)
      BY VmTypes DEF BothInv, FileInv
<1>2. Opened BY <1>1 DEF FileInv, Untouched
<1>3. out \in Seq(Word) /\ Len(out) \in Nat BY <1>1, WordsEmitted DEF BackPhase
<1>4. pending = <<>> /\ Holds(file, pending, out) BY <1>2 DEF Opened
<1>5. Len(file) = 2 * Len(out)
  <2>1. Len(file) \in Nat /\ Len(pending) = 0 BY <1>1, <1>4
  <2>2. Len(file) + 0 <= 2 * Len(out) BY <1>2, <2>1 DEF Opened
  <2>3. Len(file) + 0 >= 2 * Len(out) BY <2>1 DEF NothingLost
  <2> QED BY <1>3, <2>1, <2>2, <2>3
<1>6. \A i \in 1 .. Len(buf) : buf[i] = Emitted(out, i) BY <1>4 DEF Holds, IsBeginning
<1> QED BY <1>1, <1>3, <1>5, <1>6 DEF IsImageOf

\* rvm_vm_load of it.
LEMMA LoadKeepsRunsAll ==
  ASSUME BothInv, LaunchInv, Load, launched = "done", NothingLost
  PROVE  Placed(mem', out)
<1>1. phase = "read" /\ size <= RVM_MEMORY_SIZE /\ mem' = Loaded(buf, ZeroMemory)
  <2>1. phase = "read" /\ ~(size > RVM_MEMORY_SIZE) BY DEF Load, Proceed, TooLarge
  <2>2. mem = ZeroMemory BY <2>1 DEF LaunchInv, Unloaded
  <2>3. size \in Nat BY VmTypes DEF BothInv
  <2> QED BY <2>1, <2>2, <2>3, LayoutAssumption DEF Load
<1>2. asm = "done" /\ IsBeginning(buf, file) /\ size = Len(file)
      BY <1>1 DEF LaunchInv, ReadsAll
<1>3. Len(buf) = size BY <1>1 DEF BothInv, VmInv, LoaderInv, Transfer
<1>4. IsImageOf(buf, out) BY <1>1, <1>2, <1>3, FinishedFile
<1> QED BY <1>1, <1>4, LoadedRuns

\* rvm_vm_run of it.
LEMMA CycleKeepsRunsAll ==
  ASSUME BothInv, LaunchInv, StoresMissTheProgram, Cycle, launched = "done", NothingLost
  PROVE  Placed(mem', out)
<1>1. phase = "running" /\ Next BY DEF Cycle, Next
<1>2. IInv /\ Placed(mem, out) BY <1>1 DEF BothInv, VmInv, LaunchInv, RunsAll
<1>3. rvm_cpu_exec_store => BadAddress(Source) \/ Source > RVM_MEMORY_PROGRAM_END
      BY <1>1 DEF StoresMissTheProgram, rvm_cpu_exec_store, Executing
<1> QED BY <1>1, <1>2, <1>3, CycleKeepsPlaced

\* The rest of what rocketrun does.
LEMMA RunPhases ==
  ASSUME Run
  PROVE  /\ launched' = IF phase = "start" THEN asm ELSE launched
         /\ phase = "start" => phase' \in {"opened", "exited"} /\ buf' = buf
         /\ phase' \notin {"running", "exited"}
              => phase \notin {"running", "exited"} /\ UNCHANGED <<mem, rsp>>
         /\ phase' \in {"measured", "read", "running"} =>
              \/ size' = Len(file)
              \/ size' = size /\ phase \in {"measured", "read", "running"}
         /\ phase' = "running" => Load \/ Cycle
BY DEF Run, rocketrun, Advance, LibraryError, Usage, Open, Measure, EmptyFile, Read,
       ShortRead, Load, LoadTooLarge, Cycle, Finish, CycleFailed, Exit, Proceed, loader,
       cpu, vars

LEMMA RunKeepsLaunch ==
  ASSUME BothInv, LaunchInv, StoresMissTheProgram, Run
  PROVE  LaunchInv'
<1>1. /\ UNCHANGED <<file, program, asm, out, pending>>
      /\ Read \/ buf' = buf
      BY RunReads DEF assembler, text, output
<1>2. /\ buf \in Seq(Byte) /\ file \in Seq(Byte) /\ size \in Nat
      /\ phase = "start" => buf = <<>>
      BY VmTypes DEF BothInv, FileInv, VmInv, LoaderInv, Transfer
<1>3. Unloaded' BY RunPhases DEF LaunchInv, Unloaded
<1>4. ReadsAll'
  <2> SUFFICES ASSUME launched' = "done"
               PROVE  /\ asm = "done" /\ IsBeginning(buf', file)
                      /\ phase' \in {"measured", "read", "running"} => size' = Len(file)
      BY <1>1 DEF ReadsAll
  <2>1. CASE phase = "start"
    <3>1. buf' = <<>> BY <1>2, <2>1, RunPhases
    <3>2. IsBeginning(buf', file) BY <1>2, <3>1 DEF IsBeginning
    <3> QED BY <2>1, <3>2, RunPhases
  <2>2. CASE phase # "start"
    <3>1. launched = "done" BY <2>2, RunPhases
    <3>2. asm = "done" /\ IsBeginning(buf, file)
          /\ (phase \in {"measured", "read", "running"} => size = Len(file))
          BY <3>1 DEF LaunchInv, ReadsAll
    <3>3. IsBeginning(buf', file) BY <1>1, <1>2, <3>2, ReadKeepsBeginning
    <3> QED BY <3>2, <3>3, RunPhases
  <2> QED BY <2>1, <2>2
<1>5. RunsAll'
  <2> SUFFICES ASSUME launched' = "done", phase' = "running", NothingLost
               PROVE  Placed(mem', out)
      BY <1>1 DEF RunsAll, NothingLost, Placed
  <2>1. launched = "done" /\ (Load \/ Cycle) BY RunPhases
  <2> QED BY <2>1, LoadKeepsRunsAll, CycleKeepsRunsAll
<1> QED BY <1>3, <1>4, <1>5 DEF LaunchInv

\* The invariant, from the two facts that make it inductive.
LEMMA LaunchInit == ToolInit => LaunchInv
<1> SUFFICES ASSUME ToolInit PROVE LaunchInv OBVIOUS
<1>1. Unloaded BY DEF ToolInit, VmInit, rvm_vm_create, Unloaded
<1>2. launched = "never" BY DEF ToolInit
<1> QED BY <1>1, <1>2 DEF LaunchInv, ReadsAll, RunsAll

LEMMA LaunchStep ==
  BothInv /\ LaunchInv /\ StoresMissTheProgram /\ [ToolNext]_toolVars => LaunchInv'
<1> SUFFICES ASSUME BothInv, LaunchInv, StoresMissTheProgram, [ToolNext]_toolVars
             PROVE  LaunchInv'
    OBVIOUS
<1>1. CASE rocketasm BY <1>1, RocketasmKeepsLaunch
<1>2. CASE Run BY <1>2, RunKeepsLaunch
<1>3. CASE UNCHANGED toolVars
  <2>1. UNCHANGED <<cpu, loader, file, program, asm, out, pending, launched>>
        BY <1>3 DEF toolVars, runner, assembler, output
  <2> QED BY <2>1
          DEF LaunchInv, Unloaded, ReadsAll, RunsAll, NothingLost, Placed, cpu, vars, loader
<1> QED BY <1>1, <1>2, <1>3 DEF ToolNext

LEMMA LaunchInvariant == ToolSpec /\ []StoresMissTheProgram => []LaunchInv
BY LaunchInit, LaunchStep, BothInvariant, PTL DEF ToolSpec

\* The word of every instruction is where it is fetched.
LEMMA ProgramInMemory ==
  ASSUME BothInv, LaunchInv, launched = "done", phase = "running", NothingLost
  PROVE  /\ asm = "done" /\ size = 2 * Len(program.instrs)
         /\ Len(out) = Len(program.instrs) /\ Len(out) \in Nat
         /\ \A i \in 1 .. Len(out) :
              2 * i <= RVM_MEMORY_PROGRAM_END => rvm_memory_read_uint16(mem, 2 * i - 2) = out[i]
<1>1. asm = "done" /\ IsBeginning(buf, file) /\ size = Len(file) /\ Placed(mem, out)
      BY DEF LaunchInv, ReadsAll, RunsAll
<1>2. Len(buf) = size /\ size <= RVM_MEMORY_SIZE
      BY LayoutAssumption DEF BothInv, VmInv, LoaderInv, Transfer
<1>3. IsImageOf(buf, out) BY <1>1, <1>2, FinishedFile
<1>4. Len(out) = Len(program.instrs)
      BY <1>1 DEF BothInv, AsmInv, BackPhase, A!AInv, A!TypeOK
<1>5. ASSUME NEW i \in 1 .. Len(out), 2 * i <= RVM_MEMORY_PROGRAM_END
      PROVE  rvm_memory_read_uint16(mem, 2 * i - 2) = out[i]
  <2>1. PICK a \in Nat : a = 2 * i - 2 OBVIOUS
  <2>2. a % 2 = 0 /\ a \div 2 = i - 1 /\ a \in 0 .. RVM_MEMORY_PROGRAM_END - 2
        BY <1>5, <2>1, LayoutAssumption
  <2>3. i - 1 < Len(out) /\ (i - 1) + 1 = i BY <1>3 DEF IsImageOf
  <2> QED BY <1>1, <2>1, <2>2, <2>3 DEF Placed, WordAt
<1>6. Len(out) \in Nat BY <1>1, WordsEmitted DEF BothInv, BackPhase
<1> QED BY <1>1, <1>2, <1>3, <1>4, <1>5, <1>6 DEF IsImageOf

\* What was assembled without an error or a failing write is what a rocketrun
\* started afterwards has in its memory, word for word and as long as it runs,
\* if no STORE it executes hits the program region: for every text, every
\* layout and whatever was in the file before.
THEOREM AssembledIsRun == ToolSpec /\ []StoresMissTheProgram => []RunsWhatWasAssembled
<1>1. BothInv /\ LaunchInv => RunsWhatWasAssembled
      BY ProgramInMemory DEF RunsWhatWasAssembled
<1> QED BY <1>1, BothInvariant, LaunchInvariant, PTL

-----------------------------------------------------------------------------
(***************************************************************************)
(* From a label in the text to RIP.                                        *)
(***************************************************************************)
\* Every branch target is near enough for an 11-bit offset.  This is what the
\* assertions of isa/encoder.h say of it, which the Release build leaves out.
WithinReach ==
  \A i \in DOMAIN program.instrs :
    program.instrs[i].opr1.type = "LABEL" => A!DistanceOf(i) \in A!Simm11

\* A transfer that is taken and does not stop goes to its target.
LEMMA TakenGoesToTarget ==
  ASSUME rvm_cpu_cycle, Fetchable, ~halt', Taken
  PROVE  rip' = Target
BY DEF Taken, rvm_cpu_cycle, RVM_OP, Executing, Stop, Jump, FallThrough,
       rvm_cpu_exec_mov, rvm_cpu_exec_load, rvm_cpu_exec_store, rvm_cpu_exec_add,
       rvm_cpu_exec_sub, rvm_cpu_exec_mul, rvm_cpu_exec_div, rvm_cpu_exec_mod,
       rvm_cpu_exec_shl, rvm_cpu_exec_shr, rvm_cpu_exec_cmp, rvm_cpu_exec_jmp,
       rvm_cpu_exec_jz, rvm_cpu_exec_jnz, rvm_cpu_exec_call, rvm_cpu_exec_ret,
       RipOutOfBounds

LEMMA TakenIsTransfer ==
  Taken => instr.opcode \in {RVM_OP.JMP, RVM_OP.JZ, RVM_OP.JNZ, RVM_OP.CALL}
BY DEF Taken

\* The word that is fetched is that of an instruction of the text, unless it
\* is one of the zeros behind them, which are MOVs.
LEMMA FetchedFromText ==
  ASSUME BothInv, LaunchInv, launched = "done", phase = "running", NothingLost, Fetchable,
         instr.opcode # RVM_OP.MOV,
         NEW i, i = (rip \div 2) + 1
  PROVE  /\ i \in Nat /\ NextRip = 2 * i /\ 2 * i <= RVM_MEMORY_PROGRAM_END
         /\ i \in DOMAIN out /\ i \in DOMAIN program.instrs
         /\ program.instrs[i].opcode = instr.opcode
         /\ instr.raw = out[i]
<1>1. IInv /\ AsmInv /\ asm = "done" /\ Placed(mem, out)
      BY DEF BothInv, VmInv, LaunchInv, ReadsAll, RunsAll
<1>2. rip \in Nat /\ rip % 2 = 0 /\ rip <= RVM_MEMORY_PROGRAM_END - 2 /\ NextRip = rip + 2
      BY <1>1, Pointers, FetchFits DEF Fetchable
<1>3. i \in Nat /\ rip + 2 = 2 * i /\ 2 * i <= RVM_MEMORY_PROGRAM_END
      BY <1>2, LayoutAssumption
<1>4. instr = rvm_decode(WordAt(out, rip))
  <2>1. rip \in 0 .. RVM_MEMORY_PROGRAM_END - 2 BY <1>2, LayoutAssumption
  <2> QED BY <1>1, <1>2, <2>1 DEF Placed, instr
<1>5. rip \div 2 < Len(out)
  <2> SUFFICES ASSUME ~(rip \div 2 < Len(out)) PROVE FALSE OBVIOUS
  <2>1. instr.opcode = 0 \div 4096 BY <1>4 DEF WordAt, rvm_decode
  <2>2. 0 \div 4096 = 0 OBVIOUS
  <2> QED BY <2>1, <2>2 DEF RVM_OP
<1>6. instr = rvm_decode(out[i]) BY <1>4, <1>5 DEF WordAt
<1>7. i \in 1 .. Len(out)
  <2>1. Len(out) \in Nat BY <1>1, WordsEmitted DEF BackPhase
  <2> QED BY <1>2, <1>3, <1>5, <2>1
<1>8. i \in DOMAIN out /\ i \in DOMAIN program.instrs
      /\ rvm_decode(out[i]).opcode = program.instrs[i].opcode
      BY <1>1, <1>7, OpcodeEmitted
<1> QED BY <1>2, <1>3, <1>6, <1>8 DEF rvm_decode

\* Where such a transfer goes to if it is taken.
LEMMA TargetIsLabel ==
  ASSUME BothInv, LaunchInv, WithinReach, RVM_MEMORY_PROGRAM_END < 32768,
         launched = "done", phase = "running", NothingLost, Fetchable,
         instr.opcode \in {RVM_OP.JMP, RVM_OP.JZ, RVM_OP.JNZ, RVM_OP.CALL},
         NEW i, i = (rip \div 2) + 1, program.instrs[i].opr1.type = "LABEL"
  PROVE  \E j \in DOMAIN program.labels :
           /\ program.labels[j].name = program.instrs[i].opr1.label
           /\ \A k \in 1 .. j - 1 : program.labels[k].name # program.instrs[i].opr1.label
           /\ Target = 2 * program.labels[j].address
<1>1. /\ i \in Nat /\ NextRip = 2 * i /\ 2 * i <= RVM_MEMORY_PROGRAM_END
      /\ i \in DOMAIN out /\ i \in DOMAIN program.instrs
      /\ program.instrs[i].opcode = instr.opcode
      /\ instr.raw = out[i]
  <2>1. instr.opcode # RVM_OP.MOV BY DEF RVM_OP
  <2> QED BY <2>1, FetchedFromText
<1>2. A!AInv BY DEF BothInv, LaunchInv, ReadsAll, AsmInv, BackPhase
<1>3. A!DistanceOf(i) \in A!Simm11 BY <1>1 DEF WithinReach
<1>4. A!Int16(A!DistanceOf(i)) = A!DistanceOf(i) BY <1>3, A!ReachIsInt16
<1>5. A!Instr(i) = program.instrs[i] BY DEF A!Instr
<1>6. A!Instr(i).opcode \in A!Transfers BY <1>1, <1>5 DEF A!Transfers, RVM_OP, A!RVM_OP
<1>7. /\ A!BranchMode(out[i]) = A!RVM_MODE_IMM_OR_ADDR
      /\ A!BranchOffset(out[i]) = A!DistanceOf(i)
      /\ \E j \in DOMAIN program.labels :
           /\ program.labels[j].name = A!Instr(i).opr1.label
           /\ \A k \in 1 .. j - 1 : program.labels[k].name # A!Instr(i).opr1.label
           /\ program.labels[j].address \in A!Word
           /\ A!DistanceOf(i) = 2 * program.labels[j].address - 2 * i
      BY <1>1, <1>2, <1>3, <1>4, <1>5, <1>6, A!BranchWord
<1>8. Target = (NextRip + A!DistanceOf(i)) % 65536
      BY <1>1, <1>7 DEF Target, BranchMode, A!BranchMode, BranchOffset, A!BranchOffset,
                        RVM_MODE_IMM_OR_ADDR, A!RVM_MODE_IMM_OR_ADDR
<1>9. PICK j \in DOMAIN program.labels :
        /\ program.labels[j].name = program.instrs[i].opr1.label
        /\ \A k \in 1 .. j - 1 : program.labels[k].name # program.instrs[i].opr1.label
        /\ program.labels[j].address \in A!Word
        /\ A!DistanceOf(i) = 2 * program.labels[j].address - 2 * i
      BY <1>5, <1>7
<1>10. PICK a \in Nat : a = program.labels[j].address BY <1>9 DEF A!Word
<1>11. PICK d \in Int : d = A!DistanceOf(i) /\ d <= 1023 BY <1>3 DEF A!Simm11
<1>12. NextRip + d = 2 * a BY <1>1, <1>9, <1>10, <1>11
<1>13. 2 * a < 65536
  <2>1. 2 * a = 2 * i + d BY <1>1, <1>12
  <2>2. 2 * i < 32768 BY <1>1, LayoutAssumption
  <2> QED BY <1>1, <1>11, <2>1, <2>2
<1>14. (2 * a) % 65536 = 2 * a BY <1>13
<1>15. Target = 2 * a BY <1>8, <1>11, <1>12, <1>14
<1> QED BY <1>9, <1>10, <1>15

\* A machine that is running takes a cycle.
LEMMA RunningCycles ==
  ASSUME ToolNext, asm = "done", phase = "running", Running
  PROVE  rvm_cpu_cycle
<1>1. Run BY DoneIsDone DEF ToolNext
<1> QED BY <1>1 DEF Run, rocketrun, Advance, LibraryError, Usage, Open, Measure, EmptyFile,
                    Read, ShortRead, Load, LoadTooLarge, Cycle, Finish, CycleFailed, Proceed,
                    Running

\* A branch of the text goes to its label in the machine: for every text whose
\* labels are within reach, as long as no STORE hits the program region, and
\* with a program region that ends in the lower half of the address space, as
\* that of memory.h does.
THEOREM BranchesGoToTheirLabels ==
  ASSUME RVM_MEMORY_PROGRAM_END < 32768
  PROVE  ToolSpec /\ []StoresMissTheProgram /\ []WithinReach => BranchesFollowTheText
<1>1. BothInv /\ LaunchInv /\ WithinReach /\ [ToolNext]_toolVars
        => [BranchFollowsTheText]_toolVars
  <2> SUFFICES ASSUME BothInv, LaunchInv, WithinReach, ToolNext,
                      phase = "running", launched = "done", NothingLost, Running, Fetchable,
                      Taken, ~halt', program.instrs[(rip \div 2) + 1].opr1.type = "LABEL"
               PROVE  \E j \in DOMAIN program.labels :
                        /\ program.labels[j].name = program.instrs[(rip \div 2) + 1].opr1.label
                        /\ \A k \in 1 .. j - 1 :
                             program.labels[k].name # program.labels[j].name
                        /\ rip' = 2 * program.labels[j].address
      BY DEF BranchFollowsTheText
  <2>1. asm = "done" BY DEF LaunchInv, ReadsAll
  <2>2. rvm_cpu_cycle BY <2>1, RunningCycles
  <2>3. rip' = Target BY <2>2, TakenGoesToTarget
  <2> QED BY <2>3, TakenIsTransfer, TargetIsLabel
<1> QED BY <1>1, BothInvariant, LaunchInvariant, PTL DEF ToolSpec, BranchesFollowTheText

-----------------------------------------------------------------------------
(***************************************************************************)
(* From the lines of a text to the memory.                                 *)
(***************************************************************************)
\* What the parser has built stays what the text says.
TextBuilt ==
  /\ P!IsTokens(tokens)
  /\ asm \in FrontPhase => P!Built
  /\ asm \in BackPhase => P!InstrsBuilt(program.instrs, Len(tokens))

\* The text has tokens, and at its end all of it is built.
LEMMA TokensOfText == P!PInv => P!IsTokens(tokens)
BY ParserTokens DEF P!PInv

LEMMA ParsedIsBuilt ==
  P!Built => (asm = "parsed" => P!InstrsBuilt(program.instrs, Len(tokens)))
BY DEF P!Built

\* The parser keeps what it has built,
LEMMA ParseKeepsTextBuilt ==
  ASSUME AsmInv, TextBuilt, Parse
  PROVE  TextBuilt'
<1>1. P!FrontEnd BY DEF Parse
<1>2. asm \in {"start", "parsing"}
      BY <1>1 DEF P!FrontEnd, P!Usage, P!SetupFails, P!Start, P!Label, P!Instruction,
                  P!NewLine, P!EndOfText, P!Reject, P!PushFails, P!AtLabel, P!Holding,
                  P!Unexpected, P!LabelTooFar, P!BadInstruction
<1>3. P!PInv /\ P!Built BY <1>2 DEF AsmInv, FrontPhase, TextBuilt
<1>4. P!Built' BY <1>1, <1>3, ParserAssumptions, P!BuiltStep DEF P!Next
<1>5. (P!Built => (asm = "parsed" => P!InstrsBuilt(program.instrs, Len(tokens))))'
      BY ParsedIsBuilt, PTL
<1>6. P!PInv' BY <1>1, <1>3, ParserAssumptions, P!ParserStep DEF P!Next
<1>7. asm' \in BackPhase => asm' = "parsed"
      BY <1>6 DEF P!PInv, P!TypeOK, FrontPhase, BackPhase, P!Ended
<1>8. (P!PInv => P!IsTokens(tokens))' BY TokensOfText, PTL
<1> QED BY <1>4, <1>5, <1>6, <1>7, <1>8 DEF TextBuilt

\* and the encoder and the machine leave it alone.
LEMMA TextBuiltStep == AsmInv /\ TextBuilt /\ [ToolNext]_toolVars => TextBuilt'
<1> SUFFICES ASSUME AsmInv, TextBuilt, [ToolNext]_toolVars PROVE TextBuilt' OBVIOUS
<1>1. CASE Parse BY <1>1, ParseKeepsTextBuilt
<1>2. ASSUME UNCHANGED <<text, program>>, asm \in BackPhase, asm' \in BackPhase \ {"parsed"}
      PROVE  TextBuilt'
  <2>1. tokens' = tokens /\ program' = program BY <1>2 DEF text
  <2>2. P!InstrsBuilt(program.instrs, Len(tokens))'
        BY <1>2, <2>1, ParserAssumptions, P!SameBuilt DEF TextBuilt
  <2>3. asm' \notin FrontPhase BY <1>2 DEF FrontPhase, BackPhase, P!Ended
  <2>4. P!IsTokens(tokens)' BY <2>1 DEF TextBuilt, P!IsTokens
  <2> QED BY <2>2, <2>3, <2>4 DEF TextBuilt
<1>3. ASSUME UNCHANGED <<text, program, asm>> PROVE TextBuilt'
  <2>1. tokens' = tokens /\ program' = program /\ asm' = asm /\ UNCHANGED P!vars
        BY <1>3 DEF text, P!vars
  <2>2. asm \in FrontPhase => P!Built'
        BY <2>1, ParserAssumptions, P!BuiltStep DEF TextBuilt, AsmInv
  <2>3. asm \in BackPhase => P!InstrsBuilt(program.instrs, Len(tokens))'
        BY <2>1, ParserAssumptions, P!SameBuilt DEF TextBuilt
  <2>4. P!IsTokens(tokens)' BY <2>1 DEF TextBuilt, P!IsTokens
  <2> QED BY <2>1, <2>2, <2>3, <2>4 DEF TextBuilt
<1>4. CASE Flush \/ FlushFails \/ Run \/ UNCHANGED toolVars
      BY <1>3, <1>4 DEF Flush, FlushFails, Run, assembler, toolVars
<1>5. CASE ResolveLabels \/ OpenOutput \/ Emit \/ CloseOutput \/ EmitFails
      BY <1>2, <1>5
      DEF ResolveLabels, A!Resolve, OpenOutput, A!OpenOutput, Emit, A!EmitWord, A!More,
          CloseOutput, A!CloseOutput, EmitFails, A!EmitFails, BackPhase
<1> QED BY <1>1, <1>4, <1>5 DEF ToolNext, rocketasm

\* The instruction of each line, as the parser read it.
LEMMA LineInProgram ==
  ASSUME AsmInv, TextBuilt, asm \in BackPhase, NEW n \in DOMAIN tokens, tokens[n].type = "OPCODE",
         NEW i, i = P!OpcodesBefore(n) + 1
  PROVE  /\ i \in Nat \ {0} /\ i \in 1 .. Len(program.instrs)
         /\ program.instrs[i].opcode = tokens[n].value
         /\ \A k \in P!Mentioned(n) :
              P!IsOperand(IF \A l \in P!Mentioned(n) : k <= l THEN program.instrs[i].opr1
                          ELSE program.instrs[i].opr2, k)
<1>1. P!InstrsBuilt(program.instrs, Len(tokens)) /\ P!IsTokens(tokens) BY DEF TextBuilt
<1>2. /\ Len(tokens) \in Nat \ {0} /\ DOMAIN tokens = 1 .. Len(tokens)
      /\ tokens[Len(tokens)].type = "EOF"
      BY <1>1 DEF P!IsTokens
<1>3. n \in P!Before(Len(tokens))
  <2>1. n # Len(tokens) BY <1>2
  <2>2. n \in 1 .. Len(tokens) - 1 BY <1>2, <2>1
  <2> QED BY <2>2 DEF P!Before
<1>4. /\ P!parse_opcode(n) /\ i \in 1 .. Len(program.instrs)
      /\ program.instrs[i] = P!InstrAt(n)
      BY <1>1, <1>3 DEF P!InstrsBuilt
<1>5. n \in 1 .. Len(tokens) BY <1>2
<1>6. /\ P!InstrAt(n).opcode = tokens[n].value
      /\ \A k \in P!Mentioned(n) :
           P!IsOperand(IF \A l \in P!Mentioned(n) : k <= l THEN P!InstrAt(n).opr1
                       ELSE P!InstrAt(n).opr2, k)
      BY <1>1, <1>4, <1>5, ParserAssumptions, P!LineRead
<1> QED BY <1>4, <1>6

\* The word of an instruction has the operand that its line has.
LEMMA OperandIsFound ==
  ASSUME A!AInv, NEW i \in DOMAIN out, NEW isFirst \in BOOLEAN, NEW k,
         tokens[k].type \in DOMAIN P!OperandType,
         NEW a, a = program.instrs[i].opr1, NEW b, b = program.instrs[i].opr2,
         P!IsOperand(IF isFirst THEN a ELSE b, k)
  PROVE  OperandFound(out[i], tokens[k], isFirst)
<1>1. PICK w, op : w = out[i] /\ op = program.instrs[i].opcode OBVIOUS
<1>2. A!Instr(i) = program.instrs[i] BY DEF A!Instr
<1>3. op \in 0 .. 15 /\ (op = RVM_OP.RET => a = P!NoOperand /\ b = P!NoOperand)
      BY <1>1, <1>2, A!EmittedWord DEF A!IsParsedInstr, A!RVM_OP, RVM_OP, A!NoOperand, P!NoOperand
<1>4. PICK opr : opr = IF isFirst THEN a ELSE b OBVIOUS
<1>5. PICK t : t = tokens[k] /\ t.type \in {"NUMBER", "REG", "IDENT"} BY DEF P!OperandType
<1>6. /\ opr.value = t.value
      /\ t.type = "REG" => opr.type = "REG" \/ (opr.type = "MEM" /\ opr.mem = "REG")
      /\ t.type = "NUMBER" => opr.type \in {"IMM", "MEM"} /\ opr.mem \in {"NONE", "IMM"}
      /\ opr.type # "NONE"
      BY <1>4, <1>5 DEF P!IsOperand, P!OperandType, P!MemType
<1>7. PICK d : d = rvm_decode(w) OBVIOUS
<1>8. /\ d.opcode = op
      /\ op \in A!TwoOperand \cup {RVM_OP.LOAD} => d.reg = a.value /\ A!DenotedBy(w, b)
      /\ op = RVM_OP.STORE => d.reg = b.value /\ A!DenotedBy(w, a)
      /\ op \in A!Transfers => a.type \in {"REG", "LABEL"} /\ A!IndirectBy(w, a)
      BY <1>1, <1>2, <1>7, A!OperandsOfWord
      DEF A!rvm_decode, rvm_decode, A!RVM_OP, RVM_OP
<1>9. P!Transfers = A!Transfers
      BY DEF P!Transfers, A!Transfers, P!RVM_OP, A!RVM_OP
<1>10. \/ op \in A!TwoOperand \cup {RVM_OP.LOAD} /\ op \notin A!Transfers /\ op # RVM_OP.STORE
       \/ op = RVM_OP.STORE /\ op \notin A!Transfers
       \/ op \in A!Transfers
       \/ op = RVM_OP.RET
       BY <1>3, A!OpcodeKinds DEF A!RVM_OP, RVM_OP
<1>11. ASSUME A!DenotedBy(w, opr)
       PROVE  /\ t.type = "REG" => d.mode = RVM_MODE_REG /\ d.operand % 8 = t.value
              /\ t.type = "NUMBER" /\ t.value \in Byte =>
                   d.mode = RVM_MODE_IMM_OR_ADDR /\ d.operand = t.value
       BY <1>6, <1>7, <1>11
       DEF A!DenotedBy, A!rvm_decode, rvm_decode, A!Byte, Byte, A!RVM_MODE_REG, RVM_MODE_REG,
           A!RVM_MODE_IMM_OR_ADDR, RVM_MODE_IMM_OR_ADDR
<1>12. CASE op \notin P!Transfers /\ (isFirst <=> op # RVM_OP.STORE)
  <2>1. op # RVM_OP.RET BY <1>3, <1>4, <1>6 DEF P!NoOperand
  <2>2. d.reg = t.value BY <1>4, <1>6, <1>8, <1>9, <1>10, <1>12, <2>1
  <2> QED BY <1>1, <1>5, <1>7, <1>8, <1>12, <2>2 DEF OperandFound
<1>13. CASE op \notin P!Transfers /\ ~(isFirst <=> op # RVM_OP.STORE)
  <2>1. op # RVM_OP.RET BY <1>3, <1>4, <1>6 DEF P!NoOperand
  <2>2. A!DenotedBy(w, opr)
    <3>1. CASE op = RVM_OP.STORE BY <1>4, <1>8, <1>13, <3>1
    <3>2. CASE op # RVM_OP.STORE BY <1>4, <1>8, <1>9, <1>10, <1>13, <2>1, <3>2
    <3> QED BY <3>1, <3>2
  <2> QED BY <1>1, <1>5, <1>7, <1>8, <1>11, <1>13, <2>2 DEF OperandFound
<1>14. CASE op \in P!Transfers
  <2>1. ASSUME isFirst, t.type = "REG"
        PROVE  BranchMode(w) = RVM_MODE_REG /\ BranchReg(w) = t.value
    <3>1. opr = a /\ a.type = "REG" /\ A!IndirectBy(w, a)
          BY <1>4, <1>6, <1>8, <1>9, <1>14, <2>1
    <3> QED BY <1>6, <3>1
            DEF A!IndirectBy, A!BranchMode, BranchMode, A!BranchReg, BranchReg,
                A!RVM_MODE_REG, RVM_MODE_REG
  <2> QED BY <1>1, <1>5, <1>7, <1>8, <1>14, <2>1 DEF OperandFound
<1> QED BY <1>12, <1>13, <1>14

\* So what is built is an invariant.
LEMMA TextBuiltInvariant == ToolSpec => []TextBuilt
<1>1. ToolInit => TextBuilt
  <2> SUFFICES ASSUME ToolInit PROVE TextBuilt OBVIOUS
  <2>1. asm = "start" /\ program.instrs = <<>> /\ program.labels = <<>>
        BY DEF ToolInit, P!Init, P!rsm_program_create
  <2>2. P!IsTokens(tokens) BY ParserTokens DEF ToolInit, P!Init
  <2> QED BY <2>1, <2>2 DEF TextBuilt, P!Built, FrontPhase, BackPhase
<1>2. BothInv => AsmInv BY DEF BothInv
<1> QED BY <1>1, <1>2, TextBuiltStep, BothInvariant, PTL DEF ToolSpec

\* From end to end: a rocketrun started after a success with no failing write
\* has, for as long as it runs, at the address of every line what the line
\* says, as long as no STORE hits the program region: for every text, up to
\* numbers of more than a byte, which the cast in rsm_encode_instr cuts, and up
\* to the end of the region that the fetch can reach.
THEOREM TextIsRun == ToolSpec /\ []StoresMissTheProgram => []RunsTheText
<1>1. BothInv /\ LaunchInv /\ TextBuilt => RunsTheText
  <2> SUFFICES ASSUME BothInv, LaunchInv, TextBuilt,
                      launched = "done", phase = "running", NothingLost,
                      NEW n \in DOMAIN tokens, tokens[n].type = "OPCODE",
                      NEW addr, addr = 2 * P!OpcodesBefore(n),
                      addr + 2 <= RVM_MEMORY_PROGRAM_END,
                      NEW word, word = rvm_memory_read_uint16(mem, addr)
               PROVE  /\ rvm_decode(word).opcode = tokens[n].value
                      /\ \A k \in P!Mentioned(n) :
                           OperandFound(word, tokens[k], \A l \in P!Mentioned(n) : k <= l)
      BY Zenon DEF RunsTheText
  <2>1. /\ asm = "done" /\ Len(out) = Len(program.instrs) /\ Len(out) \in Nat
        /\ \A i \in 1 .. Len(out) :
             2 * i <= RVM_MEMORY_PROGRAM_END => rvm_memory_read_uint16(mem, 2 * i - 2) = out[i]
        BY ProgramInMemory
  <2>2. AsmInv /\ A!AInv /\ asm \in BackPhase BY <2>1 DEF BothInv, AsmInv, BackPhase
  <2>3. PICK i : i = P!OpcodesBefore(n) + 1 OBVIOUS
  <2>4. /\ i \in Nat \ {0} /\ i \in 1 .. Len(program.instrs)
        /\ program.instrs[i].opcode = tokens[n].value
        /\ \A k \in P!Mentioned(n) :
             P!IsOperand(IF \A l \in P!Mentioned(n) : k <= l THEN program.instrs[i].opr1
                         ELSE program.instrs[i].opr2, k)
        BY <2>1, <2>2, <2>3, LineInProgram
  <2>5. addr = 2 * i - 2 /\ addr + 2 = 2 * i
    <3>1. n \in Nat BY DEF TextBuilt, P!IsTokens
    <3>2. P!OpcodesBefore(n) \in Nat BY <3>1, ParserAssumptions, P!Counts
    <3> QED BY <2>3, <3>2
  <2>6. word = out[i] BY <2>1, <2>4, <2>5
  <2>7. /\ i \in DOMAIN out /\ rvm_decode(out[i]).opcode = program.instrs[i].opcode
        BY <2>1, <2>2, <2>4, OpcodeEmitted
  <2>8. ASSUME NEW k \in P!Mentioned(n)
        PROVE  OperandFound(word, tokens[k], \A l \in P!Mentioned(n) : k <= l)
    <3>1. PICK isFirst \in BOOLEAN : isFirst <=> \A l \in P!Mentioned(n) : k <= l
          OBVIOUS
    <3>2. tokens[k].type \in DOMAIN P!OperandType BY DEF P!Mentioned
    <3>3. P!IsOperand(IF isFirst THEN program.instrs[i].opr1 ELSE program.instrs[i].opr2, k)
          BY <2>4, <3>1
    <3>4. OperandFound(out[i], tokens[k], isFirst) BY <2>2, <2>7, <3>2, <3>3, OperandIsFound
    <3> QED BY <2>6, <3>1, <3>4 DEF OperandFound
  <2> QED BY <2>4, <2>6, <2>7, <2>8
<1> QED BY <1>1, BothInvariant, LaunchInvariant, TextBuiltInvariant, PTL

-----------------------------------------------------------------------------
(***************************************************************************)
(* The condition on stores holds for texts that have none.                 *)
(***************************************************************************)
\* No text has a STORE.
TextsAreStoreFree ==
  \A t \in Texts : \A n \in DOMAIN P!Tokens(t) :
    P!Tokens(t)[n].type = "OPCODE" => P!Tokens(t)[n].value # RVM_OP.STORE

NoStores == \A i \in DOMAIN program.instrs : program.instrs[i].opcode # RVM_OP.STORE

\* The instructions of a program are those of its text.
LEMMA ParsedWithoutStore ==
  ASSUME P!PInv, TextsAreStoreFree
  PROVE  NoStores
<1>1. src \in Texts /\ tokens = P!Tokens(src) /\ P!IsTokens(tokens)
      BY ParserTokens DEF P!PInv
<1>2. program.instrs \in Seq(P!InstrsRead) BY DEF P!PInv, P!ProgramOK
<1>3. ASSUME NEW i \in DOMAIN program.instrs
      PROVE  program.instrs[i].opcode # RVM_OP.STORE
  <2>1. PICK n \in P!OpcodeTokens : program.instrs[i] = P!InstrAt(n)
    <3>1. program.instrs[i] \in P!InstrsRead BY <1>2
    <3> QED BY <3>1 DEF P!InstrsRead
  <2>2. n \in 1 .. Len(tokens) /\ P!At(n).type = "OPCODE" BY DEF P!OpcodeTokens
  <2>3. P!At(n) = tokens[n] BY <1>1, <2>2 DEF P!At, P!IsTokens
  <2>4. n \in DOMAIN tokens BY <1>1, <2>2 DEF P!IsTokens
  <2>5. program.instrs[i].opcode = tokens[n].value BY <2>1, <2>3 DEF P!InstrAt
  <2> QED BY <1>1, <2>2, <2>3, <2>4, <2>5 DEF TextsAreStoreFree
<1> QED BY <1>3 DEF NoStores

LEMMA RocketasmKeepsNoStores ==
  ASSUME AsmInv, NoStores, TextsAreStoreFree, rocketasm
  PROVE  NoStores'
<1>1. CASE Parse
  <2>1. P!FrontEnd BY <1>1 DEF Parse
  <2>2. asm \in FrontPhase
        BY <2>1 DEF P!FrontEnd, P!Usage, P!SetupFails, P!Start, P!Label, P!Instruction,
                    P!NewLine, P!EndOfText, P!Reject, P!PushFails, P!AtLabel, P!Holding,
                    P!Unexpected, P!LabelTooFar, P!BadInstruction, FrontPhase
  <2>3. P!PInv' BY <2>1, <2>2, ParserAssumptions, P!ParserStep DEF AsmInv, P!Next
  <2>4. (P!PInv /\ TextsAreStoreFree => NoStores)' BY ParsedWithoutStore, PTL
  <2>5. TextsAreStoreFree' BY DEF TextsAreStoreFree
  <2> QED BY <2>3, <2>4, <2>5
<1>2. ~Parse => program' = program
      BY DEF rocketasm, ResolveLabels, A!Resolve, OpenOutput, A!OpenOutput, Emit, A!EmitWord,
             Flush, FlushFails, CloseOutput, A!CloseOutput, EmitFails, A!EmitFails
<1> QED BY <1>1, <1>2 DEF NoStores

LEMMA NoStoresInvariant == ASSUME TextsAreStoreFree PROVE ToolSpec => []NoStores
<1>1. ToolInit => NoStores
  <2> SUFFICES ASSUME ToolInit PROVE NoStores OBVIOUS
  <2>1. P!PInv BY ParserAssumptions, P!ParserInit DEF ToolInit
  <2> QED BY <2>1, ParsedWithoutStore
<1>2. BothInv /\ NoStores /\ [ToolNext]_toolVars => NoStores'
  <2> SUFFICES ASSUME BothInv, NoStores, [ToolNext]_toolVars PROVE NoStores' OBVIOUS
  <2>1. CASE rocketasm BY <2>1, RocketasmKeepsNoStores DEF BothInv
  <2>2. CASE Run \/ UNCHANGED toolVars
        BY <2>2 DEF Run, toolVars, assembler, NoStores
  <2> QED BY <2>1, <2>2 DEF ToolNext
<1> QED BY <1>1, <1>2, BothInvariant, PTL DEF ToolSpec

\* What is fetched from a text without a STORE is no STORE.
LEMMA NothingToStore == BothInv /\ LaunchInv /\ NoStores => StoresMissTheProgram
<1> SUFFICES ASSUME BothInv, LaunchInv, NoStores, launched = "done", phase = "running",
                    NothingLost, Fetchable, instr.opcode = RVM_OP.STORE
             PROVE  FALSE
    BY DEF StoresMissTheProgram
<1>1. instr.opcode # RVM_OP.MOV BY DEF RVM_OP
<1>2. PICK i : i = (rip \div 2) + 1 OBVIOUS
<1>3. i \in DOMAIN program.instrs /\ program.instrs[i].opcode = instr.opcode
      BY <1>1, <1>2, FetchedFromText
<1> QED BY <1>3 DEF NoStores

\* A machine that was given a program without a STORE never stores into it,
\* which is all that the theorems about what runs ask of stores.
THEOREM StoreFreeTextsMiss ==
  ASSUME TextsAreStoreFree
  PROVE  ToolSpec => []StoresMissTheProgram
<1>1. BothInv /\ NoStores /\ LaunchInv /\ [ToolNext]_toolVars => LaunchInv'
      BY NothingToStore, LaunchStep
<1>2. ToolSpec => []LaunchInv
      BY <1>1, LaunchInit, BothInvariant, NoStoresInvariant, PTL DEF ToolSpec
<1> QED BY <1>2, NothingToStore, BothInvariant, NoStoresInvariant, PTL

=============================================================================
