--------------------------- MODULE RocketAluBench ---------------------------
(***************************************************************************)
(* A bench for the operators of RocketAlu: one operation on any pair of    *)
(* sample words, from any flags.  The properties state in terms of         *)
(* integers, signed and unsigned, what the result and the flags mean; the  *)
(* sources of these meanings are sections 5.3 and 5.4 and the FLAGS table  *)
(* of specification/Architecture.md.                                       *)
(***************************************************************************)
EXTENDS RocketAlu

CONSTANT Sample     \* the operands

ASSUME SampleAssumption == Sample \subseteq Word

Op == {"ADD", "SUB", "MUL", "DIV", "MOD", "SHL", "SHR"}

VARIABLES op, dst, src, before, value, after

vars == <<op, dst, src, before, value, after>>

Init == /\ op = "none"
        /\ dst \in Sample
        /\ src \in Sample
        /\ before \in SUBSET Flag
        /\ value = dst
        /\ after = before

Outcomes(o) ==
  CASE o = "ADD" -> {Add(dst, src)}
    [] o = "SUB" -> {Sub(dst, src)}
    [] o = "MUL" -> MulOutcomes(dst, src)
    [] o = "DIV" -> IF src = 0 THEN {} ELSE {Div(dst, src, before)}
    [] o = "MOD" -> IF src = 0 THEN {} ELSE {Mod(dst, src, before)}
    [] o = "SHL" -> {Shl(dst, src % 16, before)}
    [] o = "SHR" -> {Shr(dst, src % 16, before)}

Next == /\ op = "none"
        /\ \E o \in Op : /\ op' = o
                         /\ \E outcome \in Outcomes(o) :
                              value' = outcome.value /\ after' = outcome.flags
        /\ UNCHANGED <<dst, src, before>>

Spec == Init /\ [][Next]_vars

-----------------------------------------------------------------------------
Signed(w) == IF Msb(w) THEN w - 65536 ELSE w

InSignedRange(n) == -32768 <= n /\ n <= 32767

Has(flag) == flag \in after

\* ADD, cpu_alu.c:4: with RC as the 17th bit the sum is exact, and RO says
\* whether the sum of the operands read as signed numbers was lost.
AddIsExact ==
  op = "ADD" =>
    /\ value + (IF Has("RC") THEN 65536 ELSE 0) = dst + src
    /\ Has("RO") <=> ~InSignedRange(Signed(dst) + Signed(src))

\* SUB and CMP, cpu_alu.c:35 and cpu_ctrlf.c:4: the flags decide all the
\* comparisons a program can make, unsigned (RC) and signed (RN and RO).
SubCompares ==
  op = "SUB" =>
    /\ Has("RZ") <=> dst = src
    /\ Has("RC") <=> dst < src
    /\ (Has("RN") # Has("RO")) <=> Signed(dst) < Signed(src)

\* MUL, cpu_alu.c:67: the word is the low half of the product of all operands,
\* read as signed or unsigned numbers alike, and no build reports one of the
\* two overflows without the other.  Up to INT_MAX they are reported exactly
\* if the product does not fit; beyond, where the C product is undefined,
\* nothing is claimed of when they are.
MulIsExact ==
  op = "MUL" =>
    /\ value = (Signed(dst) * Signed(src)) % 65536
    /\ Has("RO") <=> Has("RC")
    /\ ~ProductExceeds(dst, src, INT_MAX) => (Has("RC") <=> dst * src > 65535)

\* DIV and MOD, cpu_alu.c:97 and 135: quotient and remainder belong to the
\* same Euclidean division, and RC and RO survive.
DivModIsExact ==
  /\ op = "DIV" => dst - src * value \in 0 .. src - 1
  /\ op = "MOD" => value < src /\ (dst - value) % src = 0
  /\ op \in {"DIV", "MOD"} => /\ Has("RC") <=> "RC" \in before
                              /\ Has("RO") <=> "RO" \in before

\* SHL and SHR, cpu_alu.c:173 and 212: RC is the last bit moved out, next to
\* the 16 bits that stay.  RO says whether doubling a signed number lost its
\* sign, and is clear after every longer SHL.  A shift by zero moves nothing;
\* SHL then leaves all flags alone, where SHR clears the carry.
ShiftsAreExact ==
  LET k == src % 16
      carry == IF Has("RC") THEN 1 ELSE 0
  IN  /\ op = "SHL" /\ k # 0 => /\ 65536 * carry + value = (dst * 2^k) % 131072
                               /\ Has("RO") <=> k = 1 /\ ~InSignedRange(2 * Signed(dst))
      /\ op = "SHR" /\ k # 0 => 2 * value + carry = dst \div 2^(k - 1)
      /\ op = "SHL" /\ k = 0 => value = dst /\ after = before
      /\ op = "SHR" /\ k = 0 => value = dst /\ carry = 0

\* SHR leaves RO alone (the FLAGS table), and every operation but a SHL by
\* zero reports in RZ and RN the value it has written.
FlagsDescribeTheValue ==
  /\ op = "SHR" => (Has("RO") <=> "RO" \in before)
  /\ op # "none" /\ ~(op = "SHL" /\ src % 16 = 0) =>
       /\ Has("RZ") <=> value = 0
       /\ Has("RN") <=> Signed(value) < 0

=============================================================================
