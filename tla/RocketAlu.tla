----------------------------- MODULE RocketAlu -----------------------------
(***************************************************************************)
(* The arithmetic of rocketvm/cpu/cpu_alu.c and the comparison of          *)
(* cpu_ctrlf.c as pure operators.  Each takes the two operands (and the    *)
(* flags before, where some survive) and yields [value, flags]: the word   *)
(* written back and the flags afterwards.  The flag register is the set of *)
(* the flags that are set.                                                 *)
(***************************************************************************)
EXTENDS RocketIsa

Flag == {"RZ", "RN", "RC", "RO"}

INT_MAX == 2147483647

Msb(w) == w >= 32768

SetIf(b, flag) == IF b THEN {flag} ELSE {}

ZeroNegative(w) == SetIf(w = 0, "RZ") \cup SetIf(Msb(w), "RN")

\* A sum that is not cut to 16 bits.
Add_NotTruncated(dst, src) ==
  [ value |-> dst + src, flags |-> ZeroNegative(dst + src) ]

\* An overflow test that forgets the second operand.
Add_OverflowFromDst(dst, src) ==
  LET result == (dst + src) % 65536
  IN  [ value |-> result,
        flags |-> ZeroNegative(result)
                    \cup SetIf(dst + src > 65535, "RC")
                    \cup SetIf(Msb(dst) # Msb(result), "RO") ]

Add(dst, src) ==
  LET result == (dst + src) % 65536
  IN  [ value |-> result,
        flags |-> ZeroNegative(result)
                    \cup SetIf(dst + src > 65535, "RC")
                    \cup SetIf(/\ Msb(dst) # Msb(result)
                               /\ Msb(src) # Msb(result), "RO") ]

\* A subtraction that reports a carry where the code reports a borrow.
Sub_BorrowInverted(dst, src) ==
  LET result == (dst - src) % 65536
  IN  [ value |-> result,
        flags |-> ZeroNegative(result)
                    \cup SetIf(dst > src, "RC")
                    \cup SetIf(/\ Msb(dst) # Msb(src)
                               /\ Msb(dst) # Msb(result), "RO") ]

\* Also the body of rvm_cpu_exec_cmp, which keeps only the flags.
Sub(dst, src) ==
  LET result == (dst - src) % 65536
  IN  [ value |-> result,
        flags |-> ZeroNegative(result)
                    \cup SetIf(dst < src, "RC")
                    \cup SetIf(/\ Msb(dst) # Msb(src)
                               /\ Msb(dst) # Msb(result), "RO") ]

(***************************************************************************)
(* The C product is computed in int, to which both uint16_t operands are   *)
(* promoted.  A product above INT_MAX is undefined behaviour: the low 16   *)
(* bits come from the multiplier in every build, but the test              *)
(* result > 0xFFFF may be compiled as a comparison of the int, so it can   *)
(* go either way.  MulOutcomes is the set of what a build can do.          *)
(* The product is formed from two partial products because TLC's integers  *)
(* are int as well.                                                        *)
(***************************************************************************)
LowProduct(x, y) == (x * (y % 256) + 256 * ((x * (y \div 256)) % 256)) % 65536

ProductExceeds(x, y, limit) == y # 0 /\ x > limit \div y

\* A product tested for overflow after it was cut to 16 bits.
MulOutcomes_TestedLate(dst, src) ==
  LET result == LowProduct(dst, src)
  IN  { [ value |-> result, flags |-> ZeroNegative(result) ] }

MulOutcomes(dst, src) ==
  LET result == LowProduct(dst, src)
      carries == IF ProductExceeds(dst, src, INT_MAX) THEN BOOLEAN
                 ELSE {ProductExceeds(dst, src, 65535)}
  IN  { [ value |-> result,
          flags |-> ZeroNegative(result) \cup SetIf(c, "RC") \cup SetIf(c, "RO") ] :
        c \in carries }

\* A division that clears every flag, as the additive operations do.
Div_ClearsAll(dst, src, flags) ==
  [ value |-> dst \div src, flags |-> ZeroNegative(dst \div src) ]

\* RC and RO survive a division.  The caller has excluded src = 0.
Div(dst, src, flags) ==
  [ value |-> dst \div src,
    flags |-> (flags \ {"RZ", "RN"}) \cup ZeroNegative(dst \div src) ]

Mod(dst, src, flags) ==
  [ value |-> dst % src,
    flags |-> (flags \ {"RZ", "RN"}) \cup ZeroNegative(dst % src) ]

\* A left shift without the early return: a shift by zero touches the flags.
Shl_ZeroToo(dst, shift, flags) ==
  LET result == (dst * 2^shift) % 65536
  IN  [ value |-> result,
        flags |-> ZeroNegative(result)
                    \cup SetIf(/\ shift # 0
                               /\ (dst \div 2^(16 - shift)) % 2 = 1, "RC")
                    \cup SetIf(shift = 1 /\ Msb(dst) # Msb(result), "RO") ]

\* A shift by zero returns before any flag is touched.  RO is computed only
\* for a shift by one and is clear after a longer one.
Shl(dst, shift, flags) ==
  LET result == (dst * 2^shift) % 65536
  IN  IF shift = 0 THEN [ value |-> dst, flags |-> flags ]
      ELSE [ value |-> result,
             flags |-> ZeroNegative(result)
                         \cup SetIf((dst \div 2^(16 - shift)) % 2 = 1, "RC")
                         \cup SetIf(shift = 1 /\ Msb(dst) # Msb(result), "RO") ]

\* A right shift that clears every flag, as the left shift does.
Shr_ClearsAll(dst, shift, flags) ==
  LET result == dst \div 2^shift
  IN  [ value |-> result,
        flags |-> ZeroNegative(result)
                    \cup SetIf(/\ shift # 0
                               /\ (dst \div 2^(shift - 1)) % 2 = 1, "RC") ]

\* RO survives a right shift; the flags are recomputed even for shift = 0.
Shr(dst, shift, flags) ==
  LET result == dst \div 2^shift
  IN  [ value |-> result,
        flags |-> (flags \cap {"RO"}) \cup ZeroNegative(result)
                    \cup SetIf(/\ shift # 0
                               /\ (dst \div 2^(shift - 1)) % 2 = 1, "RC") ]

=============================================================================
