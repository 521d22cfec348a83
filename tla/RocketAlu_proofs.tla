-------------------------- MODULE RocketAlu_proofs --------------------------
(***************************************************************************)
(* What the results and the flags of the arithmetic unit mean, for all     *)
(* words and not only for those of a run.                                  *)
(***************************************************************************)
EXTENDS RocketAluBench, TLAPS

-----------------------------------------------------------------------------
(***************************************************************************)
(* Arithmetic.                                                             *)
(***************************************************************************)
\* Products are monotonic.
LEMMA ProductGrows ==
  ASSUME NEW a \in Nat, NEW b \in Nat, NEW c \in Nat, a <= b
  PROVE  a * c <= b * c
OBVIOUS

\* A division by a number that is not known.
LEMMA Euclid ==
  ASSUME NEW d \in Nat, NEW s \in Nat, s # 0
  PROVE  /\ d \div s \in Nat /\ d % s \in 0 .. s - 1
         /\ d = s * (d \div s) + (d % s)
OBVIOUS

\* Quotient and remainder are determined by what Euclid says of them.
LEMMA EuclidUnique ==
  ASSUME NEW q \in Nat, NEW s \in Nat, NEW r \in 0 .. s - 1, NEW d, d = s * q + r
  PROVE  d \div s = q /\ d % s = r
<1> DEFINE p == d \div s
           t == d % s
<1>1. s \in Nat /\ s # 0 /\ r \in Nat /\ s * q \in Nat OBVIOUS
<1>2. d \in Nat BY <1>1
<1>3. p \in Nat /\ t \in 0 .. s - 1 /\ d = s * p + t BY <1>1, <1>2, Euclid
<1> HIDE DEF p, t
<1>4. s * q + r = s * p + t BY <1>3
<1>5. CASE q + 1 <= p
  <2>1. (q + 1) * s <= p * s BY <1>3, <1>5, ProductGrows
  <2>2. (q + 1) * s = s * q + s /\ p * s = s * p BY <1>3
  <2> QED BY <1>1, <1>3, <1>4, <2>1, <2>2
<1>6. CASE p + 1 <= q
  <2>1. (p + 1) * s <= q * s BY <1>3, <1>6, ProductGrows
  <2>2. (p + 1) * s = s * p + s /\ q * s = s * q BY <1>3
  <2> QED BY <1>1, <1>3, <1>4, <2>1, <2>2
<1>7. q = p BY <1>3, <1>5, <1>6
<1>8. r = t BY <1>1, <1>3, <1>4, <1>7
<1> QED BY <1>7, <1>8 DEF p, t

\* A multiple of the divisor leaves no remainder.
LEMMA NoRemainder ==
  ASSUME NEW q \in Nat, NEW s \in Nat, s # 0
  PROVE  (s * q) % s = 0
<1>1. 0 \in 0 .. s - 1 /\ s * q = s * q + 0 OBVIOUS
<1> QED BY <1>1, EuclidUnique

\* Adding a multiple of 2^16 changes no word.
LEMMA WholeTurns ==
  ASSUME NEW n \in Int, NEW k \in Int
  PROVE  (n + (65536 * k)) % 65536 = n % 65536
OBVIOUS

\* The product of the operands is tested by a division.
LEMMA ExceedsIsGreater ==
  ASSUME NEW x \in Nat, NEW y \in Nat, NEW limit \in Nat
  PROVE  ProductExceeds(x, y, limit) <=> x * y > limit
<1>1. CASE y = 0 BY <1>1 DEF ProductExceeds
<1>2. CASE y # 0
  <2> DEFINE q == limit \div y
             r == limit % y
  <2>1. q \in Nat /\ r \in 0 .. y - 1 /\ limit = y * q + r BY <1>2, Euclid
  <2> HIDE DEF q, r
  <2>2. ASSUME x > q PROVE x * y > limit
    <3>1. (q + 1) * y <= x * y BY <2>1, <2>2, ProductGrows
    <3>2. (q + 1) * y = y * q + y BY <2>1
    <3> QED BY <2>1, <3>1, <3>2
  <2>3. ASSUME x <= q PROVE x * y <= limit
    <3>1. x * y <= q * y BY <2>1, <2>3, ProductGrows
    <3>2. q * y = y * q BY <2>1
    <3> QED BY <2>1, <3>1, <3>2
  <2>4. x * y \in Nat OBVIOUS
  <2>5. ProductExceeds(x, y, limit) <=> x > q BY <1>2 DEF ProductExceeds, q
  <2> QED BY <2>1, <2>2, <2>3, <2>4, <2>5
<1> QED BY <1>1, <1>2

\* The two partial products make the low half of the product.
LEMMA LowProductIsLow ==
  ASSUME NEW x \in Nat, NEW y \in Nat
  PROVE  LowProduct(x, y) = (x * y) % 65536
<1> DEFINE r == y % 256
           q == y \div 256
           p == x * q
           k == p \div 256
           m == p % 256
<1>1. q \in Nat /\ r \in Nat /\ y = 256 * q + r OBVIOUS
<1> HIDE DEF q, r
<1>2. p \in Nat BY <1>1
<1>3. x * y = x * r + 256 * p
  <2>1. x * y = x * (256 * q + r) BY <1>1
  <2>2. x * (256 * q + r) = 256 * (x * q) + x * r BY <1>1
  <2>3. x * r \in Nat BY <1>1
  <2> QED BY <1>2, <2>1, <2>2, <2>3
<1> HIDE DEF p
<1>4. k \in Nat /\ m \in Nat /\ p = 256 * k + m BY <1>2
<1> HIDE DEF k, m
<1>5. x * r \in Nat BY <1>1
<1>6. x * y = (x * r + 256 * m) + (65536 * k) BY <1>3, <1>4, <1>5
<1>7. (x * r + 256 * m) \in Int BY <1>4, <1>5
<1>8. (x * y) % 65536 = (x * r + 256 * m) % 65536 BY <1>4, <1>6, <1>7, WholeTurns
<1>9. LowProduct(x, y) = (x * r + 256 * m) % 65536 BY DEF LowProduct, r, q, p, m
<1> QED BY <1>8, <1>9

-----------------------------------------------------------------------------
(***************************************************************************)
(* What the flags of each operation say.                                   *)
(***************************************************************************)
\* RZ and RN describe a word, next to any other flags.
LEMMA ZeroNegativeOf ==
  ASSUME NEW w \in Word, NEW f, "RZ" \notin f, "RN" \notin f
  PROVE  /\ "RZ" \in f \cup ZeroNegative(w) <=> w = 0
         /\ "RN" \in f \cup ZeroNegative(w) <=> Signed(w) < 0
         /\ "RC" \in f \cup ZeroNegative(w) <=> "RC" \in f
         /\ "RO" \in f \cup ZeroNegative(w) <=> "RO" \in f
BY DEF ZeroNegative, SetIf, Signed, Msb, Word

\* What a sum and its flags mean.
LEMMA AddMeans ==
  ASSUME NEW d \in Word, NEW s \in Word,
         NEW v, v = Add(d, s).value, NEW f, f = Add(d, s).flags
  PROVE  /\ v \in Word
         /\ v + (IF "RC" \in f THEN 65536 ELSE 0) = d + s
         /\ "RO" \in f <=> ~InSignedRange(Signed(d) + Signed(s))
         /\ "RZ" \in f <=> v = 0
         /\ "RN" \in f <=> Signed(v) < 0
<1> DEFINE carry == d + s > 65535
           overflow == Msb(d) # Msb(v) /\ Msb(s) # Msb(v)
<1>1. v = (d + s) % 65536 BY DEF Add
<1>2. /\ v \in Word
      /\ v + (IF carry THEN 65536 ELSE 0) = d + s
      /\ overflow <=> ~InSignedRange(Signed(d) + Signed(s))
      /\ v >= 32768 <=> Signed(v) < 0
      BY <1>1 DEF Word, Msb, Signed, InSignedRange
<1>3. /\ "RZ" \in f <=> v = 0
      /\ "RN" \in f <=> v >= 32768
      /\ "RC" \in f <=> carry
      /\ "RO" \in f <=> overflow
      BY <1>1 DEF Add, ZeroNegative, SetIf, Msb
<1> HIDE DEF carry, overflow
<1> QED BY <1>2, <1>3

\* What a difference and its flags mean; CMP keeps only the flags.
LEMMA SubMeans ==
  ASSUME NEW d \in Word, NEW s \in Word,
         NEW v, v = Sub(d, s).value, NEW f, f = Sub(d, s).flags
  PROVE  /\ v \in Word
         /\ "RZ" \in f <=> d = s
         /\ "RC" \in f <=> d < s
         /\ ("RN" \in f) # ("RO" \in f) <=> Signed(d) < Signed(s)
         /\ "RZ" \in f <=> v = 0
         /\ "RN" \in f <=> Signed(v) < 0
<1> DEFINE overflow == Msb(d) # Msb(s) /\ Msb(d) # Msb(v)
<1>1. v = (d - s) % 65536 BY DEF Sub
<1>2. /\ v \in Word
      /\ v = 0 <=> d = s
      /\ (v >= 32768 <=> ~overflow) <=> Signed(d) < Signed(s)
      /\ v >= 32768 <=> Signed(v) < 0
      BY <1>1 DEF Word, Msb, Signed
<1>3. /\ "RZ" \in f <=> v = 0
      /\ "RN" \in f <=> v >= 32768
      /\ "RC" \in f <=> d < s
      /\ "RO" \in f <=> overflow
      BY <1>1 DEF Sub, ZeroNegative, SetIf, Msb
<1> HIDE DEF overflow
<1>4. ("RN" \in f <=> "RO" \notin f) <=> Signed(d) < Signed(s) BY <1>2, <1>3
<1>5. ("RN" \in f) # ("RO" \in f) <=> Signed(d) < Signed(s) BY <1>4
<1> QED BY <1>2, <1>3, <1>5

\* The low half of a product does not depend on the signs.
LEMMA SignedProduct ==
  ASSUME NEW d \in Word, NEW s \in Word
  PROVE  (Signed(d) * Signed(s)) % 65536 = (d * s) % 65536
<1>1. d \in Nat /\ s \in Nat /\ d * s \in Int BY DEF Word
<1>2. PICK a \in {0, 1} : Signed(d) = d - 65536 * a
      BY <1>1 DEF Signed
<1>3. PICK b \in {0, 1} : Signed(s) = s - 65536 * b
      BY <1>1 DEF Signed
<1> DEFINE turns == 65536 * (a * b) - a * s - b * d
<1>4. turns \in Int BY <1>1
<1>5. Signed(d) * Signed(s) = (d * s) + (65536 * turns)
  <2>1. CASE a = 0 /\ b = 0 BY <1>1, <1>2, <1>3, <2>1
  <2>2. CASE a = 1 /\ b = 0 BY <1>1, <1>2, <1>3, <2>2
  <2>3. CASE a = 0 /\ b = 1 BY <1>1, <1>2, <1>3, <2>3
  <2>4. CASE a = 1 /\ b = 1 BY <1>1, <1>2, <1>3, <2>4
  <2> QED BY <2>1, <2>2, <2>3, <2>4
<1> HIDE DEF turns
<1> QED BY <1>1, <1>4, <1>5, WholeTurns

\* What every outcome of a product means, whatever the build.
LEMMA MulMeans ==
  ASSUME NEW d \in Word, NEW s \in Word, NEW r \in MulOutcomes(d, s),
         NEW v, v = r.value, NEW f, f = r.flags
  PROVE  /\ v = (d * s) % 65536
         /\ ~ProductExceeds(d, s, INT_MAX) => ("RC" \in f <=> d * s > 65535)
         /\ "RO" \in f <=> "RC" \in f
         /\ "RZ" \in f <=> v = 0
         /\ "RN" \in f <=> Signed(v) < 0
<1>1. d \in Nat /\ s \in Nat BY DEF Word
<1> DEFINE beyond == ProductExceeds(d, s, INT_MAX)
           carry == ProductExceeds(d, s, 65535)
           low == LowProduct(d, s)
           Result(c) == [ value |-> low,
                          flags |-> ZeroNegative(low) \cup SetIf(c, "RC") \cup SetIf(c, "RO") ]
           clear == [ value |-> low, flags |-> ZeroNegative(low) ]
           set == [ value |-> low, flags |-> ZeroNegative(low) \cup {"RC", "RO"} ]
<1>2. /\ r = set \/ r = clear
      /\ ~beyond => (carry => r = set) /\ (~carry => r = clear)
  <2> DEFINE carries == IF beyond THEN BOOLEAN ELSE {carry}
  <2>1. r \in {Result(c) : c \in carries} BY DEF MulOutcomes
  <2>2. Result(TRUE) = set
    <3>1. SetIf(TRUE, "RC") = {"RC"} /\ SetIf(TRUE, "RO") = {"RO"} BY DEF SetIf
    <3>2. ZeroNegative(low) \cup {"RC"} \cup {"RO"} = ZeroNegative(low) \cup {"RC", "RO"} OBVIOUS
    <3> QED BY <3>1, <3>2, Zenon
  <2>3. Result(FALSE) = clear
    <3>1. SetIf(FALSE, "RC") = {} /\ SetIf(FALSE, "RO") = {} BY DEF SetIf
    <3>2. ZeroNegative(low) \cup {} \cup {} = ZeroNegative(low) OBVIOUS
    <3> QED BY <3>1, <3>2, Zenon
  <2> HIDE DEF Result, beyond, carry, set, clear
  <2>4. CASE beyond
    <3>1. r \in {Result(c) : c \in {TRUE, FALSE}} BY <2>1, <2>4
    <3>2. r = Result(TRUE) \/ r = Result(FALSE) BY <3>1
    <3> QED BY <2>2, <2>3, <2>4, <3>2
  <2>5. CASE ~beyond
    <3>1. r \in {Result(c) : c \in {carry}} BY <2>1, <2>5
    <3>2. carry \in BOOLEAN BY DEF carry, ProductExceeds
    <3>3. r = Result(carry) BY <3>1
    <3>4. CASE carry
      <4>1. carry = TRUE BY <3>4, <3>2
      <4> QED BY <2>2, <3>3, <3>4, <4>1
    <3>5. CASE ~carry
      <4>1. carry = FALSE BY <3>5, <3>2
      <4> QED BY <2>3, <3>3, <3>5, <4>1
    <3> QED BY <2>5, <3>4, <3>5
  <2> QED BY <2>4, <2>5
<1>3. v = low
  <2>1. set.value = low /\ clear.value = low OBVIOUS
  <2> HIDE DEF set, clear, low
  <2> QED BY <1>2, <2>1
<1>4. low = (d * s) % 65536 BY <1>1, LowProductIsLow DEF low
<1>5. carry <=> d * s > 65535 BY <1>1, ExceedsIsGreater
<1>6. v \in Word
  <2>1. d * s \in Nat BY <1>1
  <2> QED BY <1>3, <1>4, <2>1 DEF Word
<1>7. f = ZeroNegative(v) \cup {"RC", "RO"} \/ f = ZeroNegative(v)
  <2>1. set.flags = ZeroNegative(low) \cup {"RC", "RO"} /\ clear.flags = ZeroNegative(low) OBVIOUS
  <2> HIDE DEF set, clear
  <2> QED BY <1>2, <1>3, <2>1
<1>8. /\ ~beyond => ("RC" \in f <=> carry)
      /\ "RO" \in f <=> "RC" \in f
      /\ "RZ" \in f <=> v = 0
      /\ "RN" \in f <=> v >= 32768
  <2>1. /\ "RO" \in f <=> "RC" \in f
        /\ "RZ" \in f <=> v = 0
        /\ "RN" \in f <=> v >= 32768
        BY <1>7 DEF ZeroNegative, SetIf, Msb
  <2>2. "RC" \in set.flags /\ "RC" \notin clear.flags BY DEF ZeroNegative, SetIf
  <2> HIDE DEF set, clear, beyond, carry
  <2>3. ~beyond => ("RC" \in f <=> carry) BY <1>2, <2>2
  <2> QED BY <2>1, <2>3
<1>9. v >= 32768 <=> Signed(v) < 0 BY <1>6 DEF Signed, Msb, Word
<1> HIDE DEF low, carry
<1> QED BY <1>3, <1>4, <1>5, <1>8, <1>9

\* The flags that survive a division, next to those of the result.
LEMMA SurvivingFlags ==
  ASSUME NEW w \in Word, NEW b, NEW f, f = (b \ {"RZ", "RN"}) \cup ZeroNegative(w)
  PROVE  /\ "RC" \in f <=> "RC" \in b
         /\ "RO" \in f <=> "RO" \in b
         /\ "RZ" \in f <=> w = 0
         /\ "RN" \in f <=> Signed(w) < 0
BY DEF ZeroNegative, SetIf, Signed, Msb, Word

\* What a quotient and its flags mean.
LEMMA DivMeans ==
  ASSUME NEW d \in Word, NEW s \in Word, s # 0, NEW b,
         NEW v, v = Div(d, s, b).value, NEW f, f = Div(d, s, b).flags
  PROVE  /\ d - s * v \in 0 .. s - 1
         /\ "RC" \in f <=> "RC" \in b
         /\ "RO" \in f <=> "RO" \in b
         /\ "RZ" \in f <=> v = 0
         /\ "RN" \in f <=> Signed(v) < 0
<1>1. d \in Nat /\ s \in Nat /\ d <= 65535 BY DEF Word
<1>2. v = d \div s /\ f = (b \ {"RZ", "RN"}) \cup ZeroNegative(v) BY DEF Div
<1>3. v \in Nat /\ v <= d BY <1>1, <1>2
<1>4. v \in Word BY <1>1, <1>3 DEF Word
<1>5. d - s * v \in 0 .. s - 1
  <2>1. d % s \in 0 .. s - 1 /\ d = s * v + (d % s) BY <1>1, <1>2, Euclid
  <2>2. s * v \in Nat BY <1>1, <1>3
  <2> QED BY <1>1, <2>1, <2>2
<1> QED BY <1>2, <1>4, <1>5, SurvivingFlags

\* What a remainder and its flags mean.
LEMMA ModMeans ==
  ASSUME NEW d \in Word, NEW s \in Word, s # 0, NEW b,
         NEW v, v = Mod(d, s, b).value, NEW f, f = Mod(d, s, b).flags
  PROVE  /\ v < s /\ (d - v) % s = 0
         /\ "RC" \in f <=> "RC" \in b
         /\ "RO" \in f <=> "RO" \in b
         /\ "RZ" \in f <=> v = 0
         /\ "RN" \in f <=> Signed(v) < 0
<1>1. d \in Nat /\ s \in Nat /\ s <= 65535 BY DEF Word
<1>2. v = d % s /\ f = (b \ {"RZ", "RN"}) \cup ZeroNegative(v) BY DEF Mod
<1>3. /\ v \in 0 .. s - 1 /\ d \div s \in Nat
      /\ d = s * (d \div s) + v
      BY <1>1, <1>2, Euclid
<1>4. v \in Word BY <1>1, <1>3 DEF Word
<1>5. (d - v) % s = 0
  <2> DEFINE q == d \div s
  <2>1. q \in Nat /\ d = s * q + v BY <1>3
  <2> HIDE DEF q
  <2>2. d - v = s * q BY <1>1, <1>3, <2>1
  <2> QED BY <1>1, <2>1, <2>2, NoRemainder
<1> QED BY <1>1, <1>2, <1>3, <1>4, <1>5, SurvivingFlags

\* The number of words, as a name that the provers may leave unexpanded.
Words == 65536

\* All that most steps need of this name.
LEMMA WordsIsNatural == Words \in Nat
BY DEF Words

\* The powers of two of the shifts.
LEMMA Powers ==
  ASSUME NEW k \in 1 .. 15
  PROVE  /\ 2^k \in Nat /\ 2^(16 - k) \in Nat /\ 2^(k - 1) \in Nat
         /\ 2^(16 - k) # 0 /\ 2^(k - 1) # 0
         /\ 2^k = 2 * 2^(k - 1) /\ 2^(16 - k) * 2^k = Words
<1>1. CASE k = 1 BY <1>1 DEF Words
<1>2. CASE k = 2 BY <1>2 DEF Words
<1>3. CASE k = 3 BY <1>3 DEF Words
<1>4. CASE k = 4 BY <1>4 DEF Words
<1>5. CASE k = 5 BY <1>5 DEF Words
<1>6. CASE k = 6 BY <1>6 DEF Words
<1>7. CASE k = 7 BY <1>7 DEF Words
<1>8. CASE k = 8 BY <1>8 DEF Words
<1>9. CASE k = 9 BY <1>9 DEF Words
<1>10. CASE k = 10 BY <1>10 DEF Words
<1>11. CASE k = 11 BY <1>11 DEF Words
<1>12. CASE k = 12 BY <1>12 DEF Words
<1>13. CASE k = 13 BY <1>13 DEF Words
<1>14. CASE k = 14 BY <1>14 DEF Words
<1>15. CASE k = 15 BY <1>15 DEF Words
<1> QED BY <1>1, <1>2, <1>3, <1>4, <1>5, <1>6, <1>7, <1>8, <1>9, <1>10, <1>11,
           <1>12, <1>13, <1>14, <1>15

\* Bit w of a number, for m = 2^w.
LEMMA TurnsAndRest ==
  ASSUME NEW m \in Nat, NEW a \in Nat, NEW x \in 0 .. m - 1
  PROVE  (m * a + x) % (2 * m) = m * (a % 2) + ((m * a + x) % m)
<1> DEFINE h == a \div 2
           c == a % 2
<1>1. h \in Nat /\ c \in {0, 1} /\ a = 2 * h + c OBVIOUS
<1> HIDE DEF h, c
<1>2. m * a + x = (2 * m) * h + (m * c + x)
  <2>1. m * a = (2 * m) * h + m * c BY <1>1
  <2> QED BY <2>1, <1>1
<1>3. m * c + x \in 0 .. (2 * m) - 1 BY <1>1
<1>4. (m * a + x) % (2 * m) = m * c + x
  <2>1. 2 * m \in Nat OBVIOUS
  <2>2. PICK t : t = 2 * m OBVIOUS
  <2>3. PICK y : y = m * c + x OBVIOUS
  <2>4. m * a + x = t * h + y BY <1>2, <2>2, <2>3, Zenon
  <2>5. t \in Nat /\ y \in 0 .. t - 1 BY <1>3, <2>1, <2>2, <2>3, Zenon
  <2>6. (m * a + x) % t = y BY <1>1, <2>4, <2>5, EuclidUnique
  <2> QED BY <2>2, <2>3, <2>6, Zenon
<1>5. (m * a + x) % m = x
  <2>1. m * a + x = m * a + x OBVIOUS
  <2> QED BY <2>1, EuclidUnique
<1> QED BY <1>4, <1>5, Zenon DEF c

\* Split at bit 16 - k, a word that is shifted left by k falls apart into
\* what leaves it and what stays: p stands for 2^k and q for 2^(16 - k).
FallsApart(a, q, e, p) ==
  /\ e * p \in 0 .. (q * p) - 1
  /\ (q * a + e) * p = (q * p) * a + e * p

LEMMA ShiftedParts ==
  ASSUME NEW a \in Nat, NEW q \in Nat, NEW e \in 0 .. q - 1, NEW p \in Nat,
         p # 0
  PROVE  FallsApart(a, q, e, p)
<1>1. e * p \in 0 .. (q * p) - 1
  <2>1. e * p \in Nat /\ e * p <= (q - 1) * p BY ProductGrows
  <2>2. (q - 1) * p = q * p - p OBVIOUS
  <2> QED BY <2>1, <2>2
<1>2. (q * a + e) * p = (q * p) * a + e * p OBVIOUS
<1> QED BY <1>1, <1>2, Zenon DEF FallsApart

\* A right shift by one more place halves the quotient.
LEMMA RightShift ==
  ASSUME NEW d \in Nat, NEW r \in Nat, r # 0
  PROVE  d \div r = 2 * (d \div (2 * r)) + ((d \div r) % 2)
<1> DEFINE a == d \div r
           e == d % r
           b == a \div 2
           c == a % 2
<1>1. a \in Nat /\ e \in 0 .. r - 1 /\ d = r * a + e
  <2>1. r \in Nat /\ r # 0 OBVIOUS
  <2> QED BY <2>1, Euclid
<1> HIDE DEF a, e
<1>2. b \in Nat /\ c \in {0, 1} /\ a = 2 * b + c BY <1>1
<1> HIDE DEF b, c
<1>3. d = (2 * r) * b + (r * c + e)
  <2>1. r * a = (2 * r) * b + r * c BY <1>1, <1>2
  <2> QED BY <1>1, <1>2, <2>1
<1>4. r * c + e \in 0 .. (2 * r) - 1 BY <1>1, <1>2
<1>5. d \div (2 * r) = b BY <1>2, <1>3, <1>4, EuclidUnique
<1> QED BY <1>2, <1>5 DEF a, c

\* What ShiftsAreExact says of a shift by k that yields v and f.
ShiftedLeft(d, k, v, f) ==
  65536 * (IF "RC" \in f THEN 1 ELSE 0) + v = (d * 2^k) % 131072

ShiftedRight(d, k, v, f) ==
  2 * v + (IF "RC" \in f THEN 1 ELSE 0) = d \div 2^(k - 1)

\* What a left shift and its flags mean.
LEMMA ShlMeans ==
  ASSUME NEW d \in Word, NEW k \in 0 .. 15, NEW b,
         NEW v, v = Shl(d, k, b).value, NEW f, f = Shl(d, k, b).flags
  PROVE  /\ k # 0 => /\ ShiftedLeft(d, k, v, f)
                     /\ "RZ" \in f <=> v = 0
                     /\ "RN" \in f <=> Signed(v) < 0
         /\ k = 0 => v = d
<1>1. CASE k = 0 BY <1>1 DEF Shl
<1>2. CASE k # 0
  <2>1. PICK p : p = 2^k OBVIOUS
  <2>2. PICK q : q = 2^(16 - k) OBVIOUS
  <2>3. PICK r : r = 2^(k - 1) OBVIOUS
  <2> DEFINE a == d \div q
             e == d % q
             n == d * p
  <2>4. v = n % 65536 BY <1>2, <2>1 DEF Shl
  <2>5. /\ "RC" \in f <=> a % 2 = 1
        /\ "RZ" \in f <=> v = 0
        /\ "RN" \in f <=> v >= 32768
        BY <1>2, <2>2, <2>4 DEF Shl, ZeroNegative, SetIf, Msb
  <2>6. p \in Nat /\ p # 0 /\ q \in Nat /\ q # 0 /\ q * p = Words
    <3>1. k \in 1 .. 15 BY <1>2
    <3>2. /\ 2^k \in Nat /\ 2^(16 - k) \in Nat /\ 2^(k - 1) \in Nat
          /\ 2^(16 - k) # 0 /\ 2^(k - 1) # 0
          /\ 2^k = 2 * 2^(k - 1) /\ 2^(16 - k) * 2^k = Words
          BY <3>1, Powers, Zenon
    <3> QED BY <3>2, <2>1, <2>2
  <2>7. d \in Nat BY DEF Word
  <2>8. a \in Nat /\ e \in 0 .. q - 1 /\ d = q * a + e
    <3>1. q \in Nat /\ q # 0 BY <2>6
    <3> QED BY <3>1, <2>7, Euclid
  <2> HIDE DEF a, e, n
  <2>9. PICK x : x \in 0 .. Words - 1 /\ n = Words * a + x
    <3>1. a \in Nat /\ q \in Nat /\ e \in 0 .. q - 1 /\ p \in Nat /\ p # 0
          BY <2>6, <2>8, Zenon
    <3>2. FallsApart(a, q, e, p) BY <3>1, ShiftedParts
    <3> QED BY <2>6, <2>8, <3>2, Zenon DEF n, FallsApart
  <2>10. n % 131072 = 65536 * (a % 2) + (n % 65536)
    <3>1. (Words * a + x) % (2 * Words) = Words * (a % 2) + ((Words * a + x) % Words)
          BY <2>8, <2>9, WordsIsNatural, TurnsAndRest, Zenon
    <3>2. n % (2 * Words) = Words * (a % 2) + (n % Words) BY <2>9, <3>1, Zenon
    <3> QED BY <3>2 DEF Words
  <2>11. n \in Nat
    <3>1. a \in Nat BY <2>8
    <3>2. x \in Nat BY <2>9, WordsIsNatural
    <3>3. Words * a + x \in Nat BY <3>1, <3>2, WordsIsNatural
    <3> QED BY <2>9, <3>3, Zenon
  <2>12. v >= 32768 <=> Signed(v) < 0 BY <2>4, <2>11 DEF Signed, Msb
  <2>13. 65536 * (IF "RC" \in f THEN 1 ELSE 0) + v = n % 131072
    <3>1. a % 2 \in {0, 1} BY <2>8
    <3> QED BY <2>4, <2>5, <2>10, <3>1
  <2>14. n = d * 2^k BY <2>1, Zenon DEF n
  <2> QED BY <1>2, <2>5, <2>12, <2>13, <2>14 DEF ShiftedLeft
<1> QED BY <1>1, <1>2

\* RO after a left shift, and the flags that a shift by zero keeps.
LEMMA ShlOverflow ==
  ASSUME NEW d \in Word, NEW k \in 0 .. 15, NEW b, NEW f, f = Shl(d, k, b).flags
  PROVE  /\ k # 0 => ("RO" \in f <=> k = 1 /\ ~InSignedRange(2 * Signed(d)))
         /\ k = 0 => f = b
<1>1. CASE k = 0 BY <1>1 DEF Shl
<1>2. CASE k # 0
  <2>1. PICK w : w = (d * 2^k) % 65536 OBVIOUS
  <2>2. "RO" \in f <=> k = 1 /\ Msb(d) # Msb(w)
        BY <1>2, <2>1 DEF Shl, ZeroNegative, SetIf
  <2>3. k = 1 => w = (d * 2) % 65536 BY <2>1 DEF Word
  <2>4. k = 1 => (Msb(d) # Msb(w) <=> ~InSignedRange(2 * Signed(d)))
        BY <2>3 DEF Msb, Signed, InSignedRange, Word
  <2> QED BY <1>2, <2>2, <2>4
<1> QED BY <1>1, <1>2

\* What a right shift means.
LEMMA ShrMeans ==
  ASSUME NEW d \in Word, NEW k \in 0 .. 15, NEW b,
         NEW v, v = Shr(d, k, b).value, NEW f, f = Shr(d, k, b).flags
  PROVE  /\ v \in Word
         /\ k # 0 => ShiftedRight(d, k, v, f)
         /\ k = 0 => v = d /\ "RC" \notin f
<1>1. d \in Nat /\ d <= 65535 BY DEF Word
<1>2. "RC" \in f <=> k # 0 /\ (d \div 2^(k - 1)) % 2 = 1
      BY DEF Shr, ZeroNegative, SetIf
<1>3. CASE k = 0
  <2>1. v \in Word /\ v = d BY <1>1, <1>3 DEF Shr, Word
  <2> QED BY <1>2, <1>3, <2>1
<1>4. CASE k # 0
  <2>1. PICK p : p = 2^k OBVIOUS
  <2>2. PICK r : r = 2^(k - 1) OBVIOUS
  <2> DEFINE a == d \div r
  <2>3. v = d \div p BY <2>1 DEF Shr
  <2>4. "RC" \in f <=> a % 2 = 1 BY <1>2, <1>4, <2>2
  <2>5. r \in Nat /\ r # 0 /\ p = 2 * r
    <3>1. k \in 1 .. 15 BY <1>4
    <3>2. /\ 2^k \in Nat /\ 2^(16 - k) \in Nat /\ 2^(k - 1) \in Nat
          /\ 2^(16 - k) # 0 /\ 2^(k - 1) # 0
          /\ 2^k = 2 * 2^(k - 1) /\ 2^(16 - k) * 2^k = Words
          BY <3>1, Powers, Zenon
    <3> QED BY <3>2, <2>1, <2>2
  <2>6. a = 2 * (d \div (2 * r)) + (a % 2)
    <3>1. d \in Nat BY <1>1
    <3> QED BY <3>1, <2>5, RightShift, Zenon
  <2>7. a \in Nat /\ v \in Nat /\ v <= d BY <1>1, <2>3, <2>5
  <2>8. a = d \div 2^(k - 1) BY <2>2, Zenon
  <2> HIDE DEF a
  <2>9. 2 * v + (IF "RC" \in f THEN 1 ELSE 0) = a
    <3>1. a % 2 \in {0, 1} BY <2>7
    <3>2. v = d \div (2 * r) BY <2>3, <2>5
    <3> QED BY <2>4, <2>6, <3>1, <3>2
  <2>10. v \in Word BY <1>1, <2>7 DEF Word
  <2> QED BY <1>4, <2>8, <2>9, <2>10 DEF ShiftedRight
<1> QED BY <1>3, <1>4

\* The flags a right shift computes.
LEMMA ShrFlags ==
  ASSUME NEW d \in Word, NEW k \in 0 .. 15, NEW b,
         NEW v, v = Shr(d, k, b).value, NEW f, f = Shr(d, k, b).flags
  PROVE  /\ "RZ" \in f <=> v = 0
         /\ "RN" \in f <=> Signed(v) < 0
<1>1. /\ "RZ" \in f <=> v = 0
      /\ "RN" \in f <=> v >= 32768
      BY DEF Shr, ZeroNegative, SetIf, Msb
<1>2. v \in Word BY ShrMeans
<1>3. v >= 32768 <=> Signed(v) < 0 BY <1>2 DEF Signed, Msb, Word
<1> QED BY <1>1, <1>3

\* The flag a right shift leaves alone.
LEMMA ShrKeepsOverflow ==
  ASSUME NEW d, NEW k, NEW b
  PROVE  "RO" \in Shr(d, k, b).flags <=> "RO" \in b
BY DEF Shr, ZeroNegative, SetIf

-----------------------------------------------------------------------------
(***************************************************************************)
(* The bench.  What its runs reach is a pair of words that no operation    *)
(* changes, next to an outcome of the operation that was performed.        *)
(***************************************************************************)
Performed ==
  /\ dst \in Word /\ src \in Word
  /\ op \in Op \cup {"none"}
  /\ op \in Op => \E outcome \in Outcomes(op) :
                    value = outcome.value /\ after = outcome.flags

\* The invariant of the bench, from the two facts that make it inductive.
LEMMA PerformedInvariant == Spec => []Performed
<1>1. Init => Performed BY SampleAssumption DEF Init, Performed, Op
<1>2. Performed /\ [Next]_vars => Performed'
  <2> SUFFICES ASSUME Performed, [Next]_vars PROVE Performed'
      OBVIOUS
  <2>1. CASE UNCHANGED vars BY <2>1 DEF vars, Performed, Outcomes
  <2>2. CASE Next
    <3>1. PICK o \in Op :
            /\ op' = o
            /\ \E outcome \in Outcomes(o) :
                 value' = outcome.value /\ after' = outcome.flags
          BY <2>2 DEF Next
    <3>2. UNCHANGED <<dst, src, before>> BY <2>2 DEF Next
    <3>3. Outcomes(o)' = Outcomes(o) BY <3>2 DEF Outcomes
    <3> QED BY <3>1, <3>2, <3>3, Zenon DEF Performed
  <2> QED BY <2>1, <2>2 DEF Next
<1> QED BY <1>1, <1>2, PTL DEF Spec

\* What the invariant says, one operation at a time.
LEMMA AddPerformed ==
  ASSUME Performed, op = "ADD"
  PROVE  value = Add(dst, src).value /\ after = Add(dst, src).flags
BY Zenon DEF Performed, Op, Outcomes

LEMMA SubPerformed ==
  ASSUME Performed, op = "SUB"
  PROVE  value = Sub(dst, src).value /\ after = Sub(dst, src).flags
BY DEF Performed, Op, Outcomes

LEMMA MulPerformed ==
  ASSUME Performed, op = "MUL"
  PROVE  \E r \in MulOutcomes(dst, src) : value = r.value /\ after = r.flags
BY DEF Performed, Op, Outcomes

LEMMA DivPerformed ==
  ASSUME Performed, op = "DIV"
  PROVE  src # 0 /\ value = Div(dst, src, before).value /\ after = Div(dst, src, before).flags
BY DEF Performed, Op, Outcomes

LEMMA ModPerformed ==
  ASSUME Performed, op = "MOD"
  PROVE  src # 0 /\ value = Mod(dst, src, before).value /\ after = Mod(dst, src, before).flags
BY DEF Performed, Op, Outcomes

LEMMA ShlPerformed ==
  ASSUME Performed, op = "SHL"
  PROVE  /\ value = Shl(dst, src % 16, before).value
         /\ after = Shl(dst, src % 16, before).flags
BY DEF Performed, Op, Outcomes

LEMMA ShrPerformed ==
  ASSUME Performed, op = "SHR"
  PROVE  /\ value = Shr(dst, src % 16, before).value
         /\ after = Shr(dst, src % 16, before).flags
BY DEF Performed, Op, Outcomes

\* ADD, cpu_alu.c:4, for all pairs of words: no bit of the sum is lost, and
\* RO tells when the signed sum was.
THEOREM AluAddIsExact == Spec => []AddIsExact
<1>1. Performed => AddIsExact
  <2> SUFFICES ASSUME Performed, op = "ADD"
               PROVE  /\ value + (IF Has("RC") THEN 65536 ELSE 0) = dst + src
                      /\ Has("RO") <=> ~InSignedRange(Signed(dst) + Signed(src))
      BY DEF AddIsExact
  <2>1. dst \in Word /\ src \in Word BY DEF Performed
  <2>2. /\ value + (IF "RC" \in after THEN 65536 ELSE 0) = dst + src
        /\ "RO" \in after <=> ~InSignedRange(Signed(dst) + Signed(src))
        BY <2>1, AddPerformed, AddMeans
  <2> QED BY <2>2 DEF Has
<1> QED BY <1>1, PerformedInvariant, PTL

\* SUB and CMP, cpu_alu.c:35 and cpu_ctrlf.c:4, for all pairs of words: the
\* flags decide equality and both orders.
THEOREM AluSubCompares == Spec => []SubCompares
<1>1. Performed => SubCompares
  <2> SUFFICES ASSUME Performed, op = "SUB"
               PROVE  /\ Has("RZ") <=> dst = src
                      /\ Has("RC") <=> dst < src
                      /\ (Has("RN") # Has("RO")) <=> Signed(dst) < Signed(src)
      BY DEF SubCompares
  <2>1. dst \in Word /\ src \in Word BY DEF Performed
  <2>2. /\ "RZ" \in after <=> dst = src
        /\ "RC" \in after <=> dst < src
        /\ ("RN" \in after) # ("RO" \in after) <=> Signed(dst) < Signed(src)
        BY <2>1, SubPerformed, SubMeans
  <2> QED BY <2>2 DEF Has
<1> QED BY <1>1, PerformedInvariant, PTL

\* MUL, cpu_alu.c:67, for all pairs of words: the low half of the product, and
\* the two overflows up to INT_MAX.
THEOREM AluMulIsExact == Spec => []MulIsExact
<1>1. Performed => MulIsExact
  <2> SUFFICES ASSUME Performed, op = "MUL"
               PROVE  /\ value = (Signed(dst) * Signed(src)) % 65536
                      /\ Has("RO") <=> Has("RC")
                      /\ ~ProductExceeds(dst, src, INT_MAX) => (Has("RC") <=> dst * src > 65535)
      BY DEF MulIsExact
  <2>1. dst \in Word /\ src \in Word BY DEF Performed
  <2>2. PICK r \in MulOutcomes(dst, src) : value = r.value /\ after = r.flags
        BY MulPerformed
  <2>3. /\ value = (dst * src) % 65536
        /\ ~ProductExceeds(dst, src, INT_MAX) => ("RC" \in after <=> dst * src > 65535)
        /\ "RO" \in after <=> "RC" \in after
        BY <2>1, <2>2, MulMeans
  <2>4. (Signed(dst) * Signed(src)) % 65536 = (dst * src) % 65536 BY <2>1, SignedProduct
  <2>5. (Has("RC") <=> "RC" \in after) /\ (Has("RO") <=> "RO" \in after) BY Zenon DEF Has
  <2> QED BY <2>3, <2>4, <2>5, SMT
<1> QED BY <1>1, PerformedInvariant, PTL

\* DIV and MOD, cpu_alu.c:97 and 135, for all words and all divisors but zero.
THEOREM AluDivModIsExact == Spec => []DivModIsExact
<1>1. Performed => DivModIsExact
  <2> SUFFICES ASSUME Performed PROVE DivModIsExact OBVIOUS
  <2>1. dst \in Word /\ src \in Word BY DEF Performed
  <2>2. op = "DIV" => /\ dst - src * value \in 0 .. src - 1
                      /\ "RC" \in after <=> "RC" \in before
                      /\ "RO" \in after <=> "RO" \in before
        BY <2>1, DivPerformed, DivMeans
  <2>3. op = "MOD" => /\ value < src /\ (dst - value) % src = 0
                      /\ "RC" \in after <=> "RC" \in before
                      /\ "RO" \in after <=> "RO" \in before
        BY <2>1, ModPerformed, ModMeans
  <2> QED BY <2>2, <2>3 DEF DivModIsExact, Has
<1> QED BY <1>1, PerformedInvariant, PTL

\* SHL and SHR, cpu_alu.c:173 and 212, for all words and all sixteen shifts.
THEOREM AluShiftsAreExact == Spec => []ShiftsAreExact
<1>1. Performed => ShiftsAreExact
  <2> SUFFICES ASSUME Performed PROVE ShiftsAreExact OBVIOUS
  <2> DEFINE k == src % 16
  <2>1. dst \in Word /\ src \in Word BY DEF Performed
  <2>2. k \in 0 .. 15 BY <2>1 DEF Word
  <2>3. op = "SHL" => /\ value = Shl(dst, k, before).value
                      /\ after = Shl(dst, k, before).flags
        BY ShlPerformed
  <2>4. op = "SHR" => /\ value = Shr(dst, k, before).value
                      /\ after = Shr(dst, k, before).flags
        BY ShrPerformed
  <2> HIDE DEF k
  <2>5. op = "SHL" => /\ k # 0 => ShiftedLeft(dst, k, value, after)
                      /\ k = 0 => value = dst
        BY <2>1, <2>2, <2>3, ShlMeans
  <2>6. op = "SHR" => /\ k # 0 => ShiftedRight(dst, k, value, after)
                      /\ k = 0 => value = dst /\ "RC" \notin after
        BY <2>1, <2>2, <2>4, ShrMeans
  <2>7. op = "SHL" =>
          /\ k # 0 => ("RO" \in after <=> k = 1 /\ ~InSignedRange(2 * Signed(dst)))
          /\ k = 0 => after = before
        BY <2>1, <2>2, <2>3, ShlOverflow
  <2> QED BY <2>5, <2>6, <2>7 DEF ShiftsAreExact, ShiftedLeft, ShiftedRight, Has, k
<1> QED BY <1>1, PerformedInvariant, PTL

\* RZ and RN after every operation but a left shift by zero, and RO after a
\* right shift, for all words and all flags before.
THEOREM AluFlagsDescribeTheValue == Spec => []FlagsDescribeTheValue
<1>1. Performed => FlagsDescribeTheValue
  <2> SUFFICES ASSUME Performed PROVE FlagsDescribeTheValue OBVIOUS
  <2> DEFINE Described == /\ "RZ" \in after <=> value = 0
                          /\ "RN" \in after <=> Signed(value) < 0
  <2>1. dst \in Word /\ src \in Word BY DEF Performed
  <2>2. src % 16 \in 0 .. 15 BY <2>1 DEF Word
  <2>3. CASE op = "none" BY <2>3 DEF FlagsDescribeTheValue
  <2>4. CASE op = "ADD"
    <3>1. Described BY <2>1, <2>4, AddPerformed, AddMeans
    <3> QED BY <2>4, <3>1 DEF FlagsDescribeTheValue, Has
  <2>5. CASE op = "SUB"
    <3>1. Described BY <2>1, <2>5, SubPerformed, SubMeans
    <3> QED BY <2>5, <3>1 DEF FlagsDescribeTheValue, Has
  <2>6. CASE op = "MUL"
    <3>1. PICK r \in MulOutcomes(dst, src) : value = r.value /\ after = r.flags
          BY <2>6, MulPerformed
    <3>2. Described BY <2>1, <3>1, MulMeans
    <3> QED BY <2>6, <3>2 DEF FlagsDescribeTheValue, Has
  <2>7. CASE op = "DIV"
    <3>1. Described BY <2>1, <2>7, DivPerformed, DivMeans
    <3> QED BY <2>7, <3>1 DEF FlagsDescribeTheValue, Has
  <2>8. CASE op = "MOD"
    <3>1. Described BY <2>1, <2>8, ModPerformed, ModMeans
    <3> QED BY <2>8, <3>1 DEF FlagsDescribeTheValue, Has
  <2>9. CASE op = "SHL"
    <3>1. PICK k \in 0 .. 15 : k = src % 16 BY <2>2
    <3>2. value = Shl(dst, k, before).value /\ after = Shl(dst, k, before).flags
          BY <2>9, <3>1, ShlPerformed, Zenon
    <3>3. k # 0 => Described BY <2>1, <3>2, ShlMeans
    <3> QED BY <2>9, <3>1, <3>3 DEF FlagsDescribeTheValue, Has
  <2>10. CASE op = "SHR"
    <3>1. PICK k \in 0 .. 15 : k = src % 16 BY <2>2
    <3>2. PICK v : v = Shr(dst, k, before).value OBVIOUS
    <3>3. PICK f : f = Shr(dst, k, before).flags OBVIOUS
    <3>4. value = v /\ after = f BY <2>10, <3>1, <3>2, <3>3, ShrPerformed, Zenon
    <3>5. "RO" \in f <=> "RO" \in before BY <3>3, ShrKeepsOverflow
    <3>6. /\ "RZ" \in f <=> v = 0
          /\ "RN" \in f <=> Signed(v) < 0
          BY <2>1, <3>2, <3>3, ShrFlags
    <3> QED BY <2>10, <3>4, <3>5, <3>6 DEF FlagsDescribeTheValue, Has
  <2> QED BY <2>3, <2>4, <2>5, <2>6, <2>7, <2>8, <2>9, <2>10 DEF Performed, Op
<1> QED BY <1>1, PerformedInvariant, PTL

=============================================================================
