------------------------------ MODULE FpProofs ------------------------------
(***************************************************************************)
(* The encoding of arithmetic against IEEE 754, for encodings of any       *)
(* width and any place of 1.0 in it.                                       *)
(***************************************************************************)
EXTENDS FpProps, Numbers

-----------------------------------------------------------------------------
(***************************************************************************)
(* Magnitudes and the numbers they stand for.                              *)
(***************************************************************************)

\* The magnitudes of special numbers, in order.
LEMMA Magnitudes ==
  /\ NanMag(E) \in Nat /\ Mags(E) = 0..NanMag(E)
  /\ InfMag(E) = NanMag(E) - 1 /\ MaxMag(E) = NanMag(E) - 2
  /\ One \in Nat /\ 1 <= One /\ One < MaxMag(E)
<1>1. ValueBits(E) = Bits
  BY ArithOK DEF ValueBits, E, Plain
<1>2. PICK p \in Nat : p = 2^Bits /\ p >= 1
  BY ArithOK, PowerPositive
<1>3. NanMag(E) = p - 1 /\ InfMag(E) = p - 2 /\ MaxMag(E) = p - 2 - 1 /\ Mags(E) = 0..(p - 1)
  BY <1>1, <1>2 DEF NanMag, InfMag, MaxMag, Mags
<1>4. One \in 1..(p - 2 - 1 - 1)
  BY <1>3, ArithOK
<1> QED
  BY <1>2, <1>3, <1>4

LEMMA CodeParts ==
  ASSUME NEW f \in Codes(E)
  PROVE  /\ f.sign \in {0, 1} /\ f.mag \in Nat /\ f.mag <= NanMag(E)
         /\ f = Fp(f.sign, f.mag)
BY Magnitudes DEF Codes, Fp

LEMMA IsCode ==
  ASSUME NEW s \in {0, 1}, NEW m \in Nat, m <= NanMag(E)
  PROVE  Fp(s, m) \in Codes(E)
BY Magnitudes DEF Codes, Fp

\* One step of the magnitude doubles the number.
LEMMA SizeSteps ==
  ASSUME NEW m \in Nat
  PROVE  /\ Size(m) \in Nat /\ Size(m + 1) = 2^m
         /\ Size(m) < Size(m + 1)
<1>1. Size(m + 1) = 2^m
  <2>1. m + 1 # 0 /\ (m + 1) - 1 = m
    OBVIOUS
  <2> QED
    BY <2>1 DEF Size
<1>2. 2^m \in Nat /\ 2^m >= 1
  BY PowerPositive
<1>3. CASE m = 0
  BY <1>1, <1>2, <1>3 DEF Size
<1>4. CASE m # 0
  <2>1. PICK k \in Nat : k = m - 1
    BY <1>4
  <2>2. k + 1 = m /\ Size(m) = 2^k
    BY <1>4, <2>1 DEF Size
  <2>3. PICK p \in Nat : p = 2^k /\ p >= 1
    BY PowerPositive
  <2>4. 2^m = 2 * p
    BY <2>2, <2>3, PowerDoubles
  <2> QED
    BY <1>1, <2>2, <2>3, <2>4
<1> QED
  BY <1>3, <1>4

\* The order of magnitudes is the order of numbers.
LEMMA SizeGrows ==
  ASSUME NEW m \in Nat, NEW n \in Nat, m < n
  PROVE  Size(m) < Size(n)
<1> DEFINE S == {k \in Nat : Size(m) < Size(m + k + 1)}
<1>1. 0 \in S
  BY SizeSteps
<1>2. ASSUME NEW k \in S PROVE k + 1 \in S
  <2>1. PICK j \in Nat : j = m + k + 1
    BY <1>2
  <2>2. Size(j) \in Nat /\ Size(j + 1) \in Nat /\ Size(j) < Size(j + 1)
    BY SizeSteps
  <2>3. Size(m) < Size(j) /\ Size(m) \in Nat
    BY <1>2, <2>1, SizeSteps
  <2>4. Size(m) < Size(j + 1)
    BY <2>2, <2>3
  <2>5. j + 1 = m + (k + 1) + 1
    BY <1>2, <2>1
  <2> QED
    BY <1>2, <2>4, <2>5
<1>3. n - m - 1 \in Nat /\ m + (n - m - 1) + 1 = n
  OBVIOUS
<1> HIDE DEF S
<1>4. S = Nat
  <2>1. S \subseteq Nat
    BY DEF S
  <2> QED
    BY <1>1, <1>2, <2>1, Induction
<1>5. n - m - 1 \in S
  BY <1>3, <1>4
<1> QED
  BY <1>3, <1>5 DEF S

LEMMA SizeOrder ==
  ASSUME NEW m \in Nat, NEW n \in Nat
  PROVE  /\ Size(m) \in Nat /\ Size(n) \in Nat
         /\ Size(m) < Size(n) <=> m < n
         /\ Size(m) = Size(n) <=> m = n
         /\ Size(0) = 0
<1>1. Size(m) \in Nat /\ Size(n) \in Nat
  BY SizeSteps
<1>2. Size(0) = 0
  BY DEF Size
<1>3. CASE m < n
  BY <1>1, <1>2, <1>3, SizeGrows
<1>4. CASE n < m
  <2>1. Size(n) < Size(m)
    BY <1>4, SizeGrows
  <2> QED
    BY <1>1, <1>2, <1>4, <2>1
<1>5. CASE m = n
  BY <1>1, <1>2, <1>5
<1> QED
  BY <1>3, <1>4, <1>5

LEMMA NumberParts ==
  ASSUME NEW f \in Codes(E)
  PROVE  /\ Size(f.mag) \in Nat /\ Number(f) \in Int
         /\ f.sign = 0 => Number(f) = Size(f.mag)
         /\ f.sign = 1 => Number(f) = -Size(f.mag)
         /\ Size(f.mag) = 0 <=> f.mag = 0
<1>1. f.sign \in {0, 1} /\ f.mag \in Nat
  BY CodeParts
<1>2. Size(f.mag) \in Nat /\ (Size(f.mag) = 0 <=> f.mag = 0)
  BY <1>1, SizeOrder
<1> QED
  BY <1>1, <1>2 DEF Number

\* Comparison of codes is comparison of numbers, but for the two zeros.
LEMMA OrderIsNumbers ==
  ASSUME NEW f \in Codes(E), NEW g \in Codes(E), ~(IsZero(f) /\ IsZero(g) /\ f # g)
  PROVE  /\ CmpEq(f, g) <=> Number(f) = Number(g)
         /\ CmpLt(f, g) <=> Number(f) < Number(g)
<1>1. PICK s \in {0, 1}, m \in Nat : s = f.sign /\ m = f.mag
  BY CodeParts
<1>2. PICK t \in {0, 1}, n \in Nat : t = g.sign /\ n = g.mag
  BY CodeParts
<1>3. f = g <=> s = t /\ m = n
  BY <1>1, <1>2, CodeParts DEF Fp
<1>4. PICK a \in Nat, b \in Nat : a = Size(m) /\ b = Size(n)
  BY SizeSteps
<1>5. (a < b <=> m < n) /\ (a = b <=> m = n) /\ (a = 0 <=> m = 0) /\ (b = 0 <=> n = 0)
  BY <1>4, SizeOrder
<1>6. Number(f) = (IF s = 0 THEN a ELSE -a) /\ Number(g) = (IF t = 0 THEN b ELSE -b)
  BY <1>1, <1>2, <1>4 DEF Number
<1>7. CmpEq(f, g) <=> (s = t /\ m = n) \/ (m = 0 /\ n = 0)
  BY <1>1, <1>2, <1>3 DEF CmpEq, IsZero
<1>8. CmpLt(f, g) <=> IF s # t THEN s > t ELSE m # n /\ (m < n <=> s = 0)
  BY <1>1, <1>2 DEF CmpLt
<1>9. ~(m = 0 /\ n = 0 /\ ~(s = t /\ m = n))
  BY <1>1, <1>2, <1>3 DEF IsZero
<1>10. CASE s = t
  BY <1>5, <1>6, <1>7, <1>8, <1>10
<1>11. CASE s # t
  BY <1>5, <1>6, <1>7, <1>8, <1>9, <1>11
<1> QED
  BY <1>10, <1>11

-----------------------------------------------------------------------------
(***************************************************************************)
(* The operands never change: what holds of all of them holds throughout.  *)
(***************************************************************************)
Operands == x \in Codes(E) /\ y \in Codes(E)

LEMMA OperandsStay == Spec => []Operands
<1>1. Init => Operands
  BY DEF Init, Operands
<1>2. Operands /\ [Next]_vars => Operands'
  BY DEF Operands, Next, vars, EncodeAdd, EncodeMul, EncodeDiv
<1> QED
  BY <1>1, <1>2, PTL DEF Spec

LEMMA ComparesNumbers ==
  ASSUME Operands
  PROVE  CmpIsIEEE
<1> SUFFICES ASSUME ~(IsZero(x) /\ IsZero(y) /\ x # y), NEW pred \in Predicate
             PROVE  Cmp(E, pred, x, y) = RealCmp(pred)
  BY DEF CmpIsIEEE
<1>1. PICK a \in Int, b \in Int : a = Number(x) /\ b = Number(y)
  BY NumberParts DEF Operands
<1>2. CmpEq(x, y) = (a = b)
  BY <1>1, OrderIsNumbers DEF Operands, CmpEq
<1>3. CmpLt(x, y) = (a < b) /\ CmpLt(y, x) = (b < a)
  <2>1. CmpLt(x, y) \in BOOLEAN /\ CmpLt(y, x) \in BOOLEAN
    <3>1. x.sign \in Int /\ y.sign \in Int
      BY CodeParts DEF Operands
    <3>2. (x.sign > y.sign) \in BOOLEAN /\ (y.sign > x.sign) \in BOOLEAN
      BY <3>1
    <3> QED
      BY <3>2 DEF CmpLt
  <2>2. CmpLt(x, y) <=> a < b
    BY <1>1, OrderIsNumbers DEF Operands
  <2>3. CmpLt(y, x) <=> b < a
    BY <1>1, OrderIsNumbers DEF Operands
  <2> QED
    BY <2>1, <2>2, <2>3
<1>4. CASE IsNan(E, x) \/ IsNan(E, y)
  BY <1>4 DEF Cmp, RealCmp
<1>5. CASE ~(IsNan(E, x) \/ IsNan(E, y))
  <2> USE <1>1, <1>2, <1>3, <1>5 DEF Cmp, RealCmp
  <2>1. CASE pred \in {"oeq", "ueq"}
    BY <2>1
  <2>2. CASE pred \in {"one", "une"}
    BY <2>2
  <2>3. CASE pred \in {"ole", "ule"}
    BY <2>3
  <2>4. CASE pred \in {"olt", "ult"}
    BY <2>4
  <2>5. CASE pred \in {"oge", "uge"}
    BY <2>5
  <2>6. CASE pred \in {"ogt", "ugt"}
    BY <2>6
  <2>7. CASE pred \in {"ord", "uno"}
    BY <2>7
  <2> QED
    BY <2>1, <2>2, <2>3, <2>4, <2>5, <2>6, <2>7 DEF Predicate
<1> QED
  BY <1>4, <1>5

\* Comparisons of codes (cmp) are the comparisons of IEEE 754 of the numbers
\* they stand for, whatever the width of the encoding: NaN is unordered, and
\* only two zeros of different signs are ordered though IEEE makes them equal.
THEOREM ComparisonsAreIEEE == Spec => []CmpIsIEEE
<1>1. Operands => CmpIsIEEE
  BY ComparesNumbers
<1> QED
  BY <1>1, OperandsStay, PTL

-----------------------------------------------------------------------------
(***************************************************************************)
(* The bitwise and that makes applications of a function commute.          *)
(***************************************************************************)
LEMMA BitRange ==
  ASSUME NEW m \in Nat, NEW i \in Nat
  PROVE  Bit(m, i) \in {0, 1}
<1>1. PICK d \in Nat \ {0} : d = 2^i
  BY PowerPositive
<1>2. PICK q \in Nat : q = m \div d
  BY <1>1, DivMod
<1>3. q % 2 \in {0, 1}
  BY <1>2
<1> QED
  BY <1>1, <1>2, <1>3 DEF Bit

\* The number that the low bits make grows by the next bit.
LEMMA LowBits ==
  ASSUME NEW m \in Nat, NEW i \in Nat
  PROVE  m % 2^(i + 1) = 2^i * Bit(m, i) + (m % 2^i)
<1>1. PICK d \in Nat \ {0} : d = 2^i
  BY PowerPositive
<1>2. PICK q \in Nat, r \in 0..(d - 1) : q = m \div d /\ r = m % d /\ m = q * d + r
  BY <1>1, DivMod
<1>3. PICK h \in Nat, b \in {0, 1} : b = q % 2 /\ q = 2 * h + b
  <2>1. q % 2 \in {0, 1} /\ q \div 2 \in Nat /\ q = 2 * (q \div 2) + (q % 2)
    BY <1>2
  <2> QED
    BY <2>1
<1>4. PICK c \in Nat \ {0} : c = 2 * d
  BY <1>1
<1>5. PICK l \in 0..(c - 1) : l = d * b + r
  <2>1. CASE b = 0
    BY <2>1, <1>2, <1>4
  <2>2. CASE b = 1
    BY <2>2, <1>2, <1>4
  <2> QED
    BY <2>1, <2>2, <1>3
<1>6. m = h * c + l
  <2>1. q * d = 2 * (h * d) + d * b
    BY <1>3
  <2>2. h * c = 2 * (h * d)
    BY <1>4
  <2> QED
    BY <1>2, <1>5, <2>1, <2>2
<1>7. m % c = l
  BY <1>4, <1>5, <1>6, Unique
<1>8. 2^(i + 1) = c
  BY <1>1, <1>4, PowerDoubles
<1> QED
  BY <1>1, <1>2, <1>3, <1>5, <1>7, <1>8 DEF Bit

\* Numbers are the same when their bits are.
LEMMA SameBits ==
  ASSUME NEW n \in Nat, NEW a \in 0..(2^n - 1), NEW b \in 0..(2^n - 1),
         \A i \in 0..(n - 1) : Bit(a, i) = Bit(b, i)
  PROVE  a = b
<1> DEFINE S == {k \in Nat : k <= n => a % 2^k = b % 2^k}
<1>1. 2^n \in Nat /\ a \in Nat /\ b \in Nat
  BY PowerPositive
<1>2. 0 \in S
  <2>1. a % 1 = 0 /\ b % 1 = 0
    BY <1>1
  <2> QED
    BY <2>1, PowerZero
<1>3. ASSUME NEW k \in S PROVE k + 1 \in S
  <2>1. SUFFICES ASSUME k + 1 <= n PROVE a % 2^(k + 1) = b % 2^(k + 1)
    BY <1>3
  <2>2. k \in 0..(n - 1) /\ k \in Nat
    BY <1>3, <2>1
  <2>3. a % 2^k = b % 2^k
    BY <1>3, <2>2
  <2>4. Bit(a, k) = Bit(b, k)
    BY <2>2
  <2> QED
    BY <1>1, <2>2, <2>3, <2>4, LowBits
<1> HIDE DEF S
<1>4. n \in S
  <2>1. S \subseteq Nat
    BY DEF S
  <2>2. S = Nat
    BY <1>2, <1>3, <2>1, Induction
  <2> QED
    BY <2>2
<1>5. a % 2^n = b % 2^n
  BY <1>4 DEF S
<1>6. PICK d \in Nat \ {0} : d = 2^n
  BY PowerPositive
<1>7. a % d = a /\ b % d = b
  BY <1>6
<1> QED
  BY <1>5, <1>6, <1>7

LEMMA SymmetricCommutes ==
  ASSUME NEW a \in Nat, NEW b \in Nat
  PROVE  Symmetric(E, a, b) = Symmetric(E, b, a)
<1>1. PICK n : n = ValueBits(E)
  OBVIOUS
<1>2. n \in Nat
  BY <1>1, ArithOK DEF ValueBits, E, Plain
<1>3. ASSUME NEW i \in 0..(n - 1) PROVE Bit(a, i) * Bit(b, i) = Bit(b, i) * Bit(a, i)
  <2>1. Bit(a, i) \in {0, 1} /\ Bit(b, i) \in {0, 1}
    BY <1>2, BitRange
  <2> QED
    BY <2>1
<1>4. Ands(E, a, b) = Ands(E, b, a)
  BY <1>1, <1>3 DEF Ands
<1> QED
  BY <1>4 DEF Symmetric

LEMMA SymmetricSame ==
  ASSUME NEW a \in Mags(E)
  PROVE  Symmetric(E, a, a) = a
<1>1. PICK n : n = ValueBits(E)
  OBVIOUS
<1>2. n \in Nat /\ Mags(E) = 0..(2^n - 1)
  BY <1>1, ArithOK DEF ValueBits, E, Plain, Mags
<1>3. Mags(E) \subseteq Nat
  BY Magnitudes
<1>4. ASSUME NEW i \in 0..(n - 1) PROVE Bit(a, i) = Bit(a, i) * Bit(a, i)
  <2>1. Bit(a, i) \in {0, 1}
    BY <1>2, <1>3, BitRange
  <2> QED
    BY <2>1
<1>5. a \in Ands(E, a, a)
  BY <1>1, <1>4 DEF Ands
<1>6. ASSUME NEW m \in Ands(E, a, a) PROVE m = a
  <2>1. m \in 0..(2^n - 1) /\ a \in 0..(2^n - 1)
    BY <1>2, <1>6 DEF Ands
  <2>2. \A i \in 0..(n - 1) : Bit(m, i) = Bit(a, i)
    BY <1>1, <1>4, <1>6 DEF Ands
  <2> QED
    BY <1>2, <2>1, <2>2, SameBits
<1> QED
  BY <1>5, <1>6 DEF Symmetric

-----------------------------------------------------------------------------
(***************************************************************************)
(* Sums and products commute.                                              *)
(***************************************************************************)
LEMMA CanonicalCode ==
  ASSUME NEW f \in Codes(E)
  PROVE  /\ Canonical(E, f) \in Codes(E)
         /\ IsNan(E, f) => Canonical(E, f) = Nan(E)
         /\ ~IsNan(E, f) => Canonical(E, f) = f
         /\ IsNan(E, Canonical(E, f)) <=> IsNan(E, f)
<1>1. NanMag(E) \in Nat /\ Nan(E) = Fp(0, NanMag(E))
  BY Magnitudes DEF Nan
<1>2. Nan(E) \in Codes(E) /\ IsNan(E, Nan(E))
  BY <1>1, IsCode DEF IsNan, Fp
<1> QED
  BY <1>2 DEF Canonical

LEMMA AddCommutes ==
  ASSUME NEW f \in Codes(E), NEW g \in Codes(E), NEW k \in Codes(E), NEW l \in Codes(E)
  PROVE  Add(E, f, g, k, l) = Add(E, g, f, l, k)
<1>1. PICK a \in Codes(E) : a = Canonical(E, f) /\ (IsNan(E, a) => a = Nan(E))
  BY CanonicalCode
<1>2. PICK b \in Codes(E) : b = Canonical(E, g) /\ (IsNan(E, b) => b = Nan(E))
  BY CanonicalCode
<1>3. Symmetric(E, k.mag, l.mag) = Symmetric(E, l.mag, k.mag)
  BY SymmetricCommutes, CodeParts
<1>4. PICK v : v = NotNan(E, Symmetric(E, k.mag, l.mag), 0)
  OBVIOUS
<1>5. a.mag \in Nat /\ b.mag \in Nat /\ a.sign \in {0, 1} /\ b.sign \in {0, 1}
  BY CodeParts
<1>6. a.sign = b.sign /\ a.mag = b.mag => a = b
  BY CodeParts
<1>7. a.sign # b.sign /\ a.mag # b.mag => SumSign(a, b) = SumSign(b, a)
  BY <1>5 DEF SumSign
<1>8. a.sign = b.sign => SumSign(a, b) = SumSign(b, a)
  BY DEF SumSign
<1> QED
  BY <1>1, <1>2, <1>3, <1>4, <1>5, <1>6, <1>7, <1>8 DEF Add, IsInf

LEMMA MulCommutes ==
  ASSUME NEW f \in Codes(E), NEW g \in Codes(E), NEW k \in Nat, NEW l \in Nat
  PROVE  Mul(E, One, f, g, k, l) = Mul(E, One, g, f, l, k)
<1>1. PICK a \in Codes(E) : a = Canonical(E, f) /\ (IsNan(E, a) => a = Nan(E))
  BY CanonicalCode
<1>2. PICK b \in Codes(E) : b = Canonical(E, g) /\ (IsNan(E, b) => b = Nan(E))
  BY CanonicalCode
<1>3. Symmetric(E, k, l) = Symmetric(E, l, k)
  BY SymmetricCommutes
<1>4. PICK v : v = NotNan(E, Symmetric(E, k, l), One)
  OBVIOUS
<1>5. InfMag(E) # 0 /\ One # NanMag(E) /\ Nan(E).mag = NanMag(E)
  BY Magnitudes DEF Nan, Fp
<1>6. a.mag = One /\ b.mag = One => Signed(E, a, b, b) = Signed(E, b, a, a)
  BY <1>5 DEF Signed
<1>7. a.mag = InfMag(E) /\ b.mag = InfMag(E) => InfTimes(E, a) = InfTimes(E, b)
  BY <1>5 DEF InfTimes, IsZero
<1>8. ASSUME NEW r PROVE Signed(E, a, b, r) = Signed(E, b, a, r)
  BY DEF Signed
<1> QED
  BY <1>1, <1>2, <1>3, <1>4, <1>6, <1>7, <1>8 DEF Mul, IsInf

LEMMA MeaningParts ==
  ASSUME NEW m \in Meaning
  PROVE  /\ m[1] \in Codes(E) /\ m[2] \in Codes(E) /\ (x = y => m[1] = m[2])
         /\ m[1].mag \in Nat /\ m[2].mag \in Nat
         /\ Value("add", m) = Add(E, x, y, m[1], m[2])
         /\ Value("mul", m) = Mul(E, One, x, y, m[1].mag, m[2].mag)
         /\ Value("div", m) = Div(E, One, x, y, m[1].mag)
<1>1. m[1] \in Codes(E) /\ m[2] \in Codes(E) /\ (x = y => m[1] = m[2])
  BY DEF Meaning
<1>2. m[1].mag \in Nat /\ m[2].mag \in Nat
  BY <1>1, CodeParts
<1> QED
  BY <1>1, <1>2 DEF Value

\* Whatever the uninterpreted functions mean and however wide the encoding is,
\* sums and products do not depend on the order of their operands (add, mul).
THEOREM ArithmeticCommutes == Spec => []Commutes
<1>1. ASSUME Operands PROVE Commutes
  <2> SUFFICES ASSUME NEW m \in Meaning
               PROVE  /\ Value("add", m) = Add(E, y, x, m[2], m[1])
                      /\ Value("mul", m) = Mul(E, One, y, x, m[2].mag, m[1].mag)
    BY DEF Commutes
  <2>1. x \in Codes(E) /\ y \in Codes(E)
    BY <1>1 DEF Operands
  <2>2. Add(E, x, y, m[1], m[2]) = Add(E, y, x, m[2], m[1])
    BY <2>1, MeaningParts, AddCommutes
  <2>3. Mul(E, One, x, y, m[1].mag, m[2].mag) = Mul(E, One, y, x, m[2].mag, m[1].mag)
    BY <2>1, MeaningParts, MulCommutes
  <2> QED
    BY <2>2, <2>3, MeaningParts
<1> QED
  BY <1>1, OperandsStay, PTL

-----------------------------------------------------------------------------
(***************************************************************************)
(* Results of IEEE 754 on the numbers of the encoding.                     *)
(***************************************************************************)
LEMMA RoundedFits ==
  ASSUME NEW s \in Nat
  PROVE  \/ s >= Size(InfMag(E)) /\ Rounded(s) = InfMag(E)
         \/ /\ s < Size(InfMag(E))
            /\ Rounded(s) \in 0..MaxMag(E)
            /\ Size(Rounded(s)) <= s /\ s < Size(Rounded(s) + 1)
<1> DEFINE T == {m \in Nat : s < Size(m + 1)}
<1>1. MaxMag(E) \in Nat /\ MaxMag(E) + 1 = InfMag(E)
  BY Magnitudes
<1>2. Size(InfMag(E)) = 2^MaxMag(E) /\ Size(InfMag(E)) \in Nat
  <2>1. PICK k \in Nat : k = MaxMag(E) /\ k + 1 = InfMag(E)
    BY <1>1
  <2>2. Size(k + 1) = 2^k /\ Size(k + 1) \in Nat
    BY SizeSteps, PowerPositive
  <2> QED
    BY <2>1, <2>2
<1>3. CASE s >= Size(InfMag(E))
  BY <1>2, <1>3 DEF Rounded
<1>4. CASE s < Size(InfMag(E))
  <2>1. T \subseteq Nat /\ MaxMag(E) \in T
    BY <1>1, <1>4
  <2>2. PICK n \in T : \A m \in T : n <= m
    BY <2>1, Least
  <2>3. n \in 0..MaxMag(E) /\ s < Size(n + 1)
    BY <1>1, <2>1, <2>2
  <2>4. Size(n) <= s
    <3>1. CASE n = 0
      BY <3>1, SizeOrder
    <3>2. CASE n # 0
      <4>1. PICK j \in Nat : j = n - 1
        BY <2>1, <3>2
      <4>2. j + 1 = n /\ ~(n <= j)
        BY <2>1, <4>1
      <4>3. j \notin T
        BY <2>2, <4>2
      <4>4. Size(n) \in Nat
        BY <2>1, <2>2, SizeSteps
      <4> QED
        BY <4>2, <4>3, <4>4
    <3> QED
      BY <3>1, <3>2
  <2>5. ~(s >= 2^MaxMag(E))
    BY <1>2, <1>4
  <2>6. Rounded(s) = CHOOSE m \in 0..MaxMag(E) : Size(m) <= s /\ s < Size(m + 1)
    BY <2>5 DEF Rounded
  <2> QED
    BY <1>4, <2>3, <2>4, <2>6
<1> QED
  BY <1>2, <1>3, <1>4

\* Rounding yields no NaN, yields zero of nothing else, and keeps numbers of
\* the encoding.
LEMMA RoundedMag ==
  ASSUME NEW s \in Nat
  PROVE  /\ Rounded(s) \in 0..InfMag(E)
         /\ Rounded(s) = 0 <=> s = 0
         /\ \A m \in 0..MaxMag(E) : s = Size(m) => Rounded(s) = m
<1>1. InfMag(E) \in Nat \ {0} /\ MaxMag(E) = InfMag(E) - 1
  BY Magnitudes
<1>2. Size(InfMag(E)) \in Nat \ {0}
  BY <1>1, SizeOrder
<1>3. CASE s >= Size(InfMag(E))
  <2>1. Rounded(s) = InfMag(E)
    BY <1>2, <1>3, RoundedFits
  <2>2. ASSUME NEW m \in 0..MaxMag(E) PROVE s # Size(m)
    BY <1>1, <1>3, <2>2, SizeOrder
  <2> QED
    BY <1>1, <1>2, <1>3, <2>1, <2>2, SizeOrder
<1>4. CASE s < Size(InfMag(E))
  <2>1. PICK r \in 0..MaxMag(E) : r = Rounded(s) /\ Size(r) <= s /\ s < Size(r + 1)
    BY <1>2, <1>4, RoundedFits
  <2>2. r \in Nat /\ Size(r) \in Nat /\ (Size(r) = 0 <=> r = 0)
    BY <1>1, <2>1, SizeOrder
  <2>3. ASSUME NEW m \in 0..MaxMag(E), s = Size(m) PROVE r = m
    <3>1. m \in Nat /\ Size(m) \in Nat /\ r + 1 \in Nat /\ Size(r + 1) \in Nat
      BY <1>1, <2>2, SizeOrder
    <3>2. m < r + 1
      BY <2>1, <2>3, <3>1, SizeOrder
    <3>3. ~(m < r)
      BY <2>1, <2>2, <2>3, <3>1, SizeOrder
    <3> QED
      BY <2>2, <3>1, <3>2, <3>3
  <2>4. 0 \in 0..MaxMag(E) /\ Size(0) = 0
    BY <1>1, <2>1, SizeOrder
  <2>5. r = 0 => s = 0
    <3>1. 2^0 = 1 /\ Size(0 + 1) = 2^0
      BY PowerZero, SizeSteps
    <3> QED
      BY <2>1, <3>1
  <2>6. s = 0 => r = 0
    BY <2>3, <2>4
  <2> QED
    BY <1>1, <2>1, <2>3, <2>5, <2>6
<1> QED
  BY <1>2, <1>3, <1>4

\* Sums that are rounded: neither an operand nor zero is the result.
Inexact ==
  /\ ~IsNan(E, x) /\ ~IsNan(E, y) /\ ~IsInf(E, x) /\ ~IsInf(E, y)
  /\ x # Zero(1) /\ y # Zero(1) /\ ~(x.mag = y.mag /\ x.sign # y.sign)

LEMMA AddCases ==
  ASSUME Operands, NEW k \in Codes(E), NEW l \in Codes(E),
         NEW v, v = Add(E, x, y, k, l)
  PROVE  /\ Invalid("add") => v = Nan(E)
         /\ ~Invalid("add") =>
              /\ IsInf(E, x) \/ y = Zero(1) => v = x
              /\ IsInf(E, y) \/ x = Zero(1) => v = y
              /\ x.mag = y.mag /\ x.sign # y.sign => v = Zero(0)
         /\ Inexact => v = Fp(SumSign(x, y), NotNan(E, Symmetric(E, k.mag, l.mag), 0))
<1>1. x \in Codes(E) /\ y \in Codes(E)
  BY DEF Operands
<1>2. PICK a : a = Canonical(E, x) /\ (IsNan(E, x) => a = Nan(E)) /\ (~IsNan(E, x) => a = x)
               /\ (IsNan(E, a) <=> IsNan(E, x))
  BY <1>1, CanonicalCode
<1>3. PICK b : b = Canonical(E, y) /\ (IsNan(E, y) => b = Nan(E)) /\ (~IsNan(E, y) => b = y)
               /\ (IsNan(E, b) <=> IsNan(E, y))
  BY <1>1, CanonicalCode
<1>4. PICK n : n = NotNan(E, Symmetric(E, k.mag, l.mag), 0)
  OBVIOUS
<1>5. v = IF a = Zero(1) THEN b
          ELSE IF b = Zero(1) \/ IsNan(E, a) THEN a
          ELSE IF IsNan(E, b) THEN b
          ELSE IF IsInf(E, a) /\ IsInf(E, b) /\ a.sign # b.sign THEN Nan(E)
          ELSE IF IsInf(E, a) THEN a
          ELSE IF IsInf(E, b) THEN b
          ELSE IF a.sign # b.sign /\ a.mag = b.mag THEN Zero(0)
          ELSE Fp(SumSign(a, b), n)
  BY <1>2, <1>3, <1>4 DEF Add
<1>6. Zero(1).mag = 0 /\ Zero(1).sign = 1 /\ Zero(0).mag = 0 /\ Zero(0).sign = 0
  BY DEF Zero, Fp
<1>7. 0 # NanMag(E) /\ 0 # InfMag(E) /\ InfMag(E) # NanMag(E)
  BY Magnitudes
<1>8. Nan(E).mag = NanMag(E)
  BY DEF Nan, Fp
<1>9. /\ x.sign = y.sign /\ x.mag = y.mag => x = y
      /\ x.sign \in {0, 1} /\ y.sign \in {0, 1}
      /\ x = Fp(x.sign, x.mag) /\ y = Fp(y.sign, y.mag)
  BY <1>1, CodeParts
<1>10. CASE IsNan(E, x) \/ IsNan(E, y)
  BY <1>2, <1>3, <1>5, <1>6, <1>7, <1>8, <1>10 DEF Invalid, IsNan, IsInf, IsZero, Inexact
<1>11. CASE ~(IsNan(E, x) \/ IsNan(E, y))
  <2>1. a = x /\ b = y
    BY <1>2, <1>3, <1>11
  <2>2. Invalid("add") <=> IsInf(E, x) /\ IsInf(E, y) /\ x.sign # y.sign
    BY <1>11 DEF Invalid
  <2>3. Invalid("add") => v = Nan(E)
    BY <1>5, <1>6, <1>7, <1>11, <2>1, <2>2 DEF IsInf
  <2>4. Inexact => v = Fp(SumSign(x, y), n)
    BY <1>5, <1>11, <2>1 DEF Inexact
  <2>5. ASSUME ~Invalid("add"), IsInf(E, x) PROVE v = x
    BY <1>5, <1>6, <1>7, <1>9, <1>11, <2>1, <2>2, <2>5 DEF IsInf
  <2>6. ASSUME ~Invalid("add"), IsInf(E, y) PROVE v = y
    BY <1>5, <1>6, <1>7, <1>9, <1>11, <2>1, <2>2, <2>6 DEF IsInf
  <2>7. x = Zero(1) => v = y
    BY <1>5, <2>1
  <2>8. y = Zero(1) => v = x
    BY <1>5, <2>1
  <2>9. ASSUME ~Invalid("add"), x.mag = y.mag, x.sign # y.sign PROVE v = Zero(0)
    <3>1. ~IsInf(E, x) /\ ~IsInf(E, y)
      BY <2>2, <2>9 DEF IsInf
    <3>2. CASE x = Zero(1)
      BY <1>6, <1>9, <2>7, <2>9, <3>2 DEF Zero
    <3>3. CASE y = Zero(1)
      BY <1>6, <1>9, <2>8, <2>9, <3>3 DEF Zero
    <3>4. CASE x # Zero(1) /\ y # Zero(1)
      BY <1>5, <1>11, <2>1, <2>9, <3>1, <3>4
    <3> QED
      BY <3>2, <3>3, <3>4
  <2> QED
    BY <1>4, <2>3, <2>4, <2>5, <2>6, <2>7, <2>8, <2>9
<1> QED
  BY <1>10, <1>11

\* The same of the sum that IEEE 754 defines.
LEMMA SumCases ==
  ASSUME Operands, NEW r, r = Real("add")
  PROVE  /\ Invalid("add") => r = Nan(E)
         /\ ~Invalid("add") =>
              /\ IsInf(E, x) \/ y = Zero(1) => r = x
              /\ IsInf(E, y) \/ x = Zero(1) => r = y
              /\ x.mag = y.mag /\ x.sign # y.sign => r = Zero(0)
              /\ r \in Codes(E) /\ ~IsNan(E, r)
         /\ Inexact => r.sign = SumSign(x, y)
<1>1. CASE Invalid("add")
  <2>1. r = Nan(E)
    BY <1>1 DEF Real
  <2>2. ~Inexact
    BY <1>1 DEF Invalid, Inexact
  <2> QED
    BY <1>1, <2>1, <2>2
<1>2. CASE ~Invalid("add")
  <2>1. PICK s \in {0, 1}, m \in Nat : x = Fp(s, m) /\ s = x.sign /\ m = x.mag /\ m <= NanMag(E)
    BY CodeParts DEF Operands
  <2>2. PICK t \in {0, 1}, n \in Nat : y = Fp(t, n) /\ t = y.sign /\ n = y.mag /\ n <= NanMag(E)
    BY CodeParts DEF Operands
  <2>3. PICK p \in Nat : p = MaxMag(E) /\ InfMag(E) = p + 1 /\ NanMag(E) = p + 2
    BY Magnitudes
  <2>4. m <= p + 1 /\ n <= p + 1
    BY <1>2, <2>1, <2>2, <2>3 DEF Invalid, IsNan
  <2>5. r = Sum
    BY <1>2 DEF Real
  <2>6. m = p + 1 /\ n = p + 1 => s = t
    BY <1>2, <2>1, <2>2, <2>3 DEF Invalid, IsInf
  <2>7. CASE m = p + 1 \/ n = p + 1
    <3>1. r = IF m = p + 1 THEN x ELSE y
      BY <2>1, <2>2, <2>3, <2>5, <2>7 DEF Sum, IsInf
    <3>2. ~Inexact
      BY <2>1, <2>2, <2>3, <2>7 DEF Inexact, IsInf
    <3>3. x # Zero(1) \/ n = p + 1
      BY <2>1, <2>3, <2>7 DEF Zero, Fp
    <3>4. y # Zero(1) \/ m = p + 1
      BY <2>2, <2>3, <2>7 DEF Zero, Fp
    <3>5. m = n => s = t
      BY <2>6, <2>7
    <3>6. m = p + 1 /\ n = p + 1 => x = y
      BY <2>1, <2>2, <2>6
    <3>7. r \in Codes(E) /\ ~IsNan(E, r)
      BY <2>1, <2>2, <2>3, <2>7, <3>1 DEF Operands, IsNan
    <3> QED
      BY <1>2, <2>1, <2>2, <2>3, <3>1, <3>2, <3>3, <3>4, <3>5, <3>6, <3>7 DEF IsInf
  <2>8. CASE m <= p /\ n <= p
    <3>1. PICK a \in Nat, b \in Nat :
            /\ a = Size(m) /\ b = Size(n) /\ (a < b <=> m < n) /\ (a = b <=> m = n)
            /\ (a = 0 <=> m = 0) /\ (b = 0 <=> n = 0)
      BY SizeOrder
    <3>2. PICK sum \in Int : sum = (IF s = 0 THEN a ELSE -a) + (IF t = 0 THEN b ELSE -b)
      OBVIOUS
    <3>3. r = CASE sum > 0 -> Fp(0, Rounded(sum))
                [] sum < 0 -> Fp(1, Rounded(-sum))
                [] sum = 0 -> Zero(IF s = 1 /\ t = 1 THEN 1 ELSE 0)
      <4>1. ~IsInf(E, x) /\ ~IsInf(E, y)
        BY <2>1, <2>2, <2>3, <2>8 DEF IsInf
      <4>2. sum = Number(x) + Number(y)
        BY <2>1, <2>2, <3>1, <3>2 DEF Number
      <4> QED
        BY <2>1, <2>2, <2>5, <4>1, <4>2 DEF Sum
    <3>4. ASSUME NEW q \in Nat
          PROVE  /\ Rounded(q) \in Nat /\ Rounded(q) <= p + 1
                 /\ q = a => Rounded(q) = m
                 /\ q = b => Rounded(q) = n
      <4>1. InfMag(E) \in Nat /\ m \in 0..MaxMag(E) /\ n \in 0..MaxMag(E)
        BY <2>3, <2>8
      <4> QED
        BY <2>3, <3>1, <4>1, RoundedMag
    <3>5. /\ sum > 0 => r = Fp(0, Rounded(sum))
          /\ sum < 0 => r = Fp(1, Rounded(-sum))
          /\ sum = 0 => r = Fp(IF s = 1 /\ t = 1 THEN 1 ELSE 0, 0)
      BY <3>3 DEF Zero
    <3>6. r \in Codes(E) /\ ~IsNan(E, r)
      <4>1. ASSUME NEW u \in {0, 1}, NEW q \in Nat, q <= p + 1, r = Fp(u, q)
            PROVE  r \in Codes(E) /\ ~IsNan(E, r)
        BY <2>3, <4>1, IsCode DEF IsNan, Fp
      <4>2. sum > 0 => r \in Codes(E) /\ ~IsNan(E, r)
        BY <3>4, <3>5, <4>1
      <4>3. sum < 0 => r \in Codes(E) /\ ~IsNan(E, r)
        <5>1. sum < 0 => -sum \in Nat
          OBVIOUS
        <5> QED
          BY <3>4, <3>5, <4>1, <5>1
      <4>4. sum = 0 => r \in Codes(E) /\ ~IsNan(E, r)
        BY <3>5, <4>1
      <4> QED
        BY <4>2, <4>3, <4>4
    <3>7. ~IsInf(E, x) /\ ~IsInf(E, y)
      BY <2>1, <2>2, <2>3, <2>8 DEF IsInf
    <3>8. y = Zero(1) => r = x
      <4>1. SUFFICES ASSUME t = 1, n = 0 PROVE r = Fp(s, m)
        BY <2>1, <2>2 DEF Zero, Fp
      <4>2. b = 0
        BY <3>1, <4>1
      <4>3. CASE a = 0
        <5>1. sum = 0 /\ m = 0
          BY <3>1, <3>2, <4>2, <4>3
        <5>2. (IF s = 1 /\ t = 1 THEN 1 ELSE 0) = s
          BY <4>1
        <5> QED
          BY <3>5, <5>1, <5>2
      <4>4. CASE a # 0 /\ s = 0
        BY <3>2, <3>4, <3>5, <4>1, <4>2, <4>4
      <4>5. CASE a # 0 /\ s = 1
        <5>1. sum < 0 /\ -sum = a
          BY <3>2, <4>1, <4>2, <4>5
        <5> QED
          BY <3>4, <3>5, <4>5, <5>1
      <4> QED
        BY <4>3, <4>4, <4>5
    <3>9. x = Zero(1) => r = y
      <4>1. SUFFICES ASSUME s = 1, m = 0 PROVE r = Fp(t, n)
        BY <2>1, <2>2 DEF Zero, Fp
      <4>2. a = 0
        BY <3>1, <4>1
      <4>3. CASE b = 0
        <5>1. sum = 0 /\ n = 0
          BY <3>1, <3>2, <4>2, <4>3
        <5>2. (IF s = 1 /\ t = 1 THEN 1 ELSE 0) = t
          BY <4>1
        <5> QED
          BY <3>5, <5>1, <5>2
      <4>4. CASE b # 0 /\ t = 0
        BY <3>2, <3>4, <3>5, <4>1, <4>2, <4>4
      <4>5. CASE b # 0 /\ t = 1
        <5>1. sum < 0 /\ -sum = b
          BY <3>2, <4>1, <4>2, <4>5
        <5> QED
          BY <3>4, <3>5, <4>5, <5>1
      <4> QED
        BY <4>3, <4>4, <4>5
    <3>10. x.mag = y.mag /\ x.sign # y.sign => r = Zero(0)
      <4>1. SUFFICES ASSUME m = n, s # t PROVE r = Fp(0, 0)
        BY <2>1, <2>2 DEF Zero
      <4>2. sum = 0
        BY <3>1, <3>2, <4>1
      <4> QED
        BY <3>5, <4>1, <4>2
    <3>11. Inexact => r.sign = SumSign(x, y)
      <4>1. SUFFICES ASSUME ~(s = 1 /\ m = 0), ~(t = 1 /\ n = 0), ~(m = n /\ s # t)
                     PROVE  r.sign = IF s = t \/ m > n THEN s ELSE t
        BY <2>1, <2>2 DEF Inexact, Zero, SumSign
      <4>2. r.sign = IF sum > 0 THEN 0 ELSE IF sum < 0 THEN 1 ELSE IF s = 1 /\ t = 1 THEN 1 ELSE 0
        BY <3>5 DEF Fp
      <4> QED
        BY <3>1, <3>2, <4>1, <4>2
    <3> QED
      BY <1>2, <3>6, <3>7, <3>8, <3>9, <3>10, <3>11
  <2> QED
    BY <2>3, <2>4, <2>7, <2>8
<1> QED
  BY <1>1, <1>2

-----------------------------------------------------------------------------
(***************************************************************************)
(* Products and quotients.                                                 *)
(***************************************************************************)

\* Operands of an operation with a rounded product or quotient.
Finite(f) == ~IsNan(E, f) /\ ~IsInf(E, f) /\ ~IsZero(f)

LEMMA SpecialMags ==
  /\ Nan(E).mag = NanMag(E) /\ Inf(E, 0).mag = InfMag(E) /\ Zero(0).mag = 0
  /\ Inf(E, 0) # Nan(E) /\ Zero(0) # Nan(E)
  /\ One # 0 /\ One # InfMag(E) /\ One # NanMag(E)
  /\ 0 # InfMag(E) /\ 0 # NanMag(E) /\ InfMag(E) # NanMag(E)
<1>1. /\ One # 0 /\ One # InfMag(E) /\ One # NanMag(E)
      /\ 0 # InfMag(E) /\ 0 # NanMag(E) /\ InfMag(E) # NanMag(E)
  BY Magnitudes
<1> QED
  BY <1>1 DEF Nan, Inf, Zero, Fp

LEMMA CanonicalOperands ==
  ASSUME Operands
  PROVE  \E a, b : /\ a = Canonical(E, x) /\ b = Canonical(E, y)
                   /\ (IsNan(E, x) => a = Nan(E)) /\ (~IsNan(E, x) => a = x)
                   /\ (IsNan(E, y) => b = Nan(E)) /\ (~IsNan(E, y) => b = y)
                   /\ (IsNan(E, a) <=> IsNan(E, x)) /\ (IsNan(E, b) <=> IsNan(E, y))
BY CanonicalCode DEF Operands

LEMMA MulCases ==
  ASSUME Operands, NEW k \in Nat, NEW l \in Nat, NEW v, v = Mul(E, One, x, y, k, l)
  PROVE  /\ Invalid("mul") => v = Nan(E)
         /\ ~Invalid("mul") =>
              /\ x.mag = One => v = Fp(SignOf(x, y), y.mag)
              /\ y.mag = One => v = Fp(SignOf(x, y), x.mag)
              /\ IsInf(E, x) \/ IsInf(E, y) => v = Fp(SignOf(x, y), InfMag(E))
              /\ IsZero(x) \/ IsZero(y) => v = Fp(SignOf(x, y), 0)
         /\ Finite(x) /\ Finite(y) /\ x.mag # One /\ y.mag # One =>
              v = Fp(SignOf(x, y), NotNan(E, Symmetric(E, k, l), One))
<1>1. PICK a, b : /\ a = Canonical(E, x) /\ b = Canonical(E, y)
                  /\ (IsNan(E, x) => a = Nan(E)) /\ (~IsNan(E, x) => a = x)
                  /\ (IsNan(E, y) => b = Nan(E)) /\ (~IsNan(E, y) => b = y)
                  /\ (IsNan(E, a) <=> IsNan(E, x)) /\ (IsNan(E, b) <=> IsNan(E, y))
  BY CanonicalOperands
<1>2. PICK n : n = NotNan(E, Symmetric(E, k, l), One)
  OBVIOUS
<1>3. PICK r : /\ v = Signed(E, a, b, r)
               /\ r = IF a.mag = One THEN b
                      ELSE IF b.mag = One \/ IsNan(E, a) THEN a
                      ELSE IF IsNan(E, b) THEN b
                      ELSE IF IsInf(E, a) THEN InfTimes(E, b)
                      ELSE IF IsInf(E, b) THEN InfTimes(E, a)
                      ELSE IF IsZero(a) \/ IsZero(b) THEN Zero(0)
                      ELSE Fp(0, n)
  BY <1>1, <1>2 DEF Mul
<1>4. CASE IsNan(E, x) \/ IsNan(E, y)
  <2>1. r = Nan(E)
    BY <1>1, <1>3, <1>4, SpecialMags DEF IsNan
  <2>2. v = Nan(E) /\ Invalid("mul")
    BY <1>3, <1>4, <2>1 DEF Signed, Invalid
  <2> QED
    BY <1>4, <2>2 DEF Finite
<1>5. CASE ~(IsNan(E, x) \/ IsNan(E, y))
  <2>1. a = x /\ b = y
    BY <1>1, <1>5
  <2>2. Invalid("mul") <=> (IsInf(E, x) /\ IsZero(y)) \/ (IsZero(x) /\ IsInf(E, y))
    BY <1>5, SpecialMags DEF Invalid, IsInf, IsZero
  <2>3. CASE Invalid("mul")
    <3>1. r = Nan(E)
      BY <1>3, <1>5, <2>1, <2>2, <2>3, SpecialMags DEF InfTimes, IsInf, IsZero
    <3> QED
      BY <1>3, <2>2, <2>3, <3>1 DEF Signed, Finite
  <2>4. CASE ~Invalid("mul")
    <3>1. r # Nan(E) => v = Fp(SignOf(x, y), r.mag)
      BY <1>3, <2>1 DEF Signed, SignOf
    <3>2. x # Nan(E) /\ y # Nan(E)
      BY <1>5, SpecialMags DEF IsNan
    <3>3. x.mag = One => v = Fp(SignOf(x, y), y.mag)
      BY <1>3, <2>1, <3>1, <3>2
    <3>4. y.mag = One => v = Fp(SignOf(x, y), x.mag)
      BY <1>3, <1>5, <2>1, <3>1, <3>2
    <3>5. ASSUME IsInf(E, x) \/ IsInf(E, y) PROVE v = Fp(SignOf(x, y), InfMag(E))
      <4>1. CASE x.mag = One \/ y.mag = One
        BY <3>3, <3>4, <3>5, <4>1, SpecialMags DEF IsInf
      <4>2. CASE ~(x.mag = One \/ y.mag = One)
        <5>1. r = Inf(E, 0)
          BY <1>3, <1>5, <2>1, <2>2, <2>4, <3>5, <4>2 DEF InfTimes
        <5> QED
          BY <3>1, <5>1, SpecialMags
      <4> QED
        BY <4>1, <4>2
    <3>6. ASSUME IsZero(x) \/ IsZero(y) PROVE v = Fp(SignOf(x, y), 0)
      <4>1. CASE x.mag = One \/ y.mag = One
        BY <3>3, <3>4, <3>6, <4>1, SpecialMags DEF IsZero
      <4>2. CASE ~(x.mag = One \/ y.mag = One)
        <5>1. ~IsInf(E, x) /\ ~IsInf(E, y)
          BY <2>2, <2>4, <3>6, SpecialMags DEF IsInf, IsZero
        <5>2. r = Zero(0)
          BY <1>3, <1>5, <2>1, <3>6, <4>2, <5>1
        <5> QED
          BY <3>1, <5>2, SpecialMags
      <4> QED
        BY <4>1, <4>2
    <3>7. ASSUME Finite(x), Finite(y), x.mag # One, y.mag # One
          PROVE  v = Fp(SignOf(x, y), n)
      <4>1. r = Fp(0, n)
        BY <1>3, <1>5, <2>1, <3>7 DEF Finite
      <4>2. n # NanMag(E)
        BY <1>2, SpecialMags DEF NotNan
      <4>3. r.mag = n /\ r # Nan(E)
        BY <4>1, <4>2, SpecialMags DEF Fp
      <4> QED
        BY <3>1, <4>3
    <3> QED
      BY <1>2, <2>4, <3>3, <3>4, <3>5, <3>6, <3>7
  <2> QED
    BY <2>3, <2>4
<1> QED
  BY <1>4, <1>5

LEMMA DivCases ==
  ASSUME Operands, NEW k \in Nat, NEW v, v = Div(E, One, x, y, k)
  PROVE  /\ Invalid("div") => v = Nan(E)
         /\ ~Invalid("div") =>
              /\ y.mag = One => v = Fp(SignOf(x, y), x.mag)
              /\ IsInf(E, x) \/ IsZero(y) => v = Fp(SignOf(x, y), InfMag(E))
              /\ IsZero(x) \/ IsInf(E, y) => v = Fp(SignOf(x, y), 0)
              /\ Finite(x) /\ x.mag = y.mag => v = Fp(SignOf(x, y), One)
         /\ Finite(x) /\ Finite(y) /\ y.mag # One /\ x.mag # y.mag =>
              v = Fp(SignOf(x, y), NotNan(E, k, One))
<1>1. PICK a, b : /\ a = Canonical(E, x) /\ b = Canonical(E, y)
                  /\ (IsNan(E, x) => a = Nan(E)) /\ (~IsNan(E, x) => a = x)
                  /\ (IsNan(E, y) => b = Nan(E)) /\ (~IsNan(E, y) => b = y)
                  /\ (IsNan(E, a) <=> IsNan(E, x)) /\ (IsNan(E, b) <=> IsNan(E, y))
  BY CanonicalOperands
<1>2. PICK n : n = NotNan(E, k, One)
  OBVIOUS
<1>3. PICK r : /\ v = Signed(E, a, b, r)
               /\ r = IF b.mag = One \/ IsNan(E, a) THEN a
                      ELSE IF IsNan(E, b) THEN b
                      ELSE IF IsInf(E, b) THEN IF IsInf(E, a) THEN Nan(E) ELSE Zero(0)
                      ELSE IF IsInf(E, a) THEN Inf(E, 0)
                      ELSE IF IsZero(b) THEN ByZero(E, a)
                      ELSE IF IsZero(a) THEN Zero(0)
                      ELSE IF a.mag = b.mag THEN Fp(0, One)
                      ELSE Fp(0, n)
  BY <1>1, <1>2 DEF Div
<1>4. CASE IsNan(E, x) \/ IsNan(E, y)
  <2>1. r = Nan(E)
    BY <1>1, <1>3, <1>4, SpecialMags DEF IsNan
  <2>2. v = Nan(E) /\ Invalid("div")
    BY <1>3, <1>4, <2>1 DEF Signed, Invalid
  <2> QED
    BY <1>4, <2>2 DEF Finite
<1>5. CASE ~(IsNan(E, x) \/ IsNan(E, y))
  <2>1. a = x /\ b = y
    BY <1>1, <1>5
  <2>2. Invalid("div") <=> (IsInf(E, x) /\ IsInf(E, y)) \/ (IsZero(x) /\ IsZero(y))
    BY <1>5, SpecialMags DEF Invalid, IsInf, IsZero
  <2>3. CASE Invalid("div")
    <3>1. r = Nan(E)
      BY <1>3, <1>5, <2>1, <2>2, <2>3, SpecialMags DEF ByZero, IsInf, IsZero
    <3> QED
      BY <1>3, <2>2, <2>3, <3>1 DEF Signed, Finite
  <2>4. CASE ~Invalid("div")
    <3>1. r # Nan(E) => v = Fp(SignOf(x, y), r.mag)
      BY <1>3, <2>1 DEF Signed, SignOf
    <3>2. x # Nan(E) /\ y # Nan(E)
      BY <1>5, SpecialMags DEF IsNan
    <3>3. y.mag = One => v = Fp(SignOf(x, y), x.mag)
      BY <1>3, <1>5, <2>1, <3>1, <3>2
    <3>4. ASSUME IsInf(E, x) \/ IsZero(y) PROVE v = Fp(SignOf(x, y), InfMag(E))
      <4>1. CASE y.mag = One
        BY <3>3, <3>4, <4>1, SpecialMags DEF IsInf, IsZero
      <4>2. CASE y.mag # One
        <5>1. ~IsInf(E, y)
          BY <2>2, <2>4, <3>4, SpecialMags DEF IsInf, IsZero
        <5>2. r = Inf(E, 0)
          BY <1>3, <1>5, <2>1, <2>2, <2>4, <3>4, <4>2, <5>1 DEF ByZero
        <5> QED
          BY <3>1, <5>2, SpecialMags
      <4> QED
        BY <4>1, <4>2
    <3>5. ASSUME IsZero(x) \/ IsInf(E, y) PROVE v = Fp(SignOf(x, y), 0)
      <4>1. CASE y.mag = One
        BY <3>3, <3>5, <4>1, SpecialMags DEF IsInf, IsZero
      <4>2. CASE y.mag # One
        <5>1. ~IsInf(E, x) /\ ~IsZero(y)
          BY <2>2, <2>4, <3>5, SpecialMags DEF IsInf, IsZero
        <5>2. r = Zero(0)
          BY <1>3, <1>5, <2>1, <3>5, <4>2, <5>1
        <5> QED
          BY <3>1, <5>2, SpecialMags
      <4> QED
        BY <4>1, <4>2
    <3>6. ASSUME Finite(x), x.mag = y.mag PROVE v = Fp(SignOf(x, y), One)
      <4>1. CASE y.mag = One
        BY <3>3, <3>6, <4>1
      <4>2. CASE y.mag # One
        <5>1. Finite(y)
          BY <3>6 DEF Finite, IsNan, IsInf, IsZero
        <5>2. r = Fp(0, One)
          BY <1>3, <2>1, <3>6, <4>2, <5>1 DEF Finite
        <5>3. r.mag = One /\ r # Nan(E)
          BY <5>2, SpecialMags DEF Fp
        <5> QED
          BY <3>1, <5>3
      <4> QED
        BY <4>1, <4>2
    <3>7. ASSUME Finite(x), Finite(y), y.mag # One, x.mag # y.mag
          PROVE  v = Fp(SignOf(x, y), n)
      <4>1. r = Fp(0, n)
        BY <1>3, <1>5, <2>1, <3>7 DEF Finite
      <4>2. n # NanMag(E)
        BY <1>2, SpecialMags DEF NotNan
      <4>3. r.mag = n /\ r # Nan(E)
        BY <4>1, <4>2, SpecialMags DEF Fp
      <4> QED
        BY <3>1, <4>3
    <3> QED
      BY <1>2, <2>4, <3>3, <3>4, <3>5, <3>6, <3>7
  <2> QED
    BY <2>3, <2>4
<1> QED
  BY <1>4, <1>5

LEMMA ExponentFits ==
  ASSUME NEW i \in Int
  PROVE  Exponent(i) \in 0..InfMag(E) /\ (i \in 1..MaxMag(E) => Exponent(i) = i)
<1>1. InfMag(E) \in Nat /\ MaxMag(E) = InfMag(E) - 1
  BY Magnitudes
<1> QED
  BY <1>1 DEF Exponent

LEMMA SignedCode ==
  ASSUME NEW m \in 0..InfMag(E)
  PROVE  LET r == Fp(SignOf(x, y), m)
         IN  r \in Codes(E) /\ ~IsNan(E, r) /\ r.sign = SignOf(x, y) /\ r.mag = m
<1>1. SignOf(x, y) \in {0, 1}
  BY DEF SignOf
<1>2. InfMag(E) \in Nat /\ NanMag(E) \in Nat /\ InfMag(E) = NanMag(E) - 1
  BY Magnitudes
<1>3. m \in Nat /\ m <= NanMag(E) /\ m # NanMag(E)
  BY <1>2
<1> QED
  BY <1>1, <1>3, IsCode DEF Fp, IsNan

LEMMA ProductCases ==
  ASSUME Operands, NEW r, r = Real("mul")
  PROVE  /\ Invalid("mul") => r = Nan(E)
         /\ ~Invalid("mul") =>
              /\ x.mag = One => r = Fp(SignOf(x, y), y.mag)
              /\ y.mag = One => r = Fp(SignOf(x, y), x.mag)
              /\ IsInf(E, x) \/ IsInf(E, y) => r = Fp(SignOf(x, y), InfMag(E))
              /\ IsZero(x) \/ IsZero(y) => r = Fp(SignOf(x, y), 0)
              /\ r \in Codes(E) /\ ~IsNan(E, r) /\ r = Fp(SignOf(x, y), r.mag)
<1>1. CASE Invalid("mul")
  BY <1>1 DEF Real
<1>2. CASE ~Invalid("mul")
  <2>1. PICK m \in Nat, n \in Nat : m = x.mag /\ n = y.mag /\ m <= NanMag(E) /\ n <= NanMag(E)
    BY CodeParts DEF Operands
  <2>2. InfMag(E) \in Nat /\ MaxMag(E) = InfMag(E) - 1 /\ NanMag(E) = InfMag(E) + 1
    BY Magnitudes
  <2>3. One \in Nat /\ 1 <= One
    BY Magnitudes
  <2>4. m <= InfMag(E) /\ n <= InfMag(E)
    BY <1>2, <2>1, <2>2 DEF Invalid, IsNan
  <2>5. PICK z : z = CASE IsInf(E, x) \/ IsInf(E, y) -> InfMag(E)
                       [] IsZero(x) \/ IsZero(y)     -> 0
                       [] OTHER                      -> Exponent(m + n - One)
    OBVIOUS
  <2>6. r = Fp(SignOf(x, y), z)
    BY <1>2, <2>1, <2>5 DEF Real, Product
  <2>7. ~(m = InfMag(E) /\ n = 0) /\ ~(m = 0 /\ n = InfMag(E))
    BY <1>2, <2>1 DEF Invalid
  <2>8. (IsInf(E, x) <=> m = InfMag(E)) /\ (IsInf(E, y) <=> n = InfMag(E))
        /\ (IsZero(x) <=> m = 0) /\ (IsZero(y) <=> n = 0)
    BY <2>1 DEF IsInf, IsZero
  <2>9. m = InfMag(E) \/ n = InfMag(E) => z = InfMag(E)
    BY <2>5, <2>7, <2>8, SpecialMags
  <2>10. m = 0 \/ n = 0 => z = 0
    BY <2>5, <2>7, <2>8
  <2>11. m # InfMag(E) /\ n # InfMag(E) /\ m # 0 /\ n # 0 => z = Exponent(m + n - One)
    BY <2>5, <2>8
  <2>12. m = One => z = n
    <3>1. m = One => m + n - One = n
      BY <2>1, <2>3
    <3>2. n # 0 /\ n # InfMag(E) => Exponent(n) = n
      BY <2>2, <2>4, ExponentFits
    <3> QED
      BY <2>9, <2>10, <2>11, <3>1, <3>2, SpecialMags
  <2>13. n = One => z = m
    <3>1. n = One => m + n - One = m
      BY <2>1, <2>3
    <3>2. m # 0 /\ m # InfMag(E) => Exponent(m) = m
      BY <2>2, <2>4, ExponentFits
    <3> QED
      BY <2>9, <2>10, <2>11, <3>1, <3>2, SpecialMags
  <2>14. z \in 0..InfMag(E)
    <3>1. m + n - One \in Int
      BY <2>1, <2>3
    <3>2. Exponent(m + n - One) \in 0..InfMag(E)
      BY <3>1, ExponentFits
    <3>3. InfMag(E) \in 0..InfMag(E) /\ 0 \in 0..InfMag(E)
      BY <2>2
    <3> QED
      BY <2>9, <2>10, <2>11, <3>2, <3>3
  <2>15. r \in Codes(E) /\ ~IsNan(E, r) /\ r.mag = z
    BY <2>6, <2>14, SignedCode
  <2> QED
    BY <1>2, <2>1, <2>6, <2>8, <2>9, <2>10, <2>12, <2>13, <2>15
<1> QED
  BY <1>1, <1>2

LEMMA QuotientCases ==
  ASSUME Operands, NEW r, r = Real("div")
  PROVE  /\ Invalid("div") => r = Nan(E)
         /\ ~Invalid("div") =>
              /\ y.mag = One => r = Fp(SignOf(x, y), x.mag)
              /\ IsInf(E, x) \/ IsZero(y) => r = Fp(SignOf(x, y), InfMag(E))
              /\ IsZero(x) \/ IsInf(E, y) => r = Fp(SignOf(x, y), 0)
              /\ Finite(x) /\ x.mag = y.mag => r = Fp(SignOf(x, y), One)
              /\ r \in Codes(E) /\ ~IsNan(E, r) /\ r = Fp(SignOf(x, y), r.mag)
<1>1. CASE Invalid("div")
  BY <1>1 DEF Real
<1>2. CASE ~Invalid("div")
  <2>1. PICK m \in Nat, n \in Nat : m = x.mag /\ n = y.mag /\ m <= NanMag(E) /\ n <= NanMag(E)
    BY CodeParts DEF Operands
  <2>2. InfMag(E) \in Nat /\ MaxMag(E) = InfMag(E) - 1 /\ NanMag(E) = InfMag(E) + 1
    BY Magnitudes
  <2>3. One \in Nat /\ 1 <= One /\ One \in 1..MaxMag(E)
    BY Magnitudes
  <2>4. m <= InfMag(E) /\ n <= InfMag(E)
    BY <1>2, <2>1, <2>2 DEF Invalid, IsNan
  <2>5. PICK z : z = CASE IsInf(E, x) \/ IsZero(y) -> InfMag(E)
                       [] IsZero(x) \/ IsInf(E, y) -> 0
                       [] OTHER                    -> Exponent(m - n + One)
    OBVIOUS
  <2>6. r = Fp(SignOf(x, y), z)
    BY <1>2, <2>1, <2>5 DEF Real, Quotient
  <2>7. ~(m = InfMag(E) /\ n = InfMag(E)) /\ ~(m = 0 /\ n = 0)
    BY <1>2, <2>1 DEF Invalid
  <2>8. (IsInf(E, x) <=> m = InfMag(E)) /\ (IsInf(E, y) <=> n = InfMag(E))
        /\ (IsZero(x) <=> m = 0) /\ (IsZero(y) <=> n = 0)
    BY <2>1 DEF IsInf, IsZero
  <2>9. m = InfMag(E) \/ n = 0 => z = InfMag(E)
    BY <2>5, <2>7, <2>8, SpecialMags
  <2>10. m = 0 \/ n = InfMag(E) => z = 0
    BY <2>5, <2>7, <2>8, SpecialMags
  <2>11. m # InfMag(E) /\ n # InfMag(E) /\ m # 0 /\ n # 0 => z = Exponent(m - n + One)
    BY <2>5, <2>8
  <2>12. n = One => z = m
    <3>1. n = One => m - n + One = m
      BY <2>1, <2>3
    <3>2. m # 0 /\ m # InfMag(E) => Exponent(m) = m
      BY <2>2, <2>4, ExponentFits
    <3> QED
      BY <2>9, <2>10, <2>11, <3>1, <3>2, SpecialMags
  <2>13. m = n /\ m # 0 /\ m # InfMag(E) => z = One
    <3>1. m = n => m - n + One = One
      BY <2>1, <2>3
    <3>2. Exponent(One) = One
      BY <2>3, ExponentFits
    <3> QED
      BY <2>11, <3>1, <3>2
  <2>14. z \in 0..InfMag(E)
    <3>1. m - n + One \in Int
      BY <2>1, <2>3
    <3>2. Exponent(m - n + One) \in 0..InfMag(E)
      BY <3>1, ExponentFits
    <3>3. InfMag(E) \in 0..InfMag(E) /\ 0 \in 0..InfMag(E)
      BY <2>2
    <3> QED
      BY <2>9, <2>10, <2>11, <3>2, <3>3
  <2>15. r \in Codes(E) /\ ~IsNan(E, r) /\ r.mag = z
    BY <2>6, <2>14, SignedCode
  <2> QED
    BY <1>2, <2>1, <2>6, <2>8, <2>9, <2>10, <2>12, <2>13, <2>15 DEF Finite
<1> QED
  BY <1>1, <1>2

-----------------------------------------------------------------------------
(***************************************************************************)
(* The encoding against IEEE 754.                                          *)
(***************************************************************************)

\* Results that no meaning of the functions can change.
LEMMA SpecialResults ==
  ASSUME Operands
  PROVE  SpecialsAreForced
<1> SUFFICES ASSUME NEW m \in Meaning
             PROVE  /\ \/ IsNan(E, x) \/ IsNan(E, y) \/ IsInf(E, x) \/ IsInf(E, y)
                       \/ x = Zero(1) \/ y = Zero(1)
                       \/ (x.mag = y.mag /\ x.sign # y.sign)
                       => Value("add", m) = Real("add")
                    /\ Special(x) \/ Special(y) => Value("mul", m) = Real("mul")
                    /\ Special(y) \/ (Special(x) /\ x.mag # One) \/ x.mag = y.mag
                       => Value("div", m) = Real("div")
  BY DEF SpecialsAreForced
<1>1. ASSUME ~Inexact PROVE Value("add", m) = Real("add")
  <2>1. PICK v : v = Value("add", m)
    OBVIOUS
  <2>2. v = Add(E, x, y, m[1], m[2]) /\ m[1] \in Codes(E) /\ m[2] \in Codes(E)
    BY <2>1, MeaningParts
  <2>3. PICK r : r = Real("add")
    OBVIOUS
  <2>4. /\ Invalid("add") => v = Nan(E)
        /\ ~Invalid("add") =>
             /\ IsInf(E, x) \/ y = Zero(1) => v = x
             /\ IsInf(E, y) \/ x = Zero(1) => v = y
             /\ x.mag = y.mag /\ x.sign # y.sign => v = Zero(0)
    BY <2>2, AddCases
  <2>5. /\ Invalid("add") => r = Nan(E)
        /\ ~Invalid("add") =>
             /\ IsInf(E, x) \/ y = Zero(1) => r = x
             /\ IsInf(E, y) \/ x = Zero(1) => r = y
             /\ x.mag = y.mag /\ x.sign # y.sign => r = Zero(0)
    BY <2>3, SumCases
  <2>6. IsNan(E, x) \/ IsNan(E, y) => Invalid("add")
    BY DEF Invalid
  <2> QED
    BY <1>1, <2>1, <2>3, <2>4, <2>5, <2>6 DEF Inexact
<1>2. ASSUME Special(x) \/ Special(y) PROVE Value("mul", m) = Real("mul")
  <2>1. PICK v : v = Value("mul", m)
    OBVIOUS
  <2>2. v = Mul(E, One, x, y, m[1].mag, m[2].mag) /\ m[1].mag \in Nat /\ m[2].mag \in Nat
    BY <2>1, MeaningParts
  <2>3. PICK r : r = Real("mul")
    OBVIOUS
  <2>4. /\ Invalid("mul") => v = Nan(E)
        /\ ~Invalid("mul") =>
             /\ x.mag = One => v = Fp(SignOf(x, y), y.mag)
             /\ y.mag = One => v = Fp(SignOf(x, y), x.mag)
             /\ IsInf(E, x) \/ IsInf(E, y) => v = Fp(SignOf(x, y), InfMag(E))
             /\ IsZero(x) \/ IsZero(y) => v = Fp(SignOf(x, y), 0)
    BY <2>2, MulCases
  <2>5. /\ Invalid("mul") => r = Nan(E)
        /\ ~Invalid("mul") =>
             /\ x.mag = One => r = Fp(SignOf(x, y), y.mag)
             /\ y.mag = One => r = Fp(SignOf(x, y), x.mag)
             /\ IsInf(E, x) \/ IsInf(E, y) => r = Fp(SignOf(x, y), InfMag(E))
             /\ IsZero(x) \/ IsZero(y) => r = Fp(SignOf(x, y), 0)
    BY <2>3, ProductCases
  <2>6. IsNan(E, x) \/ IsNan(E, y) => Invalid("mul")
    BY DEF Invalid
  <2> QED
    BY <1>2, <2>1, <2>3, <2>4, <2>5, <2>6 DEF Special
<1>3. ASSUME Special(y) \/ (Special(x) /\ x.mag # One) \/ x.mag = y.mag
      PROVE  Value("div", m) = Real("div")
  <2>1. PICK v : v = Value("div", m)
    OBVIOUS
  <2>2. v = Div(E, One, x, y, m[1].mag) /\ m[1].mag \in Nat
    BY <2>1, MeaningParts
  <2>3. PICK r : r = Real("div")
    OBVIOUS
  <2>4. /\ Invalid("div") => v = Nan(E)
        /\ ~Invalid("div") =>
             /\ y.mag = One => v = Fp(SignOf(x, y), x.mag)
             /\ IsInf(E, x) \/ IsZero(y) => v = Fp(SignOf(x, y), InfMag(E))
             /\ IsZero(x) \/ IsInf(E, y) => v = Fp(SignOf(x, y), 0)
             /\ Finite(x) /\ x.mag = y.mag => v = Fp(SignOf(x, y), One)
    BY <2>2, DivCases
  <2>5. /\ Invalid("div") => r = Nan(E)
        /\ ~Invalid("div") =>
             /\ y.mag = One => r = Fp(SignOf(x, y), x.mag)
             /\ IsInf(E, x) \/ IsZero(y) => r = Fp(SignOf(x, y), InfMag(E))
             /\ IsZero(x) \/ IsInf(E, y) => r = Fp(SignOf(x, y), 0)
             /\ Finite(x) /\ x.mag = y.mag => r = Fp(SignOf(x, y), One)
    BY <2>3, QuotientCases
  <2>6. IsNan(E, x) \/ IsNan(E, y) => Invalid("div")
    BY DEF Invalid
  <2> QED
    BY <1>3, <2>1, <2>3, <2>4, <2>5, <2>6 DEF Special, Finite
<1> QED
  BY <1>1, <1>2, <1>3 DEF Inexact

\* NaN, infinities, zeros, the identities and x / x have their IEEE results
\* under every meaning of the uninterpreted functions (add, mul, div), for
\* every width of an encoding and every place of 1.0 in it.
THEOREM SpecialsAreExact == Spec => []SpecialsAreForced
<1>1. Operands => SpecialsAreForced
  BY SpecialResults
<1> QED
  BY <1>1, OperandsStay, PTL

LEMMA ResultsAreAlike ==
  ASSUME Operands
  PROVE  NansAndSigns
<1> SUFFICES ASSUME NEW m \in Meaning, NEW op \in {"add", "mul", "div"}
             PROVE  /\ IsNan(E, Value(op, m)) <=> IsNan(E, Real(op))
                    /\ op # "add" \/ ~IsZero(Real(op)) => Value(op, m).sign = Real(op).sign
  BY DEF NansAndSigns
<1>1. PICK v, r : v = Value(op, m) /\ r = Real(op)
  OBVIOUS
<1>2. CASE v = r
  BY <1>1, <1>2
<1>3. CASE v # r /\ op = "add"
  <2>1. Inexact
    BY <1>1, <1>3, SpecialResults DEF SpecialsAreForced, Inexact
  <2>2. ~Invalid("add")
    BY <2>1 DEF Invalid, Inexact
  <2>3. r.sign = SumSign(x, y) /\ ~IsNan(E, r)
    BY <1>1, <1>3, <2>1, <2>2, SumCases
  <2>4. PICK n : n = NotNan(E, Symmetric(E, m[1].mag, m[2].mag), 0)
    OBVIOUS
  <2>5. v = Fp(SumSign(x, y), n)
    BY <1>1, <1>3, <2>1, <2>4, AddCases, MeaningParts
  <2>6. n # NanMag(E)
    BY <2>4, SpecialMags DEF NotNan
  <2> QED
    BY <1>1, <2>3, <2>5, <2>6 DEF Fp, IsNan
<1>4. CASE v # r /\ op \in {"mul", "div"}
  <2>1. Finite(x) /\ Finite(y)
    <3>1. ~Special(y) /\ (~Special(x) \/ x.mag = One)
      BY <1>1, <1>4, SpecialResults DEF SpecialsAreForced
    <3> QED
      BY <3>1, SpecialMags DEF Special, Finite, IsNan, IsInf, IsZero
  <2>2. y.mag # One /\ (op = "div" => x.mag # y.mag) /\ (op = "mul" => x.mag # One)
    BY <1>1, <1>4, SpecialResults DEF SpecialsAreForced, Special
  <2>3. ~Invalid(op)
    BY <1>4, <2>1 DEF Invalid, Finite, IsInf, IsZero
  <2>4. r = Fp(SignOf(x, y), r.mag) /\ ~IsNan(E, r)
    BY <1>1, <1>4, <2>3, ProductCases, QuotientCases
  <2>5. \E n : n # NanMag(E) /\ v = Fp(SignOf(x, y), n)
    <3>1. \A n : NotNan(E, n, One) # NanMag(E)
      BY SpecialMags DEF NotNan
    <3>2. CASE op = "mul"
      BY <1>1, <2>1, <2>2, <3>1, <3>2, MulCases, MeaningParts
    <3>3. CASE op = "div"
      BY <1>1, <2>1, <2>2, <3>1, <3>3, DivCases, MeaningParts
    <3> QED
      BY <1>4, <3>2, <3>3
  <2>6. v.mag # NanMag(E) /\ v.sign = SignOf(x, y) /\ r.sign = SignOf(x, y)
    BY <2>4, <2>5 DEF Fp
  <2> QED
    BY <1>1, <2>4, <2>6 DEF IsNan
<1> QED
  BY <1>2, <1>3, <1>4

\* Under every meaning only operands that IEEE 754 calls invalid yield a NaN,
\* and results have the sign that IEEE 754 gives them (add, mul, div).
THEOREM NansAndSignsAreExact == Spec => []NansAndSigns
<1>1. Operands => NansAndSigns
  BY ResultsAreAlike
<1> QED
  BY <1>1, OperandsStay, PTL

\* The functions that the operations encoded so far apply.
Declared ==
  /\ fp_addfn \in {"", "fp_add"} /\ fp_mulfn \in {"", "fp_mul", "fp_div"}
  /\ \A t \in terms : \/ t.op = "add" /\ t.fn = "fp_add"
                      \/ t.op \in {"mul", "div"} /\ t.fn \in {"fp_mul", "fp_div"}

LEMMA DeclaredStays == Spec => []Declared
<1>1. Init => Declared
  BY DEF Init, Declared
<1>2. Declared /\ [Next]_vars => Declared'
  <2> SUFFICES ASSUME Declared, [Next]_vars PROVE Declared'
    OBVIOUS
  <2>1. CASE EncodeAdd
    <3>1. fp_addfn' \in {"fp_add"} /\ fp_mulfn' = fp_mulfn
      BY <2>1 DEF EncodeAdd, Declared
    <3>2. PICK g : g = fp_addfn' /\ terms' = terms \cup {[op |-> "add", fn |-> g]}
      BY <2>1 DEF EncodeAdd, Encode
    <3>3. ASSUME NEW t \in terms'
          PROVE  \/ t.op = "add" /\ t.fn = "fp_add"
                 \/ t.op \in {"mul", "div"} /\ t.fn \in {"fp_mul", "fp_div"}
      <4>1. CASE t \in terms
        BY <4>1 DEF Declared
      <4>2. CASE t \notin terms
        <5>1. t.op = "add" /\ t.fn = g
          BY <3>2, <3>3, <4>2
        <5> QED
          BY <3>1, <3>2, <5>1
      <4> QED
        BY <4>1, <4>2
    <3> QED
      BY <3>1, <3>3 DEF Declared
  <2>2. CASE EncodeMul
    <3>1. fp_mulfn' \in {"fp_mul", "fp_div"} /\ fp_addfn' = fp_addfn
      BY <2>2 DEF EncodeMul, Declared
    <3>2. PICK g : g = fp_mulfn' /\ terms' = terms \cup {[op |-> "mul", fn |-> g]}
      BY <2>2 DEF EncodeMul, Encode
    <3>3. ASSUME NEW t \in terms'
          PROVE  \/ t.op = "add" /\ t.fn = "fp_add"
                 \/ t.op \in {"mul", "div"} /\ t.fn \in {"fp_mul", "fp_div"}
      <4>1. CASE t \in terms
        BY <4>1 DEF Declared
      <4>2. CASE t \notin terms
        <5>1. t.op = "mul" /\ t.fn = g
          BY <3>2, <3>3, <4>2
        <5> QED
          BY <3>1, <3>2, <5>1
      <4> QED
        BY <4>1, <4>2
    <3> QED
      BY <3>1, <3>3 DEF Declared
  <2>3. CASE EncodeDiv
    <3>1. fp_mulfn' \in {"fp_mul", "fp_div"} /\ fp_addfn' = fp_addfn
      BY <2>3 DEF EncodeDiv, Declared
    <3>2. PICK g : g = fp_mulfn' /\ terms' = terms \cup {[op |-> "div", fn |-> g]}
      BY <2>3 DEF EncodeDiv, Encode
    <3>3. ASSUME NEW t \in terms'
          PROVE  \/ t.op = "add" /\ t.fn = "fp_add"
                 \/ t.op \in {"mul", "div"} /\ t.fn \in {"fp_mul", "fp_div"}
      <4>1. CASE t \in terms
        BY <4>1 DEF Declared
      <4>2. CASE t \notin terms
        <5>1. t.op = "div" /\ t.fn = g
          BY <3>2, <3>3, <4>2
        <5> QED
          BY <3>1, <3>2, <5>1
      <4> QED
        BY <4>1, <4>2
    <3> QED
      BY <3>1, <3>3 DEF Declared
  <2>4. CASE UNCHANGED vars
    BY <2>4 DEF vars, Declared
  <2> QED
    BY <2>1, <2>2, <2>3, <2>4 DEF Next
<1> QED
  BY <1>1, <1>2, PTL DEF Spec

\* The functions whose value is the IEEE result make the operation the IEEE
\* operation: the bitwise and of the result with itself is the result.
LEMMA RealMeaning ==
  ASSUME Operands, NEW op \in {"add", "mul", "div"}
  PROVE  \E m \in Meaning : Value(op, m) = Real(op)
<1>1. PICK r : r = Real(op)
  OBVIOUS
<1>2. Nan(E) \in Codes(E)
  BY Magnitudes, IsCode DEF Nan
<1>3. r \in Codes(E)
  BY <1>1, <1>2, SumCases, ProductCases, QuotientCases
<1>4. PICK m \in Meaning : m[1] = r /\ m[2] = r
  <2>1. <<r, r>> \in Meaning
    BY <1>3 DEF Meaning
  <2> QED
    BY <2>1
<1>5. PICK v : v = Value(op, m)
  OBVIOUS
<1>6. r.mag \in Mags(E) /\ r.mag \in Nat
  BY <1>3, CodeParts DEF Codes
<1>7. PICK s : s = Symmetric(E, r.mag, r.mag)
  OBVIOUS
<1>8. s = r.mag
  BY <1>6, <1>7, SymmetricSame
<1>9. \A n : r.mag # NanMag(E) => NotNan(E, r.mag, n) = r.mag
  BY DEF NotNan
<1>10. CASE v # r /\ op = "add"
  <2>1. Inexact
    BY <1>1, <1>5, <1>10, SpecialResults DEF SpecialsAreForced, Inexact
  <2>2. ~Invalid("add")
    BY <2>1 DEF Invalid, Inexact
  <2>3. r.sign = SumSign(x, y) /\ ~IsNan(E, r)
    BY <1>1, <1>10, <2>1, <2>2, SumCases
  <2>4. v = Fp(SumSign(x, y), NotNan(E, s, 0))
    BY <1>4, <1>5, <1>7, <1>10, <2>1, AddCases, MeaningParts
  <2>5. v = Fp(r.sign, r.mag)
    BY <1>8, <1>9, <2>3, <2>4 DEF IsNan
  <2> QED
    BY <1>3, <1>10, <2>5, CodeParts
<1>11. CASE v # r /\ op \in {"mul", "div"}
  <2>1. ~Special(y) /\ (~Special(x) \/ (op = "div" /\ x.mag = One /\ x.mag # y.mag))
        /\ (op = "div" => x.mag # y.mag)
    BY <1>1, <1>5, <1>11, SpecialResults DEF SpecialsAreForced, Special
  <2>2. Finite(x) /\ Finite(y) /\ y.mag # One /\ (op = "mul" => x.mag # One)
    BY <2>1, SpecialMags DEF Special, Finite, IsNan, IsInf, IsZero
  <2>3. ~Invalid(op)
    BY <1>11, <2>2 DEF Invalid, Finite, IsInf, IsZero
  <2>4. r = Fp(SignOf(x, y), r.mag) /\ ~IsNan(E, r)
    BY <1>1, <1>11, <2>3, ProductCases, QuotientCases
  <2>5. v = Fp(SignOf(x, y), NotNan(E, r.mag, One))
    <3>1. CASE op = "mul"
      <4>1. v = Mul(E, One, x, y, r.mag, r.mag)
        BY <1>4, <1>5, <3>1, MeaningParts
      <4>2. v = Fp(SignOf(x, y), NotNan(E, s, One))
        BY <1>6, <1>7, <2>2, <3>1, <4>1, MulCases
      <4> QED
        BY <1>8, <4>2
    <3>2. CASE op = "div"
      <4>1. v = Div(E, One, x, y, r.mag)
        BY <1>4, <1>5, <3>2, MeaningParts
      <4> QED
        BY <1>6, <2>1, <2>2, <3>2, <4>1, DivCases
    <3> QED
      BY <1>11, <3>1, <3>2
  <2>6. v = Fp(SignOf(x, y), r.mag)
    BY <1>9, <2>4, <2>5 DEF IsNan
  <2> QED
    BY <1>11, <2>4, <2>6
<1> QED
  BY <1>1, <1>5, <1>10, <1>11

\* IEEE 754 addition, and multiplication or division, is a meaning of the
\* uninterpreted functions unless a function both multiplies and divides
\* (getAddFn, getMulFn, getDivFn): what holds under all meanings then holds of
\* the program.
THEOREM AdmitsIEEEArithmetic == Spec => []AdmitsIEEEApart
<1>1. ASSUME Operands, Declared PROVE AdmitsIEEEApart
  <2> SUFFICES ASSUME ~ {"mul", "div"} \subseteq Ops, NEW fn \in Fns
               PROVE  \E m \in Meaning : \A t \in terms : t.fn = fn => Value(t.op, m) = Real(t.op)
    BY DEF AdmitsIEEEApart, AdmitsIEEE
  <2>1. PICK u \in terms : u.fn = fn
    BY DEF Fns
  <2>2. u.op \in {"add", "mul", "div"}
    BY <1>1, <2>1 DEF Declared
  <2>3. ASSUME NEW t \in terms, t.fn = fn PROVE t.op = u.op
    <3>1. u.op \in Ops /\ t.op \in Ops
      BY <2>1, <2>3 DEF Ops
    <3>2. \/ t.op = "add" /\ u.op = "add"
          \/ t.op \in {"mul", "div"} /\ u.op \in {"mul", "div"}
      BY <1>1, <2>1, <2>3 DEF Declared
    <3> QED
      BY <3>1, <3>2
  <2>4. PICK m \in Meaning : Value(u.op, m) = Real(u.op)
    BY <1>1, <2>2, RealMeaning
  <2> QED
    BY <2>3, <2>4
<1> QED
  BY <1>1, OperandsStay, DeclaredStays, PTL
=============================================================================
