----------------------------- MODULE FpEncoding -----------------------------
(***************************************************************************)
(* The abstract floating point numbers of AbsFpEncoding (abstractops.cpp): *)
(* a sign bit and a magnitude, a bit vector whose order is the order of    *)
(* the numbers it stands for.  Arithmetic and casts decide what IEEE 754   *)
(* decides for special operands and leave the rest to uninterpreted        *)
(* functions, whose values are parameters here.                            *)
(***************************************************************************)
EXTENDS Integers

\* ValueBitInfo: from the most significant bits, those that are nonzero only
\* in numbers the smaller format cannot hold, those that make up the number in
\* the smaller format, and those that a truncation drops.
Format == [limit : Nat, small : Nat, prec : Nat]

\* The format of an encoding that no other one is truncated to or from.
Plain(bits) == [limit |-> 0, small |-> bits, prec |-> 0]

ValueBits(e) == e.limit + e.small + e.prec
Mags(e)      == 0..(2^ValueBits(e) - 1)
Codes(e)     == [sign : {0, 1}, mag : Mags(e)]
Fp(s, m)     == [sign |-> s, mag |-> m]

NanMag(e) == 2^ValueBits(e) - 1
InfMag(e) == 2^ValueBits(e) - 2
MaxMag(e) == InfMag(e) - 1

Nan(e)    == Fp(0, NanMag(e))
Inf(e, s) == Fp(s, InfMag(e))
Zero(s)   == Fp(s, 0)

\* Modulo the sign bit there is one NaN.
IsNan(e, f)  == f.mag = NanMag(e)
IsInf(e, f)  == f.mag = InfMag(e)
IsZero(f)    == f.mag = 0
Canonical(e, f) == IF IsNan(e, f) THEN Nan(e) ELSE f

-----------------------------------------------------------------------------
(***************************************************************************)
(* Arithmetic.  fn12 and fn21 are the values of the uninterpreted function *)
(* for the operands as they come and for the operands swapped; one is the  *)
(* magnitude of 1.0.                                                       *)
(***************************************************************************)

\* A variant that takes the value for the operands as they come.
Symmetric_First(e, m12, m21) == m12

\* The bitwise and of both values commutes.
Bit(m, i) == (m \div 2^i) % 2
Ands(e, m12, m21) ==
  {m \in Mags(e) : \A i \in 0..(ValueBits(e) - 1) : Bit(m, i) = Bit(m12, i) * Bit(m21, i)}
Symmetric(e, m12, m21) == CHOOSE m \in Ands(e, m12, m21) : TRUE

\* A variant that lets the uninterpreted function yield a NaN.
NotNan_Kept(e, mag, instead) == mag

NotNan(e, mag, instead) == IF mag = NanMag(e) THEN instead ELSE mag

\* A variant that takes the sign of the first operand.
SumSign_First(f1, f2) == f1.sign

SumSign(f1, f2) ==
  IF f1.sign = f2.sign \/ f1.mag > f2.mag THEN f1.sign ELSE f2.sign

Add(e, x, y, fn12, fn21) ==
  LET f1 == Canonical(e, x)
      f2 == Canonical(e, y)
      mag == NotNan(e, Symmetric(e, fn12.mag, fn21.mag), 0)
  IN  IF f1 = Zero(1) THEN f2
      ELSE IF f2 = Zero(1) \/ IsNan(e, f1) THEN f1
      ELSE IF IsNan(e, f2) THEN f2
      ELSE IF IsInf(e, f1) /\ IsInf(e, f2) /\ f1.sign # f2.sign THEN Nan(e)
      ELSE IF IsInf(e, f1) THEN f1
      ELSE IF IsInf(e, f2) THEN f2
      ELSE IF f1.sign # f2.sign /\ f1.mag = f2.mag THEN Zero(0)
      ELSE Fp(SumSign(f1, f2), mag)

\* The sign of a product or quotient; a NaN has none.
Signed(e, f1, f2, res) ==
  IF res = Nan(e) THEN Nan(e) ELSE Fp(IF f1.sign = f2.sign THEN 0 ELSE 1, res.mag)

\* Infinity times f, and f divided by zero.
InfTimes(e, f) == IF IsZero(f) THEN Nan(e) ELSE Inf(e, 0)

\* A variant without an invalid operation.
ByZero_Inf(e, f) == Inf(e, 0)

ByZero(e, f) == IF IsZero(f) THEN Nan(e) ELSE Inf(e, 0)

\* The uninterpreted functions of mul and div yield magnitudes for magnitudes.
Mul(e, one, x, y, fn12, fn21) ==
  LET f1 == Canonical(e, x)
      f2 == Canonical(e, y)
  IN  Signed(e, f1, f2,
        IF f1.mag = one THEN f2
        ELSE IF f2.mag = one \/ IsNan(e, f1) THEN f1
        ELSE IF IsNan(e, f2) THEN f2
        ELSE IF IsInf(e, f1) THEN InfTimes(e, f2)
        ELSE IF IsInf(e, f2) THEN InfTimes(e, f1)
        ELSE IF IsZero(f1) \/ IsZero(f2) THEN Zero(0)
        ELSE Fp(0, NotNan(e, Symmetric(e, fn12, fn21), one)))

Div(e, one, x, y, fn12) ==
  LET f1 == Canonical(e, x)
      f2 == Canonical(e, y)
  IN  Signed(e, f1, f2,
        IF f2.mag = one \/ IsNan(e, f1) THEN f1
        ELSE IF IsNan(e, f2) THEN f2
        ELSE IF IsInf(e, f2) THEN IF IsInf(e, f1) THEN Nan(e) ELSE Zero(0)
        ELSE IF IsInf(e, f1) THEN Inf(e, 0)
        ELSE IF IsZero(f2) THEN ByZero(e, f1)
        ELSE IF IsZero(f1) THEN Zero(0)
        ELSE IF f1.mag = f2.mag THEN Fp(0, one)
        ELSE Fp(0, NotNan(e, fn12, one)))

-----------------------------------------------------------------------------
(***************************************************************************)
(* Comparisons.                                                            *)
(***************************************************************************)
CmpEq(x, y) == x = y \/ (IsZero(x) /\ IsZero(y))

\* A variant that forgets that negative numbers are ordered the other way.
CmpLt_Magnitude(x, y) ==
  IF x.sign # y.sign THEN x.sign > y.sign ELSE x.mag < y.mag

CmpLt(x, y) ==
  IF x.sign # y.sign THEN x.sign > y.sign
  ELSE x.mag # y.mag /\ (x.mag < y.mag <=> x.sign = 0)

\* The predicates of arith.cmpf but for its constants.
Predicate == {"oeq", "one", "ole", "olt", "oge", "ogt", "ueq", "une", "ule", "ult",
              "uge", "ugt", "ord", "uno"}

Unordered == {"ueq", "une", "ule", "ult", "uge", "ugt", "uno"}

Cmp(e, pred, x, y) ==
  IF IsNan(e, x) \/ IsNan(e, y) THEN pred \in Unordered
  ELSE CASE pred \in {"oeq", "ueq"} -> CmpEq(x, y)
         [] pred \in {"one", "une"} -> ~CmpEq(x, y)
         [] pred \in {"ole", "ule"} -> CmpEq(x, y) \/ CmpLt(x, y)
         [] pred \in {"olt", "ult"} -> CmpLt(x, y)
         [] pred \in {"oge", "uge"} -> CmpEq(x, y) \/ CmpLt(y, x)
         [] pred \in {"ogt", "ugt"} -> CmpLt(y, x)
         [] pred = "ord" -> TRUE
         [] pred = "uno" -> FALSE

-----------------------------------------------------------------------------
(***************************************************************************)
(* Casts between an encoding e that has only small bits and an encoding d  *)
(* whose small bits are those of e.                                        *)
(***************************************************************************)
LimitBits(d, mag)     == mag \div 2^(d.small + d.prec)
TruncatedBits(d, mag) == (mag \div 2^d.prec) % 2^d.small
PrecisionBits(d, mag) == mag % 2^d.prec

\* A variant that leaves infinity to the general case.
Extend_NoInf(e, d, f) ==
  IF IsNan(e, f) THEN Nan(d) ELSE Fp(f.sign, f.mag * 2^d.prec)

Extend(e, d, f) ==
  IF IsNan(e, f) THEN Nan(d)
  ELSE IF IsInf(e, f) THEN Inf(d, f.sign)
  ELSE Fp(f.sign, f.mag * 2^d.prec)

\* up: the uninterpreted function that decides the direction of rounding.
Truncate(d, e, f, up) ==
  LET floor == TruncatedBits(d, f.mag)
  IN  IF IsNan(d, f) THEN Nan(e)
      ELSE IF \/ IsInf(d, f)
              \/ LimitBits(d, f.mag) # 0
              \/ floor >= InfMag(e)
           THEN Inf(e, f.sign)
      ELSE IF PrecisionBits(d, f.mag) # 0 /\ up THEN Fp(f.sign, floor + 1)
      ELSE Fp(f.sign, floor)
=============================================================================
