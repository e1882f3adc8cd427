-------------------------- MODULE FpConstantsProps --------------------------
(***************************************************************************)
(* What the abstraction of constants must leave possible.  A query asserts *)
(* the preconditions of getFpConstantPrecondition and                      *)
(* getFpTruncatePrecondition; if no valuation that is true of the real     *)
(* numbers satisfies them, every answer of the solver is vacuous.          *)
(***************************************************************************)
EXTENDS FpConstants

\* Far fewer constants than f32 has numbers: with all of them, none is left for
\* the valuation below to set apart those near zero and those near the largest.
ASSUME FewConstants ==
  MaxConstants + 2 < FloatMax \div Gap /\ MaxConstants + 6 <= 2^30

Encoded == floatEnc # NoEnc

\* No constant is an infinity ("assert(!fp.isInfinity() && ..." in
\* getFpConstantPrecondition).
InfinityIsNoConstant == Infinity \notin FloatConsts

\* No f64 constant runs out of precision bits ("assert(prec < (1ull <<
\* value_bit_info.prec_bitwidth))" in addConstants).
PrecisionFits ==
  Encoded /\ precise => \A c \in Inexact : PrecOffset(c) < 2^doubleEnc.prec

AssertionsHold == InfinityIsNoConstant /\ PrecisionFits

-----------------------------------------------------------------------------
(***************************************************************************)
(* The real valuation: f32 constants are numbered from below, but those     *)
(* with no other f32 number between them and the largest from above; f64   *)
(* constants follow the f32 number they are cut off to, and those beyond   *)
(* f32 are right below the largest.                                        *)
(***************************************************************************)
FloatMag(v) ==
  IF {w \in Floats : w >= v} \subseteq Exact
  THEN MaxMag(floatEnc) - (FloatMax - v) \div Gap
  ELSE ValueId(v)

Sval ==
  [i \in 0..Cardinality(Named(Exact, DoubleMax)) |->
     IF i = 0 THEN 0
     ELSE FloatMag(CHOOSE v \in Named(Exact, DoubleMax) : ValueId(v) = i)]

\* The magnitude of an f64 constant in an encoding of its own, and in one that
\* f32 is cut out of.
RankedMag(c) ==
  IF c = DoubleMax THEN MaxMag(doubleEnc) ELSE Cardinality({b \in DoubleConsts : b < c})

PreciseMag(c) ==
  CASE c \in Beyond  -> MaxMag(doubleEnc) - Cardinality({b \in Beyond : b > c})
    [] c \in Exact   -> Sval[ValueId(c)] * 2^doubleEnc.prec
    [] c \in Inexact -> Sval[ValueId(c)] * 2^doubleEnc.prec + PrecOffset(c)

Mag == [c \in DoubleConsts |-> IF precise THEN PreciseMag(c) ELSE RankedMag(c)]

\* AbsFpEncoding::constant of f32.
FloatCode(v) ==
  CASE v = 0        -> Zero(0)
    [] v = FloatMax -> Fp(0, MaxMag(floatEnc))
    [] v = Infinity -> Inf(floatEnc, 0)
    [] OTHER        -> Fp(0, Sval[FloatId(v)])

\* Unless an assertion fails, the real valuation satisfies the preconditions of
\* getFpConstantPrecondition and getFpTruncatePrecondition, whatever the
\* constants: they are never contradictory.
ConstantsAreAdmitted ==
  Encoded /\ AssertionsHold =>
    /\ \A i \in DOMAIN Sval : Sval[i] \in Mags(floatEnc)
    /\ Shape(Sval, Mag)
    /\ FpConstantPrecondition(Sval, Mag)
    /\ precise => FpTruncatePrecondition(Sval)

\* And under it truncate and extend cast every constant to the constant that
\* IEEE 754 casts it to.
ConstantsConvert ==
  Encoded /\ AssertionsHold /\ precise =>
    /\ \A c \in DoubleConsts :
         /\ Nearest(c) \in FloatConsts \cup {Infinity}
         /\ Truncate(doubleEnc, floatEnc, Fp(0, Mag[c]), RoundsUp(c))
              = FloatCode(Nearest(c))
    /\ \A v \in FloatConsts \ {FloatMax} :
         Extend(floatEnc, doubleEnc, FloatCode(v)) = Fp(0, Mag[v])

\* Truncation undoes extension whatever direction rounding takes; extension
\* keeps the order, NaN and the infinities (extend, truncate).
CastsRoundTrip ==
  Encoded /\ precise =>
    \A f \in Codes(floatEnc) :
      LET d == Extend(floatEnc, doubleEnc, f)
      IN  /\ \A up \in BOOLEAN : Truncate(doubleEnc, floatEnc, d, up) = Canonical(floatEnc, f)
          /\ IsNan(doubleEnc, d) <=> IsNan(floatEnc, f)
          /\ IsInf(doubleEnc, d) <=> IsInf(floatEnc, f)
          /\ \A g \in Codes(floatEnc) :
               CmpLt(f, g) /\ ~IsNan(floatEnc, f) /\ ~IsNan(floatEnc, g) =>
                 CmpLt(d, Extend(floatEnc, doubleEnc, g))
=============================================================================
