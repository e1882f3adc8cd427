---------------------------- MODULE FpConstants -----------------------------
(***************************************************************************)
(* The floating point constants of a function: how the analysis collects   *)
(* them, how setAbstraction sizes the encodings of f32 and f64 for them,   *)
(* and which abstract values the preconditions leave to each.              *)
(*                                                                         *)
(* A number is a natural: an f64 is any of 0..DoubleMax, an f32 a multiple *)
(* of Gap up to FloatMax.  Sets of constants hold no negative numbers, as  *)
(* in the code, where a sign is one bit of its own.                        *)
(***************************************************************************)
EXTENDS FpEncoding, FiniteSetsExt

CONSTANTS
  Gap,            \* f64 numbers from one f32 number to the next
  One,            \* 1.0
  FloatMax,       \* the largest f32 and f64 numbers
  DoubleMax,
  MaxConstants,   \* bound: constants in a function
  NonConsts       \* bound: counts of numbers that are not constants

ASSUME NumbersOK ==
  /\ {Gap, One, FloatMax, DoubleMax, MaxConstants} \subseteq Nat \ {0}
  /\ NonConsts \subseteq Nat
  /\ Gap % 2 = 0 /\ One % Gap = 0
  /\ FloatMax % (2 * Gap) = Gap   \* its last bit is set, as 0x7f7fffff has it
  /\ One < FloatMax /\ FloatMax + Gap < DoubleMax

Infinity == DoubleMax + 1
Doubles  == 0..DoubleMax
Floats   == {Gap * k : k \in 0..(FloatMax \div Gap)}

NoEnc == [limit |-> 0, small |-> 0, prec |-> 0]

VARIABLES
  F32, F64,                     \* constSet of the results of both analyses
  hasInfOrNaN,                  \* of F32 or of F64
  f32NonConsts, f64NonConsts,
  precise,                      \* abstraction.fpCast
  floatEnc, doubleEnc

vars == <<F32, F64, hasInfOrNaN, f32NonConsts, f64NonConsts, precise, floatEnc, doubleEnc>>

Init ==
  /\ F32 = {} /\ F64 = {} /\ hasInfOrNaN = FALSE
  /\ f32NonConsts \in NonConsts /\ f64NonConsts \in NonConsts
  /\ precise \in BOOLEAN
  /\ floatEnc = NoEnc /\ doubleEnc = NoEnc

-----------------------------------------------------------------------------
(***************************************************************************)
(* APFloat::convert from f64 to f32: towards zero, away from zero, and to  *)
(* nearest with ties to even.                                              *)
(***************************************************************************)
Floor(c) == Max({v \in Floats : v <= c})
Ceil(c)  == Min({v \in Floats \cup {Infinity} : v >= c})

Nearest(c) ==
  LET half == Gap \div 2
  IN  IF c - Floor(c) < half \/ (c - Floor(c) = half /\ Floor(c) % (2 * Gap) = 0)
      THEN Floor(c)
      ELSE IF Floor(c) = FloatMax THEN Infinity ELSE Floor(c) + Gap

Overflows(c) == Nearest(c) = Infinity

\* A variant that keeps only the number below.
AnalyzeDouble_NoCeil(c) ==
  /\ F32' = F32 \cup IF Overflows(c) THEN {} ELSE {Floor(c)}
  /\ F64' = F64 \cup {c} \cup IF Overflows(c) THEN {} ELSE {Floor(c)}
  /\ hasInfOrNaN' = (hasInfOrNaN \/ Overflows(c))
  /\ UNCHANGED <<f32NonConsts, f64NonConsts, precise, floatEnc, doubleEnc>>

\* analyzeAPFloat of an f64: also the f32 numbers that it lies between.
AnalyzeDouble(c) ==
  LET between == IF Overflows(c) THEN {} ELSE {Floor(c), Ceil(c)}
  IN  /\ F32' = F32 \cup between
      /\ F64' = F64 \cup between \cup {c}
      /\ hasInfOrNaN' = (hasInfOrNaN \/ Overflows(c))
      /\ UNCHANGED <<f32NonConsts, f64NonConsts, precise, floatEnc, doubleEnc>>

\* analyzeAPFloat of an f32.
AnalyzeFloat(c) ==
  /\ F32' = F32 \cup {c} /\ F64' = F64 \cup {c}
  /\ UNCHANGED <<hasInfOrNaN, f32NonConsts, f64NonConsts, precise, floatEnc, doubleEnc>>

\* analyzeAPFloat of a NaN or an infinity.
AnalyzeSpecial ==
  /\ hasInfOrNaN' = TRUE
  /\ UNCHANGED <<F32, F64, f32NonConsts, f64NonConsts, precise, floatEnc, doubleEnc>>

-----------------------------------------------------------------------------
(***************************************************************************)
(* setAbstraction.                                                         *)
(***************************************************************************)
log2_ceil(n) == CHOOSE k \in 0..n : 2^k >= n /\ (k = 0 \/ 2^(k - 1) < n)

\* Both enumerate non-negative numbers in increasing order.
FloatConsts  == F32 \cup {0, One, FloatMax}
DoubleConsts == F64 \cup {0, One, DoubleMax}

\* getCastingInfo: constants that round to infinity, and those that lose bits.
Exact   == DoubleConsts \cap (Floats \cup {Infinity})
Beyond  == {c \in DoubleConsts \ Exact : Overflows(c)}
Inexact == (DoubleConsts \ Exact) \ Beyond

\* The largest number of constants that one truncation maps to one number.
MaxInexact == Max({0} \cup {Cardinality({c \in Inexact : Floor(c) = v}) : v \in Floats})

\* A variant that reserves no value for NaN and infinity.
FloatBits_NoReserve == Min({31, log2_ceil(f32NonConsts + Cardinality(FloatConsts))})

FloatBits == Min({31, log2_ceil(f32NonConsts + Cardinality(FloatConsts) + 2)})

DoubleBits ==
  Max({log2_ceil(f64NonConsts + Cardinality(DoubleConsts) + 2), FloatBits})

MinPrecBits == Max({1, log2_ceil(MaxInexact), log2_ceil(f64NonConsts)})

MinLimitBits ==
  LET needed == Max({log2_ceil(Cardinality(Beyond)), log2_ceil(f64NonConsts)})
  IN  IF needed > FloatBits + MinPrecBits
      THEN needed - FloatBits - MinPrecBits + 1
      ELSE 1

PrecBits  == Min({MinPrecBits, 29})
LimitBits32 == Min({MinLimitBits, 32 - PrecBits})

FpIsUsed ==
  f32NonConsts > 0 \/ f64NonConsts > 0 \/ hasInfOrNaN \/ F32 \cup F64 # {}

SetAbstraction ==
  /\ floatEnc' = IF FpIsUsed THEN Plain(FloatBits) ELSE NoEnc
  /\ doubleEnc' = IF ~FpIsUsed THEN NoEnc
                  ELSE IF precise
                  THEN [limit |-> LimitBits32, small |-> FloatBits, prec |-> PrecBits]
                  ELSE Plain(DoubleBits)
  /\ UNCHANGED <<F32, F64, hasInfOrNaN, f32NonConsts, f64NonConsts, precise>>

Next ==
  /\ floatEnc = NoEnc
  /\ \/ /\ Cardinality(F64) < MaxConstants
        /\ \/ \E c \in Doubles : AnalyzeDouble(c)
           \/ \E c \in Floats : AnalyzeFloat(c)
           \/ AnalyzeSpecial
     \/ SetAbstraction

Spec == Init /\ [][Next]_vars

-----------------------------------------------------------------------------
(***************************************************************************)
(* addConstants gives constants names: every f32 constant but 0.0 and the  *)
(* largest has a variable fp_const_sval_<i>_, and so has, in a precise     *)
(* encoding, every f64 constant that is an f32 number.  Names are shared.  *)
(***************************************************************************)
Named(consts, largest) == consts \ {0, largest}

\* The f64 constants up to c that are f32 numbers.
ValueId(c) == Cardinality({v \in Named(Exact, DoubleMax) : v <= c})

FloatId(c) == Cardinality({v \in Named(FloatConsts, FloatMax) : v <= c})

\* The next precision bits, prec_offset_map, when c is added.
PrecOffset(c) == Cardinality({b \in Inexact : Floor(b) = Floor(c) /\ b <= c})

\* A valuation of the variables: magnitudes of fp_const_sval_<i>_ and, for each
\* f64 constant, the magnitude of its value.  It has the shape of the values.
Shape(sval, mag) ==
  \A c \in Named(DoubleConsts, DoubleMax) :
    IF ~precise THEN mag[c] \in Mags(doubleEnc)
    ELSE /\ mag[c] \in Mags(doubleEnc)
         /\ c \in Exact \cup Inexact =>
              /\ LimitBits(doubleEnc, mag[c]) = 0
              /\ TruncatedBits(doubleEnc, mag[c]) = sval[ValueId(c)]
              /\ c \in Exact <=> PrecisionBits(doubleEnc, mag[c]) = 0
         /\ c \in Beyond =>
              \/ LimitBits(doubleEnc, mag[c]) # 0
              \/ TruncatedBits(doubleEnc, mag[c]) >= NanMag(floatEnc)

\* getFpConstantPrecondition: in the order of the numbers, above zero, below the
\* largest.
FpConstantPrecondition(sval, mag) ==
  /\ \A c \in Named(FloatConsts, FloatMax) : sval[FloatId(c)] \in 1..(MaxMag(floatEnc) - 1)
  /\ \A b, c \in Named(FloatConsts, FloatMax) : b < c => sval[FloatId(b)] < sval[FloatId(c)]
  /\ \A c \in Named(DoubleConsts, DoubleMax) : mag[c] \in 1..(MaxMag(doubleEnc) - 1)
  /\ \A b, c \in Named(DoubleConsts, DoubleMax) : b < c => mag[b] < mag[c]

\* getFpTruncatePrecondition: no value lies between those of f32 neighbours.  Its
\* other part, the direction of rounding, is RoundsUp.
FpTruncatePrecondition(sval) ==
  \A c \in Named(Exact, DoubleMax) :
    (c = Gap \/ c - Gap \in Exact) => sval[ValueId(c)] = sval[ValueId(c) - 1] + 1

RoundsUp(c) == Floor(c) # Nearest(c)
=============================================================================
