------------------------------ MODULE FpProps -------------------------------
(***************************************************************************)
(* What the encoding of arithmetic may and must promise, against IEEE 754  *)
(* on a small set of numbers: magnitude m stands for 2^(m - One), 0 for    *)
(* zero.                                                                   *)
(***************************************************************************)
EXTENDS FpArith

(***************************************************************************)
(* The values of a function at the operands as they come and swapped; for  *)
(* mul and div only the magnitudes matter.                                 *)
(***************************************************************************)
Meaning == {m \in Codes(E) \X Codes(E) : x = y => m[1] = m[2]}

Value(op, m) ==
  CASE op = "add" -> Add(E, x, y, m[1], m[2])
    [] op = "mul" -> Mul(E, One, x, y, m[1].mag, m[2].mag)
    [] op = "div" -> Div(E, One, x, y, m[1].mag)

(***************************************************************************)
(* IEEE 754 on powers of two, rounding towards zero, and to infinity from  *)
(* the next power of two after the largest on.                             *)
(***************************************************************************)
Size(m) == IF m = 0 THEN 0 ELSE 2^(m - 1)
Number(f) == IF f.sign = 0 THEN Size(f.mag) ELSE -Size(f.mag)

Rounded(size) ==
  IF size >= 2^MaxMag(E) THEN InfMag(E)
  ELSE CHOOSE m \in 0..MaxMag(E) : Size(m) <= size /\ size < Size(m + 1)

Exponent(m) == IF m < 1 THEN 0 ELSE IF m > MaxMag(E) THEN InfMag(E) ELSE m

SignOf(f, g) == IF f.sign = g.sign THEN 0 ELSE 1

Invalid(op) ==
  \/ IsNan(E, x) \/ IsNan(E, y)
  \/ (op = "add" /\ IsInf(E, x) /\ IsInf(E, y) /\ x.sign # y.sign)
  \/ (op = "mul" /\ {x.mag, y.mag} = {0, InfMag(E)})
  \/ (op = "div" /\ x.mag = y.mag /\ x.mag \in {0, InfMag(E)})

Sum ==
  LET sum == Number(x) + Number(y)
  IN  IF IsInf(E, x) \/ IsInf(E, y) THEN IF IsInf(E, x) THEN x ELSE y
      ELSE CASE sum > 0 -> Fp(0, Rounded(sum))
             [] sum < 0 -> Fp(1, Rounded(-sum))
             [] sum = 0 -> Zero(IF x.sign = 1 /\ y.sign = 1 THEN 1 ELSE 0)

Product ==
  Fp(SignOf(x, y),
     CASE IsInf(E, x) \/ IsInf(E, y) -> InfMag(E)
       [] IsZero(x) \/ IsZero(y)     -> 0
       [] OTHER                      -> Exponent(x.mag + y.mag - One))

Quotient ==
  Fp(SignOf(x, y),
     CASE IsInf(E, x) \/ IsZero(y) -> InfMag(E)
       [] IsZero(x) \/ IsInf(E, y) -> 0
       [] OTHER                    -> Exponent(x.mag - y.mag + One))

Real(op) ==
  IF Invalid(op) THEN Nan(E)
  ELSE CASE op = "add" -> Sum [] op = "mul" -> Product [] op = "div" -> Quotient

\* Order of the numbers; a zero has no sign in it.
RealCmp(pred) ==
  IF IsNan(E, x) \/ IsNan(E, y) THEN pred \in Unordered
  ELSE CASE pred \in {"oeq", "ueq"} -> Number(x) = Number(y)
         [] pred \in {"one", "une"} -> Number(x) # Number(y)
         [] pred \in {"ole", "ule"} -> Number(x) <= Number(y)
         [] pred \in {"olt", "ult"} -> Number(x) < Number(y)
         [] pred \in {"oge", "uge"} -> Number(x) >= Number(y)
         [] pred \in {"ogt", "ugt"} -> Number(x) > Number(y)
         [] pred = "ord" -> TRUE
         [] pred = "uno" -> FALSE

-----------------------------------------------------------------------------
Fns == {t.fn : t \in terms}
Ops == {t.op : t \in terms}

\* Some meaning of the uninterpreted functions makes every operation encoded
\* so far an IEEE operation: what is verified under all meanings is true of
\* the real one (add, mul and div; "use fp_div for abstract representation").
AdmitsIEEE ==
  \A fn \in Fns : \E m \in Meaning :
    \A t \in terms : t.fn = fn => Value(t.op, m) = Real(t.op)

\* The same for a function that does not both multiply and divide.
AdmitsIEEEApart == ~ {"mul", "div"} \subseteq Ops => AdmitsIEEE

\* The operands for which IEEE leaves nothing to rounding.
Special(f) == IsNan(E, f) \/ IsInf(E, f) \/ IsZero(f) \/ f.mag = One

\* Under every meaning NaN, infinities, zeros, the identities and x / x have
\* their IEEE results: the facts that algebraic rewrites rely on.  A sum has
\* -0.0 as its identity, a quotient has it on the right.
SpecialsAreForced ==
  \A m \in Meaning :
    /\ \/ IsNan(E, x) \/ IsNan(E, y) \/ IsInf(E, x) \/ IsInf(E, y)
       \/ x = Zero(1) \/ y = Zero(1)
       \/ (x.mag = y.mag /\ x.sign # y.sign)
       => Value("add", m) = Real("add")
    /\ Special(x) \/ Special(y) => Value("mul", m) = Real("mul")
    /\ Special(y) \/ (Special(x) /\ x.mag # One) \/ x.mag = y.mag
       => Value("div", m) = Real("div")

\* Under every meaning sums and products commute.
Commutes ==
  \A m \in Meaning :
    /\ Value("add", m) = Add(E, y, x, m[2], m[1])
    /\ Value("mul", m) = Mul(E, One, y, x, m[2].mag, m[1].mag)

\* Under every meaning only operands that IEEE calls invalid yield a NaN, and
\* results have the sign that IEEE gives them, a sum unless it is zero.
NansAndSigns ==
  \A m \in Meaning : \A op \in {"add", "mul", "div"} :
    /\ IsNan(E, Value(op, m)) <=> IsNan(E, Real(op))
    /\ op # "add" \/ ~IsZero(Real(op)) => Value(op, m).sign = Real(op).sign

\* Comparisons are those of IEEE, except that the zeros of both signs are
\* ordered (cmp).
CmpIsIEEE ==
  ~ (IsZero(x) /\ IsZero(y) /\ x # y) =>
    \A pred \in Predicate : Cmp(E, pred, x, y) = RealCmp(pred)
=============================================================================
