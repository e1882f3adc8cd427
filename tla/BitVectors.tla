------------------------------ MODULE BitVectors ------------------------------
(***************************************************************************)
(* Bit vector and Boolean expressions (class Expr, smt.cpp).  The methods  *)
(* of Expr look at how their operands are built and often return something *)
(* simpler than the solver's term; these shortcuts are what is modelled.   *)
(*                                                                         *)
(* An expression is a term together with its value under the model at hand *)
(* (val, which no shortcut of an unknown may read) and the number of       *)
(* values of its sort: n = 2^width for bit vectors, 0 for Booleans, whose  *)
(* values are 0 and 1.  Widths are at most 64.                             *)
(***************************************************************************)
EXTENDS Terms

CONSTANT Word   \* 2^64, the number of values of uint64_t

ASSUME WordOK == Word \in Nat \ {0}

Truth(b) == IF b THEN 1 ELSE 0

Bool(b)   == BV("bool", 0, <<>>, Truth(b))
IntVar(id, n, v) == BV("var", n, <<Number(id)>>, v)

IsUInt(e) == e.op = "bv"
\* What a numeral has room for in int64_t, not its value as a signed number.
IsInt(e)  == IsUInt(e) /\ 2 * e.val < Word
IsTrue(e)  == e.op = "bool" /\ e.val = 1
IsFalse(e) == e.op = "bool" /\ e.val = 0

IsConcat(e) == e.op = "concat"
High(e) == e.args[1]
Low(e)  == e.args[2]

Signed(v, n) == IF 2 * v < n THEN v ELSE v - n

-----------------------------------------------------------------------------
(* Bits. *)

ConcatBits(h, l) == BV("concat", h.n * l.n, <<h, l>>, h.val * l.n + l.val)

\* Bits from at = 2^lbit on, of which there are size = 2^(hbit - lbit + 1).
Extract(e, size, at) ==
  IF IsUInt(e) THEN MkBV((e.val \div at) % (size * at), size)
  ELSE IF IsConcat(e) /\ at = 1 /\ size = Low(e).n THEN Low(e)
  ELSE IF IsConcat(e) /\ at = Low(e).n /\ size * at = e.n THEN High(e)
  ELSE IF e.op = "zero_extend" /\ at = 1 /\ size = e.args[1].n THEN e.args[1]
  ELSE BV("extract", size, <<e, Number(at)>>, (e.val \div at) % size)

ZExt(e, n) == IF IsUInt(e) THEN MkBV(e.val, n) ELSE BV("zero_extend", n, <<e>>, e.val)
SExt(e, n) == BV("sign_extend", n, <<e>>, Signed(e.val, e.n) % n)
Trunc(e, n) == Extract(e, n, 1)

\* Clears the sign bit.
Abs(e) == ConcatBits(MkBV(0, 2), Extract(e, e.n \div 2, 1))

-----------------------------------------------------------------------------
(* Division.  The divisor is a power of two exactly if it divides n. *)

UDivValue(a, b, n) == IF b = 0 THEN n - 1 ELSE a \div b
URemValue(a, b)    == IF b = 0 THEN a ELSE a % b

URemExpr(e, d) ==
  IF IsUInt(d) /\ d.val = 1 THEN MkBV(0, d.n)
  ELSE IF IsUInt(d) /\ d.val > 0 /\ e.n % d.val = 0
       THEN ConcatBits(MkBV(0, e.n \div d.val), Extract(e, d.val, 1))
  ELSE IF IsUInt(e) /\ IsUInt(d) /\ d.val # 0 THEN MkBV(e.val % d.val, d.n)
  ELSE BV("bvurem", e.n, <<e, d>>, URemValue(e.val, d.val))

UDivExpr(e, d) ==
  IF IsUInt(d) /\ d.val = 1 THEN e
  ELSE IF IsUInt(d) /\ d.val > 0 /\ e.n % d.val = 0
       THEN ConcatBits(MkBV(0, d.val), Extract(e, e.n \div d.val, d.val))
  ELSE IF IsUInt(e) /\ IsUInt(d) /\ d.val # 0 THEN MkBV(e.val \div d.val, d.n)
  ELSE BV("bvudiv", e.n, <<e, d>>, UDivValue(e.val, d.val, e.n))

-----------------------------------------------------------------------------
(* Comparisons.  A comparison of concatenations may be one of their parts; *)
(* the pair of operands is narrowed until no rule applies.                 *)

\* (bvurem _, d) < b where d <= b.
IsRemainderBelow(a, b) ==
  a.op = "bvurem" /\ IsUInt(a.args[2]) /\ IsUInt(b) /\ a.args[2].val <= b.val

NarrowUlt(a, b) ==
  IF (IsUInt(a) /\ IsUInt(b)) \/ IsRemainderBelow(a, b) THEN <<a, b>>
  ELSE IF IsConcat(a) /\ IsConcat(b) /\ High(a) = High(b) THEN <<Low(a), Low(b)>>
  ELSE IF IsConcat(a) /\ IsUInt(High(a)) /\ IsUInt(b) /\ b.val \div Low(a).n = High(a).val
       THEN <<Low(a), MkBV(b.val - High(a).val * Low(a).n, Low(a).n)>>
  ELSE IF IsConcat(b) /\ IsUInt(a) /\ IsUInt(High(b)) /\ a.val \div Low(b).n = High(b).val
       THEN <<MkBV(a.val - High(b).val * Low(b).n, Low(b).n), Low(b)>>
  ELSE <<a, b>>

\* Operands that no rule makes narrower.
UltExpr(a, b) ==
  IF IsUInt(a) /\ IsUInt(b) THEN Bool(a.val < b.val)
  ELSE IF IsRemainderBelow(a, b) THEN Bool(TRUE)
  ELSE BV("bvult", 0, <<a, b>>, Truth(a.val < b.val))

\* Unequal numerals stand for the answer false.
Unequal == <<MkBV(0, 2), MkBV(1, 2)>>

NarrowEq(a, b) ==
  IF a = b \/ (IsUInt(a) /\ IsUInt(b)) \/ ~IsConcat(a) THEN <<a, b>>
  ELSE IF IsConcat(b) /\ Low(a).n = Low(b).n /\ IsUInt(Low(a)) /\ IsUInt(Low(b))
       THEN IF Low(a).val # Low(b).val THEN Unequal ELSE <<High(a), High(b)>>
  ELSE IF IsConcat(b) /\ Low(a).n = Low(b).n /\ IsUInt(High(a)) /\ IsUInt(High(b))
       THEN IF High(a).val # High(b).val THEN Unequal ELSE <<Low(a), Low(b)>>
  ELSE IF IsUInt(High(a)) /\ IsUInt(b)
       THEN IF b.val \div Low(a).n # High(a).val THEN Unequal
            ELSE <<Low(a), MkBV(b.val - High(a).val * Low(a).n, Low(a).n)>>
  ELSE <<a, b>>

EqExpr(a, b) ==
  IF a = b THEN Bool(TRUE)
  ELSE IF IsUInt(a) /\ IsUInt(b) THEN Bool(a.val = b.val)
  ELSE BV("=", 0, <<a, b>>, Truth(a.val = b.val))

\* The pair after each round; a rule takes at least one bit off.
UltRounds(a, b) ==
  LET p[i \in 0..a.n] ==
        IF i = 0 THEN <<a, b>> ELSE LET q == p[i - 1] IN NarrowUlt(q[1], q[2])
  IN  p
EqRounds(a, b) ==
  LET p[i \in 0..a.n] ==
        IF i = 0 THEN <<a, b>> ELSE LET q == p[i - 1] IN NarrowEq(q[1], q[2])
  IN  p

Ult(a, b) == LET p == UltRounds(a, b)[a.n] IN UltExpr(p[1], p[2])
Eq(a, b)  == LET p == EqRounds(a, b)[a.n] IN EqExpr(p[1], p[2])

Ule(a, b) ==
  IF IsUInt(a) /\ IsUInt(b) THEN Bool(a.val <= b.val)
  ELSE IF IsUInt(a) /\ a.val = 0 THEN Bool(TRUE)
  ELSE BV("bvule", 0, <<a, b>>, Truth(a.val <= b.val))

\* Numerals are compared as they are read, without their sign.
Slt(a, b) ==
  IF IsInt(a) /\ IsInt(b) THEN Bool(a.val < b.val)
  ELSE BV("bvslt", 0, <<a, b>>, Truth(Signed(a.val, a.n) < Signed(b.val, b.n)))
Sle(a, b) ==
  IF IsInt(a) /\ IsInt(b) THEN Bool(a.val <= b.val)
  ELSE BV("bvsle", 0, <<a, b>>, Truth(Signed(a.val, a.n) <= Signed(b.val, b.n)))

-----------------------------------------------------------------------------
(* Logic. *)

Not(c) ==
  IF IsTrue(c) THEN Bool(FALSE) ELSE IF IsFalse(c) THEN Bool(TRUE)
  ELSE BV("not", 0, <<c>>, 1 - c.val)
And(a, b) ==
  IF IsFalse(b) \/ IsTrue(a) THEN b ELSE IF IsTrue(b) \/ IsFalse(a) THEN a
  ELSE BV("and", 0, <<a, b>>, a.val * b.val)
Or(a, b) ==
  IF IsTrue(b) \/ IsFalse(a) THEN b ELSE IF IsFalse(b) \/ IsTrue(a) THEN a
  ELSE BV("or", 0, <<a, b>>, IF a.val = 1 THEN 1 ELSE b.val)

Ite(c, t, e) ==
  IF IsTrue(c) THEN t ELSE IF IsFalse(c) THEN e
  ELSE IF IsTrue(t) THEN Or(c, e) ELSE IF IsFalse(e) THEN And(c, t)
  ELSE IF c.op = "=" /\ {c.args[1], c.args[2]} = {t, e} THEN e
  ELSE BV("ite", t.n, <<c, t, e>>, IF c.val = 1 THEN t.val ELSE e.val)

ToOneBitBV(c) == Ite(c, MkBV(1, 2), MkBV(0, 2))

-----------------------------------------------------------------------------
(* Arithmetic. *)

\* ((a / b) * b) + (a % b), for b that is known not to be zero.
IsDivisionAgain(x, r) ==
  /\ x.op = "bvmul" /\ r.op = "bvurem"
  /\ LET i == IF x.args[1].op = "bvudiv" THEN 1 ELSE 2
         d == x.args[i].args[2]
     IN  /\ x.args[i].op = "bvudiv" /\ x.args[3 - i] = d /\ r.args = x.args[i].args
         /\ IsTrue(Not(Eq(d, MkBV(0, d.n))))
Dividend(r) == r.args[1]

Plus(a, b) ==
  IF IsUInt(a) /\ IsUInt(b) THEN MkBV(a.val + b.val, b.n)
  ELSE IF IsUInt(a) /\ a.val = 0 THEN b
  ELSE IF IsUInt(b) /\ b.val = 0 THEN a
  ELSE IF IsDivisionAgain(a, b) THEN Dividend(b)
  ELSE BV("bvadd", a.n, <<a, b>>, (a.val + b.val) % a.n)

Minus(a, b) ==
  IF IsUInt(a) /\ IsUInt(b) THEN MkBV(a.val - b.val, b.n)
  ELSE IF IsUInt(b) /\ b.val = 0 THEN a
  ELSE BV("bvsub", a.n, <<a, b>>, (a.val - b.val) % a.n)

Times(a, b) ==
  IF IsUInt(a) /\ IsUInt(b) THEN MkBV(a.val * b.val, b.n)
  ELSE IF (IsUInt(b) /\ b.val = 1) \/ (IsUInt(a) /\ a.val = 0) THEN a
  ELSE IF (IsUInt(b) /\ b.val = 0) \/ (IsUInt(a) /\ a.val = 1) THEN b
  ELSE BV("bvmul", a.n, <<a, b>>, (a.val * b.val) % a.n)

BVNot(e) == BV("bvnot", e.n, <<e>>, e.n - 1 - e.val)
=============================================================================
