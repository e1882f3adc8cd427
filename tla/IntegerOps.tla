----------------------------- MODULE IntegerOps -----------------------------
(***************************************************************************)
(* What the encoder makes of operations on integers and indices            *)
(* (encode.cpp).  A register of them holds a bit vector expression, and so *)
(* an operation is what the methods of Expr make of its operands.          *)
(***************************************************************************)
EXTENDS TensorOps, BitVectors

LOCAL B == INSTANCE Bitwise

IsInteger(reg) == IsScalar(reg) /\ IsBits(ScalarOf(reg))
Integer(e) == Scalar(e)

Width(n) == CHOOSE w \in 0..n : 2^w = n

-----------------------------------------------------------------------------
(* Shifts.  By the width and more nothing of the operand is left.          *)

Power(b) == IF b.val < Width(b.n) THEN 2^b.val ELSE b.n

\* No shift, or of nothing.
IsUnshifted(a, b) == IF IsUInt(b) THEN b.val = 0 ELSE IsUInt(a) /\ a.val = 0
AreNumerals(a, b) == IsUInt(a) /\ IsUInt(b) /\ b.val < Width(Word)

Shl(a, b) ==
  IF AreNumerals(a, b) THEN MkBV(a.val * 2^b.val, b.n)
  ELSE IF IsUnshifted(a, b) THEN a
  ELSE BV("bvshl", a.n, <<a, b>>, (a.val * Power(b)) % a.n)
Lshr(a, b) ==
  IF AreNumerals(a, b) THEN MkBV(a.val \div 2^b.val, b.n)
  ELSE IF IsUnshifted(a, b) THEN a
  ELSE BV("bvlshr", a.n, <<a, b>>, a.val \div Power(b))
Ashr(a, b) ==
  IF IsUnshifted(a, b) THEN a
  ELSE BV("bvashr", a.n, <<a, b>>, (Signed(a.val, a.n) \div Power(b)) % a.n)

Xor(a, b) == BV("bvxor", a.n, <<a, b>>, B!^^(a.val, b.val))

-----------------------------------------------------------------------------
(* Operations. *)

BinaryExpr(op, a, b) ==
  CASE op = "arith.addi"  -> Plus(a, b)
    [] op = "arith.subi"  -> Minus(a, b)
    [] op = "arith.muli"  -> Times(a, b)
    [] op = "arith.xori"  -> Xor(a, b)
    [] op = "arith.shli"  -> Shl(a, b)
    [] op = "arith.shrsi" -> Ashr(a, b)
    [] op = "arith.shrui" -> Lshr(a, b)

EncodeInteger(o, regs) ==
  Result(TRUE, Integer(BinaryExpr(o.op, ScalarOf(regs[1]), ScalarOf(regs[2]))))

EncodeShift(o, regs) ==
  LET a == ScalarOf(regs[1])
      amount == ScalarOf(regs[2])
      bound == MkBV(Width(amount.n), amount.n)
  IN  Result(Ult(amount, bound).val = 1, Integer(BinaryExpr(o.op, a, amount)))

\* p: the predicate, its number in mlir::arith::CmpIPredicate.
Predicates == <<"eq", "ne", "slt", "sle", "sgt", "sge", "ult", "ule", "ugt", "uge">>
CmpI(pred, a, b) ==
  CASE pred = "eq"  -> Eq(a, b)
    [] pred = "ne"  -> Not(Eq(a, b))
    [] pred = "slt" -> Slt(a, b)
    [] pred = "sle" -> Sle(a, b)
    [] pred = "sgt" -> Slt(b, a)
    [] pred = "sge" -> Sle(b, a)
    [] pred = "ult" -> Ult(a, b)
    [] pred = "ule" -> Ule(a, b)
    [] pred = "ugt" -> Ult(b, a)
    [] pred = "uge" -> Ule(b, a)
EncodeCmpI(o, regs) ==
  Result(TRUE, Integer(ToOneBitBV(CmpI(Predicates[o.p[1][1] + 1], ScalarOf(regs[1]), ScalarOf(regs[2])))))

\* p: the number and the number of values of its type.
EncodeInt(o) == Result(TRUE, Integer(MkBV(o.p[1][1], o.p[2][1])))

\* p: the number of values of the resulting type.
EncodeResize(o, regs) ==
  LET e == ScalarOf(regs[1])
      n == o.p[1][1]
  IN  Result(TRUE, Integer(CASE o.op = "arith.extui"  -> ZExt(e, n)
                             [] o.op = "arith.extsi"  -> SExt(e, n)
                             [] o.op = "arith.trunci" -> Trunc(e, n)))

EncodeIndexCast(o, regs) ==
  LET e == ScalarOf(regs[1])
      n == o.p[1][1]
  IN  Result(TRUE, Integer(IF e.n > n THEN Trunc(e, n) ELSE IF e.n < n THEN SExt(e, n) ELSE e))

EncodeAbsI(o, regs) == Result(TRUE, Integer(Abs(ScalarOf(regs[1]))))

EncodeIntSelect(o, regs) ==
  Result(TRUE, Integer(Ite(Eq(ScalarOf(regs[1]), MkBV(1, 2)), ScalarOf(regs[2]), ScalarOf(regs[3]))))
=============================================================================
