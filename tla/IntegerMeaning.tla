--------------------------- MODULE IntegerMeaning ---------------------------
(***************************************************************************)
(* What operations on integers mean: two's complement arithmetic on        *)
(* numbers, from the language of the operations and not from how they are  *)
(* encoded.  A value of a type with n values is a numeral.                 *)
(***************************************************************************)
EXTENDS Terms, Bitwise

\* As a number with a sign; without it is a.val.
SignedValue(a) == IF 2 * a.val >= a.n THEN a.val - a.n ELSE a.val
Bit(b) == MkBV(IF b THEN 1 ELSE 0, 2)

\* Shifts are by less than the width.
IsShift(op) == op \in {"arith.shli", "arith.shrsi", "arith.shrui"}
InWidth(a, b) == \E w \in 0..a.n : 2^w = a.n /\ b.val < w

Computed(op, a, b) ==
  CASE op = "arith.addi"  -> SignedValue(a) + SignedValue(b)
    [] op = "arith.subi"  -> SignedValue(a) - SignedValue(b)
    [] op = "arith.muli"  -> SignedValue(a) * SignedValue(b)
    [] op = "arith.xori"  -> a.val ^^ b.val
    [] op = "arith.shli"  -> a.val * 2^b.val
    [] op = "arith.shrsi" -> SignedValue(a) \div 2^b.val
    [] op = "arith.shrui" -> a.val \div 2^b.val

Compared(pred, a, b) ==
  CASE pred = 0 -> a.val = b.val
    [] pred = 1 -> a.val # b.val
    [] pred = 2 -> SignedValue(a) < SignedValue(b)
    [] pred = 3 -> SignedValue(a) <= SignedValue(b)
    [] pred = 4 -> SignedValue(a) > SignedValue(b)
    [] pred = 5 -> SignedValue(a) >= SignedValue(b)
    [] pred = 6 -> a.val < b.val
    [] pred = 7 -> a.val <= b.val
    [] pred = 8 -> a.val > b.val
    [] pred = 9 -> a.val >= b.val

IntegerOperations ==
  {"arith.addi", "arith.subi", "arith.muli", "arith.xori", "arith.shli", "arith.shrsi", "arith.shrui",
   "arith.cmpi", "arith.constant", "arith.extui", "arith.extsi", "arith.trunci", "arith.index_cast",
   "math.absi"}

IntegerDefined(o, args) == IsShift(o.op) => InWidth(args[1], args[2])
IntegerValue(o, args) ==
  LET a == args[1]
      n == o.p[1][1]
  IN  CASE o.op = "arith.cmpi"       -> Bit(Compared(n, a, args[2]))
        [] o.op = "arith.constant"   -> MkBV(n, o.p[2][1])
        [] o.op = "arith.extui"      -> MkBV(a.val, n)
        [] o.op \in {"arith.extsi", "arith.trunci", "arith.index_cast"} -> MkBV(SignedValue(a), n)
        [] o.op = "math.absi"        -> MkBV(IF SignedValue(a) < 0 THEN -SignedValue(a) ELSE a.val, a.n)
        [] OTHER                     -> MkBV(Computed(o.op, a, args[2]), a.n)
=============================================================================
