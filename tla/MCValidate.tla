----------------------------- MODULE MCValidate -----------------------------
(***************************************************************************)
(* Small programs and command lines for ValidateProps.                     *)
(***************************************************************************)
EXTENDS ValidateProps

ShortOp(k) == [kind |-> k, len |-> "short"]
DynOp(k)   == [kind |-> k, len |-> "dyn"]

\* A transformation of integers with one obligation of each step, all of
\* which hold under any abstraction.
Trivial ==
  [inTgt |-> TRUE, analysis |-> "ok", sig |-> "same", fp |-> FALSE,
   src |-> <<>>, tgt |-> <<>>, ub |-> {}, rets |-> <<{}>>, mems |-> <<>>,
   alwaysUB |-> FALSE]

Fp(src, tgt) == [Trivial EXCEPT !.fp = TRUE, !.src = src, !.tgt = tgt]
Int(src, tgt) == [Trivial EXCEPT !.src = src, !.tgt = tgt]

\* Functions that never reach the solver.
Rejected ==
  {[Trivial EXCEPT !.inTgt = FALSE],
   [Trivial EXCEPT !.analysis = "unsupported"],
   [Trivial EXCEPT !.sig = "argcount"],
   [Trivial EXCEPT !.sig = "argtype"],
   Int(<<ShortOp("unknown")>>, <<>>)}

\* Floating point: a dot against a sum, a cast, all the levels at once.
DotVsSum == [Fp(<<ShortOp("fpDot")>>, <<ShortOp("fpSum")>>) EXCEPT !.rets = <<{"fpDot"}>>]
DotVsAdd == [Fp(<<ShortOp("fpDot")>>, <<ShortOp("fpAdd")>>)
               EXCEPT !.rets = <<{"fpDot", "fpAddSum"}>>]
DynDots  == Fp(<<DynOp("fpDot")>>, <<DynOp("fpDot")>>)
Cast     == [Fp(<<ShortOp("fpCast")>>, <<ShortOp("fpCast")>>)
               EXCEPT !.ub = {"fpCast"}, !.rets = <<{}, {"fpCast"}>>]
WrongFp  == [Fp(<<ShortOp("fpDot"), ShortOp("fpCast")>>, <<ShortOp("fpSum")>>)
               EXCEPT !.rets = <<{"fpDot"}, {"wrong"}>>]
UndefFp  == [Fp(<<ShortOp("fpSum")>>, <<>>)
               EXCEPT !.ub = {"fpAddSum"}, !.alwaysUB = TRUE]

\* Integers: a dot refined thanks to a sum, a dot that is not.
IntDotSum == [Int(<<ShortOp("intDot")>>, <<DynOp("intSum")>>) EXCEPT !.rets = <<{"intDot"}>>]
IntDots   == [Int(<<ShortOp("intDot")>>, <<ShortOp("intDot")>>) EXCEPT !.rets = <<{"intDot"}>>]
WrongUB   == [Trivial EXCEPT !.ub = {"wrong"}]
WrongRet  == [Trivial EXCEPT !.rets = <<{"wrong"}>>]

\* Memory: two element types.
TwoTypes   == [Trivial EXCEPT !.rets = <<>>, !.mems = <<{}, {}>>]
FirstWrong == [Trivial EXCEPT !.rets = <<>>, !.mems = <<{"wrong"}, {}>>]
LastWrong  == [Trivial EXCEPT !.rets = <<>>, !.mems = <<{}, {"wrong"}>>]
FpMemory   == [Fp(<<ShortOp("fpDot")>>, <<ShortOp("fpDot")>>)
                 EXCEPT !.rets = <<>>, !.mems = <<{"fpDot"}, {"fpAddSum"}>>]

AllPrograms ==
  Rejected \cup {Trivial, DotVsSum, DotVsAdd, DynDots, Cast, WrongFp, UndefFp, IntDotSum,
                 IntDots, WrongUB, WrongRet, TwoTypes, FirstWrong, LastWrong, FpMemory}

SomePrograms == {Trivial, DotVsAdd, IntDots, TwoTypes, LastWrong, WrongFp,
                 [Trivial EXCEPT !.analysis = "unsupported"]}

Line1(a, u) ==
  [assoc |-> a, unrollIntSum |-> u, succinct |-> FALSE, compareFn |-> 0, solvers |-> {"z3"}]
AllOptions ==
  {Line1(a, u) : a, u \in BOOLEAN}
  \cup {[Line1(FALSE, FALSE) EXCEPT !.succinct = TRUE],
        [Line1(FALSE, FALSE) EXCEPT !.compareFn = 2],
        [Line1(FALSE, FALSE) EXCEPT !.solvers = {"z3", "cvc5"}]}
PlainOptions == {Line1(FALSE, FALSE)}
=============================================================================
