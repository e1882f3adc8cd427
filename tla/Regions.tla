------------------------------- MODULE Regions -------------------------------
(***************************************************************************)
(* The bodies of operations with a region, and the maps by which a loop    *)
(* over their iterations indexes operands.                                 *)
(***************************************************************************)
EXTENDS Terms

-----------------------------------------------------------------------------
(* The body of a region: a term for each value it yields, over             *)
(* Leaf("arg", i), the i-th block argument, and Leaf("index", d), the d-th *)
(* loop variable.                                                          *)

RECURSIVE Eval(_, _, _)
Eval(term, args, ind) ==
  CASE term.op = "arg" -> args[term.n]
    [] term.op = "index" -> Number(ind[term.n])
    [] OTHER -> [term EXCEPT !.args = [i \in DOMAIN @ |-> Eval(@[i], args, ind)]]

RECURSIVE Uses(_, _)
Uses(term, arg) ==
  term = Leaf("arg", arg) \/ \E i \in DOMAIN term.args : Uses(term.args[i], arg)

-----------------------------------------------------------------------------
(* Indexing maps: a sequence of affine forms over the loop variables, each *)
(* with a coefficient for every variable and a constant.                   *)

Dim(d, n) == [coeffs |-> [i \in 1..n |-> IF i = d THEN 1 ELSE 0], const |-> 0]
IsDim(form, d) == form = Dim(d, Len(form.coeffs))
PositionOf(form) == {d \in 1..Len(form.coeffs) : IsDim(form, d)}
=============================================================================
