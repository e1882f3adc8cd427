----------------------------- MODULE TensorProps -----------------------------
(***************************************************************************)
(* What encoding a program on tensors must come to.                        *)
(***************************************************************************)
EXTENDS TensorRun

-----------------------------------------------------------------------------
(* The encoder's state as values of the program. *)

NumResults(o) == IF o.op = "linalg.generic" THEN Len(o.body) ELSE 1
ResultsOf(n) == FoldLeft(LAMBDA a, o : a + NumResults(o), 0, SubSeq(prog.ops, 1, n))

\* Operations before the first one that is undefined behaviour.
AllDefined == \A n \in DOMAIN welldef : welldef[n]
DefinedOps == IF AllDefined THEN Len(welldef)
              ELSE CHOOSE n \in DOMAIN welldef : ~welldef[n] /\ \A m \in 1..(n - 1) : welldef[m]
Reached == SubSeq(regs, 1, Len(prog.args) + ResultsOf(IF AllDefined THEN DefinedOps ELSE DefinedOps - 1))

\* Unknown constants stand for the elements of the constant that made them.
RECURSIVE Resolve(_)
Resolve(term) ==
  IF term.op = "unknown_const"
  THEN LET k == CHOOSE k \in DOMAIN attrs :
                  Head(attrs[k].t.arr[0].args) = Head(term.args)
       IN  IF term.n < NumElements(attrs[k].attr) THEN Number(attrs[k].attr.vals[term.n + 1]) ELSE term
  ELSE [term EXCEPT !.args = [i \in DOMAIN @ |-> Resolve(@[i])]]

View(t) ==
  [dims |-> t.dims,
   elem |-> [idx \in Box(t.dims) |-> Resolve(Denoted(Get(t, idx)))],
   init |-> InitializedAt(t)]

M == INSTANCE TensorMeaning WITH
  values <- [i \in DOMAIN Reached |-> View(Reached[i].t)],
  status <- IF AllDefined THEN status ELSE "undefined"

-----------------------------------------------------------------------------
(* Properties. *)

\* The encoder implements the meaning of programs: linear indices, machine
\* arithmetic and lambdas over all machine indices give each result its sizes,
\* its elements and the initialized ones, an operation is well defined exactly
\* if it has a meaning, and what lies beyond the end of an operand is nowhere
\* in a result (the handlers of encode.cpp over value.cpp).
ImplementsMeaning == M!Spec

\* Equal constants have equal elements, whatever other constants, transposed or
\* not, were met before and between them: an unchanged constant refines itself
\* although the list of known constants grows (abstractlyEncodedAttrs).
EqualConstantsAgree ==
  LET constants == {n \in DOMAIN welldef : prog.ops[n].op = "tosa.const"}
      at(n) == regs[Len(prog.args) + ResultsOf(n)].t
  IN  \A n, k \in constants :
        prog.ops[n].attr = prog.ops[k].attr => Refines(at(n), at(k))
=============================================================================
