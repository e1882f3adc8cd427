------------------------------ MODULE Programs ------------------------------
(***************************************************************************)
(* What the validator is given: the functions of the two modules, seen     *)
(* through their proof obligations, and the command line; and the codes it *)
(* answers with (vcgen.h).                                                 *)
(***************************************************************************)
EXTENDS AbsLevels

CONSTANTS
  Backends,   \* SMT solvers of the build
  Faulty,     \* those of them that may give a wrong answer
  NumFns,     \* functions of the source module, in the order of the name map
  Programs,   \* what a function and its counterpart may look like
  Options     \* command lines

(***************************************************************************)
(* Results::Code; UNSUPPORTED is UNSUPPORTED_EXIT_CODE.  PENDING and       *)
(* SKIPPED are not codes of the program: no verdict yet, never looked at.  *)
(***************************************************************************)
SUCCESS      == 0
PENDING      == 1
SKIPPED      == 2
UNSUPPORTED  == 91
TIMEOUT      == 101
RETVALUE     == 102
UB           == 103
INCONSISTENT == 104

Code == {SUCCESS, TIMEOUT, RETVALUE, UB, INCONSISTENT}

(***************************************************************************)
(* A source function and its counterpart.  ub, rets and mems are the       *)
(* obligations of checkRefinement: one for undefined behaviour, one per    *)
(* returned value, one per element type that has memory blocks.            *)
(***************************************************************************)
Program ==
  [inTgt    : BOOLEAN,                        \* a body for it in the target
   analysis : {"ok", "unsupported"},          \* analyze() and mergeGlobals()
   sig      : {"same", "argcount", "argtype"},
   fp       : BOOLEAN,                        \* any floating point at all
   src      : Seq(Op),
   tgt      : Seq(Op),
   ub       : Need,
   rets     : Seq(Need),
   mems     : Seq(Need),
   alwaysUB : BOOLEAN]                        \* the source never is defined

\* compareFn is --compare-fn-name (0: every function).  main() enables the
\* solver that --solver names; the library takes several.
Option == [assoc : BOOLEAN, unrollIntSum : BOOLEAN, succinct : BOOLEAN, compareFn : 0..NumFns,
           solvers : SUBSET Backends \ {{}}]

Honest(o) == o.solvers \cap Faulty = {}

ASSUME ProgramsOK ==
  /\ Faulty \subseteq Backends
  /\ NumFns \in Nat \ {0}
  /\ Programs \subseteq Program
  /\ Options \subseteq Option

Fns == 1..NumFns

Obligations(p) == {p.ub} \cup {p.rets[i] : i \in DOMAIN p.rets}
                         \cup {p.mems[i] : i \in DOMAIN p.mems}

Body(p) == p.src \o p.tgt

\* A level can only matter to an obligation if some operation depends on it,
\* and a source that is never defined is refined by anything.
Realizable(p, o) ==
  /\ \A n \in Obligations(p) : n \subseteq Relevant(Body(p), o) \cup {"wrong"}
  /\ p.alwaysUB => \A n \in Obligations(p) : "wrong" \notin n
  /\ (\E i \in DOMAIN Body(p) : Body(p)[i].kind \in FpKinds) => p.fp

\* validate(src, tgt) passes over a function that --compare-fn-name does not
\* name, or that has no body in the target.
Compared(o, g, f) == o.compareFn \in {0, f} /\ g[f].inTgt

InitialInputs(o, g) ==
  /\ o \in Options
  /\ g \in [Fns -> {q \in Programs : Realizable(q, o)}]
=============================================================================
