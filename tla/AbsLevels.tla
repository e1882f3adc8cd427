----------------------------- MODULE AbsLevels ------------------------------
(***************************************************************************)
(* The abstraction levels of the encoding (namespace aop, abstractops.h    *)
(* and abstractops.cpp) and the refinement of a level (vcgen.cpp).         *)
(*                                                                         *)
(* A function is seen as the sequence of its operations whose encoding     *)
(* depends on the abstraction.  An operation has a kind and, for the       *)
(* reductions, a length class:                                             *)
(*   "short"  a constant length the encoder may unroll                     *)
(*   "long"   a constant length above the unrolling bound                  *)
(*   "dyn"    a length that is not a numeral                               *)
(***************************************************************************)
EXTENDS Naturals, Sequences

FpKinds  == {"fpAdd", "fpSum", "fpDot", "fpCast"}
IntKinds == {"intSum", "intDot"}

\* "unknown" is an operation encode() throws on whatever the abstraction is.
Op == [kind : FpKinds \cup IntKinds \cup {"unknown"}, len : {"short", "long", "dyn"}]

Abstraction == [fpDot    : {"FULLY_ABS", "SUM_MUL"},
                fpCast   : {"FULLY_ABS", "PRECISE"},
                intDot   : {"FULLY_ABS", "SUM_MUL"},
                fpAddSum : {"USE_SUM_ONLY", "DEFAULT", "UNROLL_TO_ADD"}]

\* The members of UsedAbstractOps that some code reads; fpAdd, fpMul and fpDiv
\* are written only.
Flag == {"fpDot", "fpSum", "fpCastRound", "intDot", "intSum"}

\* The parameter opt below stands for the command line; --associative and
\* --unroll-int-sum are what reaches the encoding.

-----------------------------------------------------------------------------
(***************************************************************************)
(* What encoding one operation under an abstraction records in usedOps.    *)
(***************************************************************************)

\* AbsFpEncoding::sum: unrolled to fp_add only for a short constant length,
\* lambdaSum or multisetSum otherwise.
FpSumFlags(len, abs) ==
  IF abs.fpAddSum = "UNROLL_TO_ADD" /\ len = "short" THEN {} ELSE {"fpSum"}

\* AbsFpEncoding::add is a sum of two elements under USE_SUM_ONLY.
FpAddFlags(abs) ==
  IF abs.fpAddSum = "USE_SUM_ONLY" THEN {"fpSum"} ELSE {}

\* intSum: a constant length is unrolled under --unroll-int-sum, and then
\* nothing is recorded.
IntSumFlags(len, opt) ==
  IF opt.unrollIntSum /\ len # "dyn" THEN {} ELSE {"intSum"}

FpDotFlags(len, abs) ==
  IF abs.fpDot = "FULLY_ABS" THEN {"fpDot"} ELSE FpSumFlags(len, abs)

IntDotFlags(len, abs, opt) ==
  IF abs.intDot = "FULLY_ABS" THEN {"intDot"} ELSE IntSumFlags(len, opt)

OpFlags(op, abs, opt) ==
  CASE op.kind = "fpAdd"   -> FpAddFlags(abs)
    [] op.kind = "fpSum"   -> FpSumFlags(op.len, abs)
    [] op.kind = "fpDot"   -> FpDotFlags(op.len, abs)
    [] op.kind = "fpCast"  -> {"fpCastRound"}
    [] op.kind = "intSum"  -> IntSumFlags(op.len, opt)
    [] op.kind = "intDot"  -> IntDotFlags(op.len, abs, opt)
    [] op.kind = "unknown" -> {}

\* UnsupportedException out of the encoding of an operation.  sum() insists on
\* a constant length under --associative, so a dot of dynamic length throws
\* only once fpDot is SUM_MUL.
Throws(op, abs, opt) ==
  \/ op.kind = "unknown"
  \/ /\ opt.assoc
     /\ op.len = "dyn"
     /\ \/ op.kind = "fpSum"
        \/ op.kind = "fpDot" /\ abs.fpDot = "SUM_MUL"

EncodingThrows(ops, abs, opt) == \E i \in DOMAIN ops : Throws(ops[i], abs, opt)

\* The flags recorded by encode() on a function body: those of every operation
\* before the first one that throws.
EncodingFlags(ops, abs, opt) ==
  UNION {OpFlags(ops[i], abs, opt) :
           i \in {j \in DOMAIN ops : \A k \in 1..j : ~Throws(ops[k], abs, opt)}}

-----------------------------------------------------------------------------
(***************************************************************************)
(* The abstractions validate(ValidationInput) tries.                       *)
(***************************************************************************)

InitialAbs(opt) ==
  [fpDot    |-> "FULLY_ABS",
   fpCast   |-> "FULLY_ABS",
   intDot   |-> "FULLY_ABS",
   fpAddSum |-> IF opt.assoc THEN "USE_SUM_ONLY" ELSE "DEFAULT"]

\* The abstraction checkIsSrcAlwaysUB encodes the source with.
ConcreteAbs(opt) ==
  [fpDot    |-> "SUM_MUL",
   fpCast   |-> "PRECISE",
   intDot   |-> "SUM_MUL",
   fpAddSum |-> IF opt.assoc THEN "USE_SUM_ONLY" ELSE "UNROLL_TO_ADD"]

\* The dot and cast levels are refined in lock-step, all that apply at once.
RefinesFpDot(abs, used, opt) ==
  abs.fpDot = "FULLY_ABS" /\ ("fpDot" \in used \/ opt.assoc)
RefinesFpCast(abs, used) ==
  abs.fpCast = "FULLY_ABS" /\ "fpCastRound" \in used
RefinesIntDot(abs, used) ==
  abs.intDot = "FULLY_ABS" /\ {"intDot", "intSum"} \subseteq used

IsChanged(abs, used, opt) ==
  \/ RefinesFpDot(abs, used, opt)
  \/ RefinesFpCast(abs, used)
  \/ RefinesIntDot(abs, used)

\* A variant that forgets whether the add/sum level is refined already.
RefinesAddSum_Again(abs, used, opt) ==
  /\ ~IsChanged(abs, used, opt)
  /\ "fpSum" \in used

\* The add/sum level is refined only when nothing else is.
RefinesAddSum(abs, used, opt) ==
  /\ ~IsChanged(abs, used, opt)
  /\ abs.fpAddSum = "DEFAULT"
  /\ "fpSum" \in used

\* A variant that never refines the add/sum level.
HasNextAbs_NoUnroll(abs, used, opt) == IsChanged(abs, used, opt)

HasNextAbs(abs, used, opt) ==
  IsChanged(abs, used, opt) \/ RefinesAddSum(abs, used, opt)

\* A variant that refines one level per round instead of in lock-step.
NextAbs_OneByOne(abs, used, opt) ==
  [abs EXCEPT
     !.fpDot    = IF RefinesFpDot(abs, used, opt) THEN "SUM_MUL" ELSE @,
     !.fpCast   = IF RefinesFpCast(abs, used) /\ ~RefinesFpDot(abs, used, opt)
                  THEN "PRECISE" ELSE @,
     !.fpAddSum = IF RefinesAddSum(abs, used, opt) THEN "UNROLL_TO_ADD" ELSE @]

\* A variant that starts over from the initial abstraction.
NextAbs_FromScratch(abs, used, opt) ==
  [InitialAbs(opt) EXCEPT
     !.fpDot    = IF RefinesFpDot(abs, used, opt) THEN "SUM_MUL" ELSE @,
     !.fpCast   = IF RefinesFpCast(abs, used) THEN "PRECISE" ELSE @,
     !.fpAddSum = IF RefinesAddSum(abs, used, opt) THEN "UNROLL_TO_ADD" ELSE @]

NextAbs(abs, used, opt) ==
  [fpDot    |-> IF RefinesFpDot(abs, used, opt) THEN "SUM_MUL" ELSE abs.fpDot,
   fpCast   |-> IF RefinesFpCast(abs, used) THEN "PRECISE" ELSE abs.fpCast,
   intDot   |-> IF RefinesIntDot(abs, used) THEN "SUM_MUL" ELSE abs.intDot,
   fpAddSum |-> IF RefinesAddSum(abs, used, opt) THEN "UNROLL_TO_ADD"
                ELSE abs.fpAddSum]

-----------------------------------------------------------------------------
(***************************************************************************)
(* What an abstraction lets the solver prove.  A refinement query needs    *)
(* some of the levels to be concrete; a query of a wrong transformation    *)
(* needs "wrong", which no abstraction provides.                           *)
(***************************************************************************)
Knob == {"fpDot", "fpCast", "intDot", "fpAddSum"}
Need == SUBSET (Knob \cup {"wrong"})

Refined(abs) ==
  {k \in Knob : CASE k = "fpDot"    -> abs.fpDot = "SUM_MUL"
                  [] k = "fpCast"   -> abs.fpCast = "PRECISE"
                  [] k = "intDot"   -> abs.intDot = "SUM_MUL"
                  [] k = "fpAddSum" -> abs.fpAddSum = "UNROLL_TO_ADD"}

Provable(need, abs) == need \subseteq Refined(abs)

\* The levels whose refinement can change the encoding of a function body.
\* A dot refined to SUM_MUL brings in a sum, so it makes fpAddSum relevant.
Relevant(ops, opt) ==
  LET kinds == {ops[i].kind : i \in DOMAIN ops}
  IN  {k \in {"fpDot", "fpCast", "intDot"} : k \in kinds}
      \cup (IF ~opt.assoc /\ kinds \cap {"fpSum", "fpDot"} # {}
            THEN {"fpAddSum"} ELSE {})
=============================================================================
