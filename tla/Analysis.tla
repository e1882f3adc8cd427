------------------------------ MODULE Analysis ------------------------------
(***************************************************************************)
(* What analyze (analysis.cpp) counts in a function, and what validate     *)
(* (vcgen.cpp) makes of the counts of two functions: abstract numbers for  *)
(* values that are no constants, memory blocks, global variables.          *)
(*                                                                         *)
(* A value is known by its type.  Values of a function are numbered: first *)
(* the arguments, then the result of each operation that has one.          *)
(***************************************************************************)
EXTENDS Integers, Sequences, FiniteSets, SequencesExt

Elem  == {"f32", "f64", "f16", "i32"}
Shape == {"scalar", "tensor", "memref"}

\* cnt is the number of elements; a tensor of unknown size has MAX_TENSOR_SIZE.
Type == [elem : Elem, shape : Shape, cnt : Nat]

(***************************************************************************)
(* The kinds of operations that matter here: small and large constants,    *)
(* those that move elements of tensors, create a block, refer to a global  *)
(* variable, reduce, loops (linalg.generic) with and without a reduction,  *)
(* calls, casts between floating point numbers, and all others.            *)
(* Operations in a region count as if they followed the one it belongs to. *)
(***************************************************************************)
Kind == {"const", "bigConst", "move", "alloc", "getGlobal", "reduction", "generic",
         "reducingGeneric", "call", "cast", "other"}

\* name: what is called or referred to.  operands: numbers of values (of a
\* generic, the buffers it writes).  results: at most one type.
Operation(kind, name, operands, results) ==
  [kind |-> kind, name |-> name, operands |-> operands, results |-> results]

Values(f) == f.args \o FlattenSeq([i \in DOMAIN f.ops |-> f.ops[i].results])

\* Those that are known before operation k.
NumValues(f, k) == Len(f.args) + Len(FlattenSeq([i \in 1..(k - 1) |-> f.ops[i].results]))

OperandTypes(f, op) == [k \in DOMAIN op.operands |-> Values(f)[op.operands[k]]]

(***************************************************************************)
(* What MLIR has verified of a function: it uses values that it has, what  *)
(* moves elements keeps their type, blocks are referred to by memrefs.     *)
(***************************************************************************)
HasResult(op) == Len(op.results) = 1

IsFunction(f) ==
  /\ f.args \in Seq(Type) /\ f.ops \in Seq(Range(f.ops))
  /\ \A k \in DOMAIN f.ops : LET op == f.ops[k] IN
       /\ op.kind \in Kind
       /\ op.results \in Seq(Type) /\ Len(op.results) <= 1
       /\ op.operands \in Seq(1..NumValues(f, k))
       /\ op.kind = "bigConst" => HasResult(op)
       /\ op.kind = "move" =>
            /\ HasResult(op) /\ Len(op.operands) >= 1
            /\ op.results[1].elem = Values(f)[op.operands[1]].elem
       /\ op.kind \in {"alloc", "getGlobal"} => HasResult(op) /\ op.results[1].shape = "memref"
       /\ op.kind = "getGlobal" => op.results[1].elem = op.name.elem

-----------------------------------------------------------------------------
\* The values that analyzeBlock counts for one operation.
Counted(f, op) ==
  (IF op.kind \in {"const", "move"} THEN <<>> ELSE op.results)
    \o (IF op.kind \in {"reduction", "generic", "reducingGeneric"}
        THEN OperandTypes(f, op) ELSE <<>>)

CountedInBlock(f) == FlattenSeq([i \in DOMAIN f.ops |-> Counted(f, f.ops[i])])

Occurrences(types, elem) == Cardinality({i \in DOMAIN types : types[i].elem = elem})

ArgCount(f, elem) == Occurrences(f.args, elem)
VarCount(f, elem) == Occurrences(CountedInBlock(f), elem)

\* Every element but one of a shaped value; a tensor without any counts as one
\* number all the same.
ElemsCount(f, elem) ==
  LET types == f.args \o CountedInBlock(f)
      More(type) ==
        IF type.elem = elem /\ type.shape # "scalar" /\ type.cnt > 0 THEN type.cnt - 1 ELSE 0
      sum[i \in 0..Len(types)] == IF i = 0 THEN 0 ELSE sum[i - 1] + More(types[i])
  IN  sum[Len(types)]

IsMemRef(type, elem) == type.shape = "memref" /\ type.elem = elem

MemRefArgs(f, elem) == Cardinality({i \in DOMAIN f.args : IsMemRef(f.args[i], elem)})
MemRefVars(f, elem) ==
  Cardinality({i \in DOMAIN f.ops :
                 \E type \in Range(f.ops[i].results) : IsMemRef(type, elem)})

IsElementwiseFPOps(f) ==
  \A i \in DOMAIN f.ops : f.ops[i].kind \notin {"reduction", "reducingGeneric"}

UsedGlobals(f) == {op.name : op \in {o \in Range(f.ops) : o.kind = "getGlobal"}}

\* analyzeVariable throws for tensors of small floats.
AnalyzeThrows(f) ==
  \E type \in Range(f.args \o CountedInBlock(f)) :
    type.shape # "scalar" /\ type.elem = "f16"

-----------------------------------------------------------------------------
(***************************************************************************)
(* mergeGlobals.  A global variable is a record of its name, type, whether *)
(* it is constant, and its value; source and target may disagree about it. *)
(***************************************************************************)
MergeThrows(src, tgt) ==
  \/ \E g \in UsedGlobals(src), h \in UsedGlobals(tgt) : g.name = h.name /\ g # h
  \/ \E h \in UsedGlobals(tgt) :
       ~h.constant /\ \A g \in UsedGlobals(src) : g.name # h.name

Globals(src, tgt) == UsedGlobals(src) \cup UsedGlobals(tgt)

-----------------------------------------------------------------------------
(***************************************************************************)
(* The counts that go into a ValidationInput when no option gives them.    *)
(***************************************************************************)

\* A variant that forgets the blocks of the target.
NumBlocksPerType_Src(src, tgt, elem) == MemRefArgs(src, elem) + MemRefVars(src, elem)

NumBlocksPerType(src, tgt, elem) ==
  MemRefArgs(src, elem) + MemRefVars(src, elem) + MemRefVars(tgt, elem)

\* Elements are left out if one of the functions is elementwise.
NonConstsCount(src, tgt, elem) ==
  ArgCount(src, elem) + VarCount(src, elem) + VarCount(tgt, elem)
    + IF IsElementwiseFPOps(src) \/ IsElementwiseFPOps(tgt) THEN 0
      ELSE ElemsCount(src, elem) + ElemsCount(tgt, elem)
=============================================================================
