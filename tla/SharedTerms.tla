----------------------------- MODULE SharedTerms -----------------------------
(***************************************************************************)
(* Terms that outlive the encodings they were made for: declarations of    *)
(* called functions (calleeMap, function.cpp), which stay until the end of *)
(* the process, and large constants (abstractlyEncodedAttrs, value.cpp),   *)
(* which stay for all encodings of a function.                             *)
(*                                                                         *)
(* validate analyzes one function after the other and encodes each several *)
(* times: source and target under full abstraction, both again with        *)
(* precise casts, the source once more to see whether it is always         *)
(* undefined.  The bit width of f32 and f64 depends on the function, that  *)
(* of f64 also on the abstraction.  Only the widths of terms are kept.     *)
(***************************************************************************)
EXTENDS Analysis

CONSTANTS
  NumFns,     \* functions of the module
  Programs    \* pairs of a source and a target function

BigConsts(pair) ==
  {op \in Range(pair.src.ops) \cup Range(pair.tgt.ops) : op.kind = "bigConst"}

\* A constant (an ElementsAttr) has one type.
IsPair(pair) ==
  /\ IsFunction(pair.src) /\ IsFunction(pair.tgt)
  /\ \A op, o \in BigConsts(pair) : op.name = o.name => op.results = o.results

ASSUME SharedTermsOK ==
  /\ NumFns \in Nat \ {0}
  /\ \A pair \in Programs : IsPair(pair)

VARIABLES
  prog,        \* the functions
  fn,          \* index of the function that is validated
  phase,       \* "analyze", "src", "tgt", "alwaysub", "aborted"
  pos,         \* the next operation to encode
  regs,        \* bit widths of the (elements of) values encoded so far
  precise,     \* abstraction.fpCast
  castSeen,    \* usedOps.fpCastRound
  calleeMap,   \* the declarations
  attrs        \* abstractlyEncodedAttrs: bit widths of large constants

vars == <<prog, fn, phase, pos, regs, precise, castSeen, calleeMap, attrs>>

Fns == 1..NumFns
Src == prog[fn].src
Tgt == prog[fn].tgt

\* checkIsSrcAlwaysUB encodes the source.
Encoded == IF phase = "tgt" THEN Tgt ELSE Src

(***************************************************************************)
(* The encodings of setAbstraction for functions without constants: zero,  *)
(* one and the largest number of each type are always there, and 9 stands  *)
(* for the largest f64, which is no f32.                                   *)
(***************************************************************************)
Sizes(f32Count, f64Count, isPrecise) ==
  INSTANCE FpConstants WITH
    Gap <- 2, One <- 4, FloatMax <- 6, DoubleMax <- 9, MaxConstants <- 1, NonConsts <- {},
    F32 <- {}, F64 <- {}, hasInfOrNaN <- FALSE,
    f32NonConsts <- f32Count, f64NonConsts <- f64Count, precise <- isPrecise,
    floatEnc <- [limit |-> 0, small |-> 0, prec |-> 0],
    doubleEnc <- [limit |-> 0, small |-> 0, prec |-> 0]

\* Float::sort and Integer::sort: the width includes the sign.
WidthIn(pair, isPrecise, elem) ==
  LET n32 == NonConstsCount(pair.src, pair.tgt, "f32")
      n64 == NonConstsCount(pair.src, pair.tgt, "f64")
  IN  CASE elem = "f32" -> 1 + Sizes(n32, n64, isPrecise)!FloatBits
        [] elem = "f64" /\ ~isPrecise -> 1 + Sizes(n32, n64, isPrecise)!DoubleBits
        [] elem = "f64" /\ isPrecise ->
             1 + Sizes(n32, n64, isPrecise)!LimitBits32 + Sizes(n32, n64, isPrecise)!FloatBits
               + Sizes(n32, n64, isPrecise)!PrecBits
        [] OTHER -> 32

Width(elem) == WidthIn(prog[fn], precise, elem)

Init ==
  /\ prog \in [Fns -> Programs]
  /\ fn = 1 /\ phase = "analyze" /\ pos = 1 /\ regs = <<>>
  /\ precise = FALSE /\ castSeen = FALSE
  /\ calleeMap = <<>> /\ attrs = <<>>

NextFunction ==
  /\ fn' = fn + 1 /\ phase' = "analyze" /\ pos' = 1 /\ regs' = <<>>

-----------------------------------------------------------------------------
(***************************************************************************)
(* The sequence of encodings.                                              *)
(***************************************************************************)
Unsupported ==
  /\ NextFunction
  /\ UNCHANGED <<prog, precise, castSeen, calleeMap, attrs>>

Accepted == ~ (AnalyzeThrows(Src) \/ AnalyzeThrows(Tgt) \/ MergeThrows(Src, Tgt))

RejectFunction ==
  /\ phase = "analyze" /\ fn \in Fns /\ ~Accepted
  /\ Unsupported

\* Arguments are counted first, and their types compared by the first encoding.
RejectSignature ==
  /\ phase = "analyze" /\ fn \in Fns /\ Accepted
  /\ Src.args # Tgt.args
  /\ NextFunction
  /\ IF Len(Src.args) # Len(Tgt.args)
     THEN UNCHANGED <<precise, attrs>>
     ELSE precise' = FALSE /\ attrs' = <<>>
  /\ UNCHANGED <<prog, castSeen, calleeMap>>

\* A variant that goes on where the last encoding stopped.
StartEncoding_Continue(newPhase, isPrecise) ==
  /\ phase' = newPhase /\ precise' = isPrecise /\ UNCHANGED pos
  /\ regs' = [i \in DOMAIN Src.args |-> WidthIn(prog[fn], isPrecise, Src.args[i].elem)]

\* Encoding starts with the arguments.
StartEncoding(newPhase, isPrecise) ==
  /\ phase' = newPhase /\ precise' = isPrecise /\ pos' = 1
  /\ regs' = [i \in DOMAIN Src.args |-> WidthIn(prog[fn], isPrecise, Src.args[i].elem)]

\* A variant without resetAbstractlyEncodedAttrs.
StartFunction_KeepAttrs ==
  /\ phase = "analyze" /\ fn \in Fns /\ Accepted
  /\ Src.args = Tgt.args
  /\ UNCHANGED <<prog, fn, castSeen, calleeMap, attrs>>
  /\ StartEncoding("src", FALSE)

StartFunction ==
  /\ phase = "analyze" /\ fn \in Fns /\ Accepted
  /\ Src.args = Tgt.args
  /\ attrs' = <<>>
  /\ UNCHANGED <<prog, fn, castSeen, calleeMap>>
  /\ StartEncoding("src", FALSE)

AtEnd == phase \in {"src", "tgt", "alwaysub"} /\ pos > Len(Encoded.ops)

StartTarget ==
  /\ AtEnd /\ phase = "src"
  /\ UNCHANGED <<prog, fn, castSeen, calleeMap, attrs>>
  /\ StartEncoding("tgt", precise)

\* The round failed or timed out, and an abstraction is refined; rounds that
\* refine other levels than casts do not change any width.
NextRound ==
  /\ AtEnd /\ phase = "tgt"
  /\ UNCHANGED <<prog, fn, castSeen, calleeMap, attrs>>
  /\ StartEncoding("src", precise \/ castSeen)

\* The round was a success, or the last one timed out.
StartAlwaysUB ==
  /\ AtEnd /\ phase = "tgt"
  /\ UNCHANGED <<prog, fn, castSeen, calleeMap, attrs>>
  /\ StartEncoding("alwaysub", TRUE)

\* Or the last round failed.
FinishFunction ==
  /\ AtEnd /\ phase \in {"tgt", "alwaysub"}
  /\ phase = "tgt" => precise \/ ~castSeen
  /\ NextFunction
  /\ UNCHANGED <<prog, precise, castSeen, calleeMap, attrs>>

-----------------------------------------------------------------------------
(***************************************************************************)
(* Encoding of one operation.                                              *)
(***************************************************************************)
Op == Encoded.ops[pos]
Encoding(kinds) ==
  /\ phase \in {"src", "tgt", "alwaysub"}
  /\ pos <= Len(Encoded.ops) /\ Op.kind \in kinds

Widths == [k \in DOMAIN Op.operands |-> regs[Op.operands[k]]]
Current(types) == [k \in DOMAIN types |-> Width(types[k].elem)]

AddResult(widths) ==
  /\ regs' = regs \o widths
  /\ pos' = pos + 1
  /\ castSeen' = (castSeen \/ Op.kind = "cast")
  /\ UNCHANGED <<prog, fn, phase, precise>>

\* A map with an entry more, if it has none of that name.
With(map, name, value) ==
  [n \in DOMAIN map \cup {name} |-> IF n \in DOMAIN map THEN map[n] ELSE value]

\* An exception of Z3: its sorts do not match.  Nobody catches it.
Abort ==
  /\ phase' = "aborted"
  /\ UNCHANGED <<prog, fn, pos, regs, precise, castSeen>>

(***************************************************************************)
(* func.call.  A declaration has the sorts of the first call: one for each *)
(* operand, and one for the dimension of each tensor.                      *)
(***************************************************************************)
DomainSorts(types, widths) ==
  FlattenSeq([k \in DOMAIN types |->
    <<<<types[k].shape, widths[k]>>>> \o
      IF types[k].shape = "tensor" THEN <<<<"index", 32>>>> ELSE <<>>])

Declare(op) ==
  LET domain == OperandTypes(Encoded, op)
  IN  [sorts |-> DomainSorts(domain, Current(domain)), result |-> Width(op.results[1].elem)]

CallThrows ==
  \/ Len(Op.results) # 1
  \/ /\ Op.name \notin DOMAIN calleeMap
     /\ \E type \in Range(OperandTypes(Encoded, Op) \o Op.results) : type.shape = "memref"

CallUnsupported == Encoding({"call"}) /\ CallThrows /\ Unsupported

EncodeCall ==
  /\ Encoding({"call"}) /\ ~CallThrows
  /\ calleeMap' = With(calleeMap, Op.name, Declare(Op))
  /\ LET decl == calleeMap'[Op.name]
     IN  IF DomainSorts(OperandTypes(Encoded, Op), Widths) = decl.sorts
         THEN AddResult(<<decl.result>>)
         ELSE Abort
  /\ UNCHANGED attrs

\* Tensor::fromElemsAttr of a constant with more than MAX_CONST_SIZE elements.
EncodeBigConst ==
  /\ Encoding({"bigConst"})
  /\ attrs' = With(attrs, Op.name, Width(Op.results[1].elem))
  /\ AddResult(<<attrs'[Op.name]>>)
  /\ UNCHANGED calleeMap

\* Moving elements does not look at them.
EncodeMove ==
  /\ Encoding({"move"})
  /\ AddResult(<<regs[Op.operands[1]]>>)
  /\ UNCHANGED <<calleeMap, attrs>>

\* All other operations combine their operands with terms of the encoding.
EncodeOther ==
  /\ Encoding(Kind \ {"call", "bigConst", "move"})
  /\ IF Widths = Current(OperandTypes(Encoded, Op))
     THEN AddResult(Current(Op.results))
     ELSE Abort
  /\ UNCHANGED <<calleeMap, attrs>>

Next ==
  \/ RejectFunction \/ RejectSignature \/ StartFunction \/ StartTarget \/ NextRound \/ StartAlwaysUB
  \/ FinishFunction
  \/ CallUnsupported \/ EncodeCall \/ EncodeBigConst \/ EncodeMove \/ EncodeOther

Spec == Init /\ [][Next]_vars

-----------------------------------------------------------------------------
TypeOK ==
  /\ fn \in 1..(NumFns + 1)
  /\ phase \in {"analyze", "src", "tgt", "alwaysub", "aborted"}
  /\ phase \in {"src", "tgt", "alwaysub"} =>
       /\ pos \in 1..(Len(Encoded.ops) + 1)
       /\ Len(regs) = NumValues(Encoded, pos)
  /\ regs \in Seq(Nat)
  /\ precise \in BOOLEAN /\ castSeen \in BOOLEAN
  /\ \A name \in DOMAIN calleeMap : calleeMap[name].result \in Nat
  /\ \A name \in DOMAIN attrs : attrs[name] \in Nat

\* Every block that a function refers to by the name of a variable, or creates,
\* has a number: there are as many as the values that analysis counted, and each
\* function has as many of its own (Memory::Memory, addLocalBlock).
BlocksSuffice ==
  phase \in {"src", "tgt", "alwaysub"} =>
    \A elem \in Elem :
      /\ Cardinality({g \in Globals(Src, Tgt) : g.elem = elem})
           <= NumBlocksPerType(Src, Tgt, elem)
      /\ Cardinality({i \in DOMAIN Encoded.ops : /\ Encoded.ops[i].kind = "alloc"
                                                 /\ Encoded.ops[i].results[1].elem = elem})
           <= NumBlocksPerType(Src, Tgt, elem)

\* Every value has the width of its type in the encoding of this round, whatever
\* was encoded before: Z3 takes no others.  A test that calls a function from
\* several functions is to be verified (scalar.src.mlir).
TermsFit ==
  /\ phase # "aborted"
  /\ phase # "analyze" =>
       \A i \in DOMAIN regs : regs[i] = Width(Values(Encoded)[i].elem)

\* What the functions of a pair say about the functions they call.
Signatures(pair) ==
  UNION {{[name |-> op.name, domain |-> OperandTypes(f, op), range |-> op.results] :
            op \in {o \in Range(f.ops) : o.kind = "call"}} : f \in {pair.src, pair.tgt}}

Callees(pair) == {s.name : s \in Signatures(pair)}

SameSignatures(pair) ==
  \A s, t \in Signatures(pair) : s.name = t.name => s = t

\* Numbers of 64 bits are neither passed to a callee nor large constants.
SharesFloatsOnly(pair) ==
  /\ \A s \in Signatures(pair) : \A type \in Range(s.domain \o s.range) : type.elem # "f64"
  /\ \A f \in {pair.src, pair.tgt} : \A op \in Range(f.ops) :
       op.kind = "bigConst" => op.results[1].elem # "f64"

\* As long as no function calls what an earlier one called, f32 terms fit in all
\* encodings of a function: the width of f32 does not depend on the abstraction
\* (setAbstraction), and constants of earlier functions are forgotten
\* (resetAbstractlyEncodedAttrs).
FloatsFitWithinFunction ==
  /\ fn \in Fns
  /\ SameSignatures(prog[fn]) /\ SharesFloatsOnly(prog[fn])
  /\ \A f \in 1..(fn - 1) : Callees(prog[f]) \cap Callees(prog[fn]) = {}
  => TermsFit
=============================================================================
