---------------------------- MODULE LinalgGeneric ----------------------------
(***************************************************************************)
(* linalg.generic on tensors (encode.cpp).  An operand is a register: its  *)
(* static type, a sequence of sizes or Dynamic, and the tensor in it.      *)
(***************************************************************************)
EXTENDS Tensors, Regions

\* What an operation makes of the state: its results and whether they are
\* well defined, or an UnsupportedException.
Encoded(wd, results) == [supported |-> TRUE, wd |-> wd, results |-> results]
Unsupported == [supported |-> FALSE, wd |-> FALSE, results |-> <<>>]

Rank(reg) == Len(reg.ty)
AddOne(seq) == [i \in DOMAIN seq |-> Wrap(seq[i] + 1)]

-----------------------------------------------------------------------------
(* Affine maps. *)

\* encodeAffineExpr gives up on negative constants, coefficients included.
Encodable(form) == form.const >= 0 /\ \A i \in DOMAIN form.coeffs : form.coeffs[i] >= 0
EncodeAffine(form, vars) ==
  Wrap(form.const + FoldLeft(+, 0, [i \in DOMAIN form.coeffs |-> form.coeffs[i] * vars[i]]))

ApplyMap(map, vars) == [j \in DOMAIN map |-> EncodeAffine(map[j], vars)]

\* doMap; a map without results and without loop variables is an identity.
DoMap(input, map) ==
  IF map = <<>> THEN input
  ELSE [j \in DOMAIN map |-> input[CHOOSE d \in PositionOf(map[j]) : TRUE]]

IsPermutation(map, numDims) ==
  Len(map) = numDims /\ \A d \in 1..numDims : \E j \in DOMAIN map : IsDim(map[j], d)

IsUsed(body, arg) == \E y \in DOMAIN body : Uses(body[y], arg)

-----------------------------------------------------------------------------
(* Loop bounds, which are inclusive: the first operand dimension that is   *)
(* indexed by the loop variable alone. *)

Results(maps) == FlattenSeq(maps)
ViewSizes(regs) == FlattenSeq([i \in DOMAIN regs |-> IF Rank(regs[i]) = 0 THEN <<>> ELSE regs[i].t.dims])

FindLoopBounds(maps, regs, numDims) ==
  IF ViewSizes(regs) = <<>> THEN <<0>>
  ELSE [d \in 1..numDims |->
          LET first == CHOOSE i \in DOMAIN Results(maps) :
                         /\ IsDim(Results(maps)[i], d)
                         /\ \A j \in 1..(i - 1) : ~IsDim(Results(maps)[j], d)
          IN  Wrap(ViewSizes(regs)[first] - 1)]

\* Every form at the bounds is the last index of its dimension.
ShapesMatch(maps, regs, bounds) ==
  \A i \in DOMAIN Results(maps) :
    EncodeAffine(Results(maps)[i], bounds) = Wrap(ViewSizes(regs)[i] - 1)

-----------------------------------------------------------------------------
(* The values of block arguments, and when reading them is defined. *)

BlockArg(reg, map, ind) == Get(reg.t, IF map = <<>> THEN <<0>> ELSE ApplyMap(map, ind))

ArgInitialized(reg, map, ind) ==
  IF map = <<>> THEN IsFullyInitialized(reg.t) ELSE IsInitialized(reg.t, ApplyMap(map, ind))

\* Outputs are read if the body uses their arguments.
InputsInitialized(o, regs, ind) ==
  \A i \in DOMAIN regs :
    i <= o.numInputs \/ IsUsed(o.body, i) => ArgInitialized(regs[i], o.maps[i], ind)

YieldAt(o, regs, y, ind) ==
  Eval(o.body[y], [i \in DOMAIN regs |-> BlockArg(regs[i], o.maps[i], ind)], ind)

-----------------------------------------------------------------------------
(* encodeParallelLoopBodyAndOutputs: all results by the map of the last. *)

ParallelResults(o, regs, bounds) ==
  LET outputMap == Last(o.maps)
      \* The loop variables of which the map makes these indices.
      ind(out) == IF outputMap = <<>> THEN out
                  ELSE [d \in DOMAIN bounds |->
                          out[CHOOSE j \in DOMAIN outputMap : IsDim(outputMap[j], d)]]
  IN  [y \in DOMAIN o.body |->
         MkInitializedLambda(AddOne(DoMap(bounds, outputMap)),
                             LAMBDA out : YieldAt(o, regs, y, ind(out)))]

(***************************************************************************)
(* encodeReductionLoopBodyAndOutput: the body must add one term to the     *)
(* output, which it must not use otherwise.                                *)
(***************************************************************************)
IsAcc(o, term) == term = Leaf("arg", Len(o.maps))
IsReduction(o) ==
  /\ Len(o.body) = 1 /\ o.body[1].op = "add"
  /\ IsAcc(o, o.body[1].args[1]) \/ IsAcc(o, o.body[1].args[2])
Summand(o) ==
  IF IsAcc(o, o.body[1].args[1]) THEN o.body[1].args[2] ELSE o.body[1].args[1]
SummandIsPlain(o) == IsAcc(o, Summand(o)) \/ ~Uses(Summand(o), Len(o.maps))

\* %v as an element of a tensor.
Summands(o, regs, bounds) ==
  MkInitializedLambda(AddOne(bounds), LAMBDA ind : YieldAt([o EXCEPT !.body = <<Summand(o)>>], regs, 1, ind))

IsConstantZero(form) == form.const = 0 /\ \A i \in DOMAIN form.coeffs : form.coeffs[i] = 0
ToOneElement(map) == \A j \in DOMAIN map : IsConstantZero(map[j])
ToDims(map) == \A j \in DOMAIN map : PositionOf(map[j]) # {}

\* The loop variables that the output does not use, in their order.
Unused(map, numDims) ==
  SelectSeq([d \in 1..numDims |-> d], LAMBDA d : \A j \in DOMAIN map : ~IsDim(map[j], d))

\* All loop variables, from those of the output and the others.
Merge(map, numDims, out, inner) ==
  [d \in 1..numDims |->
     IF \E j \in DOMAIN map : IsDim(map[j], d) THEN out[CHOOSE j \in DOMAIN map : IsDim(map[j], d)]
     ELSE inner[CHOOSE i \in DOMAIN Unused(map, numDims) : Unused(map, numDims)[i] = d]]

ReductionResult(o, regs, bounds) ==
  LET map == Last(o.maps)
      output == Last(regs).t
      v == Summands(o, regs, bounds)
      unused == Unused(map, Len(bounds))
  IN  IF ToOneElement(map)
      THEN Splat(Sum(v, <<Get(output, <<0>>)>>), IF Rank(Last(regs)) = 0 THEN <<1>>
                                                 ELSE [i \in 1..Rank(Last(regs)) |-> 1])
      ELSE MkInitializedLambda(AddOne(DoMap(bounds, map)),
             LAMBDA out :
               Sum(MkInitializedLambda(AddOne([i \in DOMAIN unused |-> bounds[unused[i]]]),
                     LAMBDA inner : Get(v, Merge(map, Len(bounds), out, inner))),
                   <<Get(output, out)>>))

-----------------------------------------------------------------------------
(* The loop is well defined if every iteration is.  Sizes are such that    *)
(* their product does not wrap around.                                     *)

Indices(dims) == {From1DIdx(c, dims) : c \in 0..(Get1DSize(dims) - 1)}

EncodeGeneric(o, regs) ==
  LET bounds == FindLoopBounds(o.maps, regs, o.numLoops)
      space == Indices(AddOne(bounds))
      argsDefined == \A ind \in space : InputsInitialized(o, regs, ind)
  IN  IF \E i \in DOMAIN Results(o.maps) : ~Encodable(Results(o.maps)[i]) THEN Unsupported
      ELSE IF IsPermutation(Last(o.maps), o.numLoops)
      THEN Encoded(ShapesMatch(o.maps, regs, bounds) /\ argsDefined,
                   ParallelResults(o, regs, bounds))
      ELSE IF /\ Len(regs) = o.numInputs + 1 /\ IsReduction(o) /\ SummandIsPlain(o)
              /\ ToOneElement(Last(o.maps)) \/ ToDims(Last(o.maps))
      THEN Encoded(/\ ShapesMatch(o.maps, regs, bounds) /\ argsDefined
                   /\ space # {} => IsFullyInitialized(Last(regs).t),
                   <<ReductionResult(o, regs, bounds)>>)
      ELSE Unsupported
=============================================================================
