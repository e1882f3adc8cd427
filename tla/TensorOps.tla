------------------------------ MODULE TensorOps ------------------------------
(***************************************************************************)
(* What the encoder makes of operations on tensors (encode.cpp): for each  *)
(* of them the resulting tensors and when the operation is well defined.   *)
(*                                                                         *)
(* An operation o has a static result type o.ty and attributes o.p, a      *)
(* sequence of integer sequences; regs are its operands.  Sizes, offsets   *)
(* and indices that may be index registers in the program are attributes   *)
(* here: the encoder takes both alike.  A scalar is a tensor without       *)
(* dimensions.                                                             *)
(***************************************************************************)
EXTENDS LinalgGeneric

Scalar(elem) == Splat(elem, <<>>)
ScalarOf(reg) == Get(reg.t, <<>>)
Result(wd, t) == Encoded(wd, <<t>>)
AllInitialized(regs) == \A i \in DOMAIN regs : IsFullyInitialized(regs[i].t)

IsStatic(ty) == \A i \in DOMAIN ty : ty[i] # Dynamic
MatchesType(t, ty) == \A i \in DOMAIN ty : ty[i] # Dynamic => t.dims[i] = ty[i]

-----------------------------------------------------------------------------
(* Elementwise operations. *)

Wider(a, b) == IF a > b THEN a ELSE b

\* The type of an operand aligned to rank n at its last dimension; 0 where
\* it has none.
AlignedType(ty, n) == [i \in 1..n |-> IF i <= n - Len(ty) THEN 0 ELSE ty[i - n + Len(ty)]]

\* An operand at the shape of the result.  Dimensions that only one operand
\* has are taken from it; where both have one, dynamic sizes stay apart, so
\* that their equality can be asked for.
Broadcast(reg, other) ==
  LET own == Shape(reg.ty)
      n == Wider(Len(own), Len(Shape(other.ty)))
      mine == AlignedType(own, n)
      theirs == AlignedType(Shape(other.ty), n)
      size(i) ==
        CASE mine[i] = 0 -> other.t.dims[i]
          [] theirs[i] = 0 -> reg.t.dims[i]
          [] mine[i] = Dynamic -> reg.t.dims[i - n + Len(own)]
          [] OTHER -> Wider(mine[i], theirs[i])
  IN  MkInitializedLambda([i \in 1..n |-> size(i)],
        LAMBDA idx : Get(reg.t, [i \in 1..Len(own) |->
                                   IF own[i] = 1 THEN 0 ELSE idx[i + n - Len(own)]]))

CanBroadcast(a, b) ==
  LET n == Wider(Len(Shape(a.ty)), Len(Shape(b.ty)))
      ta == AlignedType(Shape(a.ty), n)
      tb == AlignedType(Shape(b.ty), n)
  IN  \A i \in 1..n : ta[i] # 0 /\ tb[i] # 0 => (ta[i] = Dynamic <=> tb[i] = Dynamic)

\* What becomes of two elements, of one.
Neg(e) == App("neg", <<e>>)
Div(a, b) == App("div", <<a, b>>)
BinaryTerm(op, a, b) ==
  CASE op \in {"tosa.add", "arith.addf"} -> Add(a, b)
    [] op \in {"tosa.sub", "arith.subf"} -> Add(a, Neg(b))
    [] op \in {"tosa.mul", "arith.mulf"} -> Mul(a, b)
    [] op = "arith.divf"                 -> Div(a, b)
UnaryTerm(op, e) ==
  CASE op \in {"tosa.abs", "math.absf"}     -> App("abs", <<e>>)
    [] op \in {"tosa.negate", "arith.negf"} -> Neg(e)
    [] op \in {"tosa.exp", "math.exp"}      -> App("exp", <<e>>)
    [] op = "tosa.reciprocal"               -> Div(Number(1), e)

IsScalar(reg) == reg.t.dims = <<>>

\* The copies that broadcasting makes are what is asked to be initialized.
EncodeBinary(o, regs) ==
  LET a == Broadcast(regs[1], regs[2])
      b == Broadcast(regs[2], regs[1])
  IN  IF IsScalar(regs[1]) THEN Result(TRUE, Scalar(BinaryTerm(o.op, ScalarOf(regs[1]), ScalarOf(regs[2]))))
      ELSE IF ~CanBroadcast(regs[1], regs[2]) THEN Unsupported
      ELSE Result(a.dims = b.dims /\ IsFullyInitialized(a) /\ IsFullyInitialized(b),
                  ElementwiseBinOp(a, b, LAMBDA x, y : BinaryTerm(o.op, x, y)))

EncodeUnary(o, regs) ==
  IF IsScalar(regs[1]) THEN Result(TRUE, Scalar(UnaryTerm(o.op, ScalarOf(regs[1]))))
  ELSE Result(AllInitialized(regs), ElementwiseUnaryOp(regs[1].t, LAMBDA e : UnaryTerm(o.op, e)))

EncodeSelect(o, regs) ==
  LET c == regs[1].t
      t == regs[2].t
      e == regs[3].t
      Cond(idx) == IF Rank(regs[1]) = 0 THEN ScalarOf(regs[1]) ELSE Get(c, idx)
  IN  Result(/\ t.dims = e.dims /\ (Rank(regs[1]) # 0 => t.dims = c.dims)
             /\ IsFullyInitialized(t) /\ IsFullyInitialized(e),
             MkIte(Cond, t, e))

-----------------------------------------------------------------------------
(* Rearranging elements. *)

EncodeConcat(o, regs) ==
  LET axis == o.p[1][1]
      Fits(i) == \A d \in DOMAIN regs[i].t.dims :
                   d # axis => regs[1].t.dims[d] = regs[i].t.dims[d]
  IN  Result(AllInitialized(regs) /\ \A i \in 2..Len(regs) : Fits(i),
             FoldLeft(LAMBDA t, reg : Concat(t, reg.t, axis), regs[1].t, Tail(regs)))

EncodeReverse(o, regs) == Result(AllInitialized(regs), ReverseAxis(regs[1].t, o.p[1][1]))
EncodeTile(o, regs) == Result(AllInitialized(regs), Tile(regs[1].t, o.p[1]))

\* perms: o.p[1], one-based.
EncodeTranspose(o, regs) ==
  LET t == regs[1].t
      perms == o.p[1]
      DimFrom(i) == CHOOSE j \in DOMAIN perms : perms[j] = i
  IN  Result(AllInitialized(regs),
             IF \A i \in DOMAIN perms : perms[i] = i THEN t
             ELSE MkInitializedLambda([i \in DOMAIN perms |-> t.dims[perms[i]]],
                    LAMBDA idx : Get(t, [i \in DOMAIN perms |-> idx[DimFrom(i)]])))

\* The elements of indices are numbers.
EncodeGather(o, regs) ==
  LET values == regs[1].t
      indices == regs[2].t
      outputDims == <<values.dims[1], indices.dims[2], values.dims[3]>>
      source(idx) == <<idx[1], Get(indices, <<idx[1], idx[2]>>).n, idx[3]>>
  IN  Result(/\ \A idx \in Indices(outputDims) :
                  /\ IsInBounds(indices, <<idx[1], idx[2]>>)
                  /\ IsInBounds(values, source(idx))
                  /\ IsInitialized(values, source(idx))
             /\ IsFullyInitialized(indices),
             MkInitializedLambda(outputDims, LAMBDA idx : Get(values, source(idx))))

EncodeExtract(o, regs) ==
  LET idxs == IF o.p[1] = <<>> THEN <<0>> ELSE o.p[1]
      t == regs[1].t
  IN  Result(IsInBounds(t, idxs) /\ IsInitialized(t, idxs), Scalar(Get(t, idxs)))

EncodeInsert(o, regs) ==
  LET idxs == IF o.p[1] = <<>> THEN <<0>> ELSE o.p[1]
  IN  Result(IsInBounds(regs[2].t, idxs), Insert(regs[2].t, ScalarOf(regs[1]), idxs))

-----------------------------------------------------------------------------
(* Slices: p = offsets, sizes, strides, and how a size is given: 1 for an  *)
(* attribute, 2 for a register with a known number, 0 for any register.    *)

SliceInBounds(dims, offsets, sizes) ==
  \A i \in DOMAIN sizes :
    offsets[i] < dims[i] /\ sizes[i] <= dims[i] /\ Wrap(offsets[i] + sizes[i]) <= dims[i]

\* Positions of sizes, one for each dimension of the result that is not
\* statically one: sizes that are the attribute 1 are skipped.
SizeFor(resTy, sizes, isAttr) ==
  LET next(j) == CHOOSE k \in j..Len(sizes) :
                   /\ ~(isAttr[k] = 1 /\ sizes[k] = 1)
                   /\ \A m \in j..(k - 1) : isAttr[m] = 1 /\ sizes[m] = 1
      \* 0 for a dimension of size one, and how far the search has come.
      found[i \in 0..Len(resTy)] ==
        IF i = 0 THEN [at |-> 0, upTo |-> 0]
        ELSE IF resTy[i] = 1 THEN [at |-> 0, upTo |-> found[i - 1].upTo]
        ELSE LET k == next(found[i - 1].upTo + 1) IN [at |-> k, upTo |-> k]
  IN  [i \in 1..Len(resTy) |-> found[i].at]

\* The dimension of the result for each source dimension, 0 for a dropped one.
ResultDim(resTy, sizes, isAttr) ==
  LET dropped(i, n) == \/ n >= Len(resTy)
                       \/ isAttr[i] # 0 /\ sizes[i] = 1 /\ resTy[n + 1] # 1
      used[i \in 0..Len(sizes)] ==
        IF i = 0 THEN 0 ELSE IF dropped(i, used[i - 1]) THEN used[i - 1] ELSE used[i - 1] + 1
  IN  [i \in 1..Len(sizes) |-> IF used[i] = used[i - 1] THEN 0 ELSE used[i]]

EncodeExtractSlice(o, regs) ==
  LET src == regs[1].t
      offsets == o.p[1]
      sizes == o.p[2]
      strides == o.p[3]
      at == SizeFor(o.ty, sizes, o.p[4])
      dims == [i \in DOMAIN o.ty |-> IF at[i] = 0 THEN 1 ELSE sizes[at[i]]]
      to == ResultDim(o.ty, sizes, o.p[4])
  IN  Result(/\ SliceInBounds(src.dims, offsets, sizes)
             /\ \A i \in DOMAIN sizes : to[i] # 0 => sizes[i] = dims[to[i]]
             /\ IsFullyInitialized(src),
             MkInitializedLambda(dims,
               LAMBDA idx : Get(src, [i \in DOMAIN sizes |->
                                        IF to[i] = 0 THEN offsets[i]
                                        ELSE Wrap(idx[to[i]] * strides[i] + offsets[i])])))

EncodeInsertSlice(o, regs) ==
  LET src == regs[1].t
      tgt == regs[2].t
      offsets == o.p[1]
      sizes == o.p[2]
      strides == o.p[3]
      ahead(idx, i) == Wrap(idx[i] - offsets[i])
      chosen(idx) == \A i \in DOMAIN sizes :
                       /\ URem(ahead(idx, i), strides[i]) = 0
                       /\ ahead(idx, i) < Wrap(sizes[i] * strides[i])
      srcIdxs(idx) == [i \in DOMAIN sizes |-> UDiv(ahead(idx, i), strides[i])]
  IN  IF Rank(regs[1]) # Rank(regs[2]) THEN Unsupported
      ELSE Result(/\ SliceInBounds(tgt.dims, offsets, sizes)
                  /\ \A i \in DOMAIN sizes : sizes[i] = src.dims[i]
                  /\ \A idx \in Indices(tgt.dims) :
                       IF chosen(idx) THEN IsInBounds(src, srcIdxs(idx)) ELSE IsInitialized(tgt, idx)
                  /\ IsFullyInitialized(src),
                  MkInitializedLambda(tgt.dims,
                    LAMBDA idx : IF chosen(idx) THEN Get(src, srcIdxs(idx)) ELSE Get(tgt, idx)))

\* p = low, high; the body yields its term over the loop variables and the
\* second operand.
EncodePad(o, regs) ==
  LET src == regs[1].t
      low == o.p[1]
      dims == [i \in DOMAIN low |-> Wrap(src.dims[i] + low[i] + o.p[2][i])]
      isSource(idx) == \A i \in DOMAIN low : low[i] <= idx[i] /\ idx[i] < Wrap(low[i] + src.dims[i])
      padded(idx) == Eval(o.body[1], <<src, ScalarOf(regs[2])>>, idx)
  IN  Result((IsStatic(o.ty) => dims = o.ty) /\ IsFullyInitialized(src),
             MkInitializedLambda(dims,
               LAMBDA idx : IF isSource(idx) THEN Get(src, [i \in DOMAIN low |-> Wrap(idx[i] - low[i])])
                            ELSE padded(idx)))

-----------------------------------------------------------------------------
(* Shapes. *)

GroupSize(group, dims) == FoldLeft(LAMBDA a, d : Wrap(a * dims[d]), 1, group)

\* p: the source dimensions of each dimension of the result.
EncodeCollapseShape(o, regs) ==
  LET t == regs[1].t
      newDims == IF o.p = <<>> THEN <<1>> ELSE [i \in DOMAIN o.p |-> GroupSize(o.p[i], t.dims)]
  IN  Result(/\ \A i \in DOMAIN o.p : o.ty[i] # Dynamic => newDims[i] = o.ty[i]
             /\ Size(t) = Get1DSize(newDims),
             Reshape(t, newDims))

\* p: the dimensions of the result for each source dimension.  With one
\* unknown size in a group the source must be divisible by the others;
\* without, nothing is asked.
EncodeExpandShape(o, regs) ==
  LET t == regs[1].t
      unknown(i) == {d \in ToSet(o.p[i]) : o.ty[d] = Dynamic}
      known(i) == FoldLeft(LAMBDA a, d : IF o.ty[d] = Dynamic THEN a ELSE a * o.ty[d], 1, o.p[i])
      groupOf(d) == CHOOSE i \in DOMAIN o.p : d \in ToSet(o.p[i])
      newdims == [d \in DOMAIN o.ty |->
                    IF o.ty[d] = Dynamic THEN UDiv(t.dims[groupOf(d)], known(groupOf(d))) ELSE o.ty[d]]
  IN  IF \E i \in DOMAIN o.p : \/ Cardinality(unknown(i)) > 1
                               \/ unknown(i) # {} /\ known(i) >= Modulus
      THEN Unsupported
      ELSE Result(\A i \in DOMAIN o.p : unknown(i) # {} => URem(t.dims[i], known(i)) = 0,
                  Reshape(t, newdims))

\* A variant that does not refuse a size that is to be inferred.
EncodeReshape_Inferred(o, regs) ==
  Result(Size(regs[1].t) = Get1DSize(o.p[1]), Reshape(regs[1].t, o.p[1]))

EncodeReshape(o, regs) ==
  IF \E i \in DOMAIN o.p[1] : o.p[1][i] = Dynamic THEN Unsupported
  ELSE Result(Size(regs[1].t) = Get1DSize(o.p[1]), Reshape(regs[1].t, o.p[1]))

EncodeCast(o, regs) == Result(MatchesType(regs[1].t, o.ty), regs[1].t)

EncodeDim(o, regs) ==
  LET dims == regs[1].t.dims
      i == o.p[1][1]
  IN  Result(i < Len(dims), Scalar(Number(IF i \in 1..(Len(dims) - 1) THEN dims[i + 1] ELSE dims[1])))

-----------------------------------------------------------------------------
(* New tensors. *)

\* The sizes of a type whose dynamic ones are given.
SizesOf(ty, dynamic) ==
  LET nth(i) == Cardinality({j \in 1..i : ty[j] = Dynamic})
  IN  [i \in DOMAIN ty |-> IF ty[i] = Dynamic THEN dynamic[nth(i)] ELSE ty[i]]

EncodeEmpty(o, fresh) == Result(TRUE, Var("init_tensor", fresh, Shape(SizesOf(o.ty, o.p[1])), FALSE))
EncodeFill(o, regs) == Result(TRUE, Splat(ScalarOf(regs[1]), regs[2].t.dims))
EncodeFromElements(o, regs) ==
  Result(TRUE, FromElems([i \in DOMAIN regs |-> ScalarOf(regs[i])], Shape(o.ty)))

\* Bounds are inclusive and grow by one again.
EncodeGenerate(o) ==
  LET bounds == [i \in DOMAIN o.ty |-> Wrap(SizesOf(o.ty, o.p[1])[i] - 1)]
  IN  Result(TRUE, MkInitializedLambda(AddOne(bounds), LAMBDA idx : Eval(o.body[1], <<>>, idx)))

-----------------------------------------------------------------------------
(* Products and sums. *)

EncodeMatmul(o, regs) ==
  Result(AllInitialized(regs), MatMul(regs[1].t, regs[2].t, FALSE, <<regs[3].t>>))

EncodeDot(o, regs) ==
  LET t1 == regs[1].t
      t2 == regs[2].t
  IN  IF Len(Shape(o.ty)) # 1 THEN Unsupported
      ELSE Result(AllInitialized(regs) /\ Size(t1) = Size(t2),
                  Splat(Dot(t1, t2, <<Get(regs[3].t, <<0>>)>>), Shape(o.ty)))

EncodeFullyConnected(o, regs) ==
  LET input == regs[1].t
      weight == regs[2].t
      bias == regs[3].t
      biasBroadcasted == Affine(bias, LAMBDA idx : <<idx[2]>>, <<input.dims[1], weight.dims[1]>>)
  IN  Result(/\ input.dims[2] = weight.dims[2] /\ weight.dims[1] = bias.dims[1]
             /\ AllInitialized(regs),
             ElementwiseBinOp(MatMul(input, weight, TRUE, <<>>), biasBroadcasted, Add))

EncodeReduceSum(o, regs) == Result(AllInitialized(regs), SumAxis(regs[1].t, o.p[1][1]))

\* p = kernel, strides, padding, which must be zero.
EncodeTosaPool(o, regs) ==
  IF \E i \in DOMAIN o.p[3] : o.p[3][i] # 0 THEN Unsupported
  ELSE Result(AllInitialized(regs),
              IF o.op = "tosa.avg_pool2d" THEN AvgPool(regs[1].t, o.p[1], o.p[2])
              ELSE MaxPool(regs[1].t, o.p[1], o.p[2], <<>>))

\* p = the stride, the dilation; the second operand only has the kernel's shape.
EncodeLinalgPool(o, regs) ==
  LET strides == <<o.p[1][1], o.p[1][1]>>
      PoolBy(Reduce(_, _, _)) == Pool(regs[1].t, regs[2].t.dims, strides, Reduce, <<regs[3].t>>)
  IN  IF o.p[2][1] # 1 THEN Unsupported
      ELSE Result(IsFullyInitialized(regs[1].t) /\ IsFullyInitialized(regs[3].t),
                  IF o.op = "linalg.pooling_nhwc_max" THEN PoolBy(MaxOf) ELSE PoolBy(SumOf))

-----------------------------------------------------------------------------
(* Convolutions: p = strides, dilations, and padding in tosa. *)

EncodeConv(o, regs, layout) ==
  Result(AllInitialized(regs), Conv(regs[1].t, regs[2].t, o.p[1], o.p[2], layout, <<regs[3].t>>))

EncodeDepthwiseConv(o, regs) ==
  Result(AllInitialized(regs),
         DepthwiseConv2D(regs[1].t, regs[2].t, o.p[1], o.p[2], <<>>, <<regs[3].t>>))

\* pad = top, bottom, left, right.
GetPaddedTensor2D(t, pad) ==
  LET inside(idx) == /\ pad[1] <= idx[2] /\ idx[2] < Wrap(pad[1] + t.dims[2])
                     /\ pad[3] <= idx[3] /\ idx[3] < Wrap(pad[3] + t.dims[3])
  IN  IF \A i \in DOMAIN pad : pad[i] = 0 THEN t
      ELSE MkInitializedLambda(
             <<t.dims[1], Wrap(t.dims[2] + pad[1] + pad[2]), Wrap(t.dims[3] + pad[3] + pad[4]), t.dims[4]>>,
             LAMBDA idx : IF inside(idx)
                          THEN Get(t, <<idx[1], Wrap(idx[2] - pad[1]), Wrap(idx[3] - pad[3]), idx[4]>>)
                          ELSE Zero)

AddBias2D(dims, acc, bias) ==
  MkInitializedLambda(dims, LAMBDA idx : Add(Get(acc, idx), Get(bias, <<idx[4]>>)))

EncodeTosaConv2D(o, regs) ==
  LET weight == regs[2].t
      bias == regs[3].t
      acc == Conv(GetPaddedTensor2D(regs[1].t, o.p[3]), weight, o.p[1], o.p[2], "NHWC_FHWC", <<>>)
  IN  Result(/\ regs[1].t.dims[4] = weight.dims[4] /\ weight.dims[1] = bias.dims[1]
             /\ AllInitialized(regs),
             AddBias2D(acc.dims, acc, bias))

EncodeTosaDepthwise(o, regs) ==
  LET weight == regs[2].t
      bias == regs[3].t
  IN  Result(/\ regs[1].t.dims[4] = weight.dims[3]
             /\ bias.dims[1] = Wrap(weight.dims[3] * weight.dims[4])
             /\ AllInitialized(regs),
             DepthwiseConv2D(GetPaddedTensor2D(regs[1].t, o.p[3]), weight, o.p[1], o.p[2], <<bias>>, <<>>))
=============================================================================
