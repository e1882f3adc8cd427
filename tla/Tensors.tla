------------------------------- MODULE Tensors -------------------------------
(***************************************************************************)
(* Tensors as the encoder builds them (value.cpp, and the index functions  *)
(* of smt.cpp).  A tensor is a sequence of dimension sizes and two arrays  *)
(* over all machine indices, whatever the sizes are: the elements, in row  *)
(* major order, and whether they are initialized.  What lies beyond the    *)
(* last element is there too and may be read by mistake.                   *)
(*                                                                         *)
(* Lambdas of the code are functions over Cells here, and substituting for *)
(* bound variables is applying an operator.                                *)
(***************************************************************************)
EXTENDS Terms

CONSTANT Modulus   \* 2^Index::BITS

ASSUME ModulusOK == Modulus \in Nat \ {0}

Cells == 0..(Modulus - 1)

-----------------------------------------------------------------------------
(* Machine arithmetic and linear indices. *)

Wrap(i)    == i % Modulus
UDiv(a, b) == IF b = 0 THEN Modulus - 1 ELSE a \div b
URem(a, b) == IF b = 0 THEN a ELSE a % b
CeilDiv(size, window, stride) == UDiv(Wrap(size - window + stride), stride)

\* Nothing bounds the first index: it takes what is left of the linear index.
From1DIdx(cell, dims) ==
  LET rest[i \in 1..Len(dims)] ==
        IF i = Len(dims) THEN cell ELSE UDiv(rest[i + 1], dims[i + 1])
  IN  [i \in 1..Len(dims) |-> IF i = 1 THEN rest[1] ELSE URem(rest[i], dims[i])]

To1DIdx(idxs, dims) ==
  LET upTo[i \in 1..Len(idxs)] ==
        IF i = 1 THEN idxs[1] ELSE Wrap(upTo[i - 1] * dims[i] + idxs[i])
  IN  IF idxs = <<>> THEN 0 ELSE upTo[Len(idxs)]

Get1DSize(dims) ==
  LET upTo[i \in 0..Len(dims)] == IF i = 0 THEN 1 ELSE Wrap(upTo[i - 1] * dims[i])
  IN  upTo[Len(dims)]

FitsInDims(idxs, sizes) == \A i \in 1..Len(idxs) : idxs[i] < sizes[i]

-----------------------------------------------------------------------------
(* Making and reading tensors. *)

Tensor(dims, arr, init) == [dims |-> dims, arr |-> arr, init |-> init]

Always == [c \in Cells |-> TRUE]

\* A tensor without index variables has one element.
Shape(dims) == IF dims = <<>> THEN <<1>> ELSE dims

MkLambda(newdims, Body(_), Init(_)) ==
  Tensor(Shape(newdims),
         [c \in Cells |-> Body(From1DIdx(c, Shape(newdims)))],
         [c \in Cells |-> Init(From1DIdx(c, Shape(newdims)))])

MkInitializedLambda(newdims, Body(_)) == MkLambda(newdims, Body, LAMBDA idxs : TRUE)
MkLambdaFrom1D(newdims, Body(_)) == Tensor(newdims, [c \in Cells |-> Body(c)], Always)

Splat(elem, dims) == Tensor(dims, [c \in Cells |-> elem], Always)
Var(kind, id, dims, initialized) ==
  Tensor(dims, [c \in Cells |-> Unknown(kind, id, c)], [c \in Cells |-> initialized])
FromElems(elems, dims) ==
  Tensor(dims, [c \in Cells |-> IF c < Len(elems) THEN elems[c + 1] ELSE Leaf("tensor_val", c)],
         Always)
Sparse(indices, elems, dims, zero) ==
  LET stored(c) == {i \in 1..Len(indices) : To1DIdx(indices[i], dims) = c}
  IN  Tensor(dims, [c \in Cells |->
                      IF stored(c) = {} THEN zero
                      ELSE elems[CHOOSE i \in stored(c) : \A j \in stored(c) : j <= i]],
             Always)

Get(t, idxs) == t.arr[To1DIdx(idxs, t.dims)]
IsInitialized(t, idxs) == t.init[To1DIdx(idxs, t.dims)]
IsInBounds(t, idxs) == FitsInDims(idxs, t.dims)
Size(t) == Get1DSize(t.dims)

\* For all index variables, whether or not they are in bounds; the last of
\* them alone reaches every cell.
IsFullyInitialized(t) == \A c \in Cells : t.init[c]

-----------------------------------------------------------------------------
(* Moving elements. *)

Insert(t, value, idxs) ==
  LET at == To1DIdx(idxs, t.dims)
      org(c) == From1DIdx(c, t.dims)
  IN  Tensor(t.dims,
             [c \in Cells |-> IF c = at THEN value ELSE Get(t, org(c))],
             [c \in Cells |-> c = at \/ IsInitialized(t, org(c))])

Affine(t, SrcIdxs(_), newsizes) ==
  Tensor(newsizes, [c \in Cells |-> Get(t, SrcIdxs(From1DIdx(c, newsizes)))], Always)

\* A variant that takes one index too many from the first tensor.
Concat_Inclusive(t, t2, axis) ==
  MkInitializedLambda(
    [t.dims EXCEPT ![axis] = Wrap(@ + t2.dims[axis])],
    LAMBDA idx : IF idx[axis] <= t.dims[axis] THEN Get(t, idx)
                 ELSE Get(t2, [idx EXCEPT ![axis] = Wrap(@ - t.dims[axis])]))

Concat(t, t2, axis) ==
  MkInitializedLambda(
    [t.dims EXCEPT ![axis] = Wrap(@ + t2.dims[axis])],
    LAMBDA idx : IF idx[axis] < t.dims[axis] THEN Get(t, idx)
                 ELSE Get(t2, [idx EXCEPT ![axis] = Wrap(@ - t.dims[axis])]))

Reshape(t, newdims) == [t EXCEPT !.dims = newdims]

ReverseAxis(t, axis) ==
  MkInitializedLambda(t.dims, LAMBDA idx : Get(t, [idx EXCEPT ![axis] = Wrap(t.dims[axis] - @ - 1)]))

Tile(t, repeat) ==
  MkInitializedLambda([i \in DOMAIN repeat |-> Wrap(t.dims[i] * repeat[i])],
                      LAMBDA idx : Get(t, [i \in DOMAIN idx |-> URem(idx[i], t.dims[i])]))

Transpose(t) ==
  MkInitializedLambda(<<t.dims[2], t.dims[1]>>, LAMBDA idx : Get(t, <<idx[2], idx[1]>>))

\* The element type of conditions is i1.
IsOne(e) == IF IsBits(e) THEN e.val = 1 ELSE e = Number(1)
MkIte(Cond(_), t, e) ==
  MkLambda(t.dims,
           LAMBDA idx : IF IsOne(Cond(idx)) THEN Get(t, idx) ELSE Get(e, idx),
           LAMBDA idx : IF IsOne(Cond(idx)) THEN IsInitialized(t, idx)
                        ELSE IsInitialized(e, idx))

\* An array, not a tensor: the elements from an offset on.
To1DArrayWithOfs(t, ofs, sizes) ==
  [c \in Cells |->
     LET rel == From1DIdx(c, sizes) IN Get(t, [i \in DOMAIN ofs |-> Wrap(rel[i] + ofs[i])])]

-----------------------------------------------------------------------------
(* Arithmetic.  An initial value is a sequence of at most one term. *)

Elems(arr, n) == [i \in 1..n |-> arr[i - 1]]
SumOf(arr, n, init) == App("sum", init \o Elems(arr, n))
MaxOf(arr, n, init) == App("max", init \o Elems(arr, n))
DotOf(a, b, n, init) == App("sum", init \o [i \in 1..n |-> Mul(a[i - 1], b[i - 1])])

ElementwiseBinOp(t, b, F(_, _)) == MkLambdaFrom1D(t.dims, LAMBDA c : F(t.arr[c], b.arr[c]))
ElementwiseUnaryOp(t, F(_)) == MkLambdaFrom1D(t.dims, LAMBDA c : F(t.arr[c]))

Dot(t, t2, init) == DotOf(t.arr, t2.arr, Size(t), init)
Sum(t, init) == SumOf(t.arr, Size(t), init)

\* init: a sequence of at most one tensor.
InitAt(init, idxs) == [i \in DOMAIN init |-> Get(init[i], idxs)]

SumAxis(t, axis) ==
  MkInitializedLambda(
    [t.dims EXCEPT ![axis] = 1],
    LAMBDA idx : SumOf(To1DArrayWithOfs(t, [idx EXCEPT ![axis] = 0],
                                        [i \in DOMAIN idx |-> IF i = axis THEN t.dims[i] ELSE 1]),
                       t.dims[axis], <<>>))

MatMul(a, b, bTransposed, init) ==
  LET bt == IF bTransposed THEN b ELSE Transpose(b)
      Row(t, i) == To1DArrayWithOfs(t, <<i, 0>>, <<1, t.dims[2]>>)
  IN  MkInitializedLambda(<<a.dims[1], bt.dims[1]>>,
        LAMBDA idx : DotOf(Row(a, idx[1]), Row(bt, idx[2]), a.dims[2], InitAt(init, idx)))

\* N, OH, OW, C from N, H, W, C.
Pool(t, kernelDims, strides, Reduce(_, _, _), init) ==
  LET window(out) ==
        [c \in Cells |->
           LET k == From1DIdx(c, kernelDims)
           IN  Get(t, <<out[1], Wrap(out[2] * strides[1] + k[1]),
                        Wrap(out[3] * strides[2] + k[2]), out[4]>>)]
  IN  MkInitializedLambda(
        <<t.dims[1], CeilDiv(t.dims[2], kernelDims[1], strides[1]),
          CeilDiv(t.dims[3], kernelDims[2], strides[2]), t.dims[4]>>,
        LAMBDA out : Reduce(window(out), Wrap(kernelDims[1] * kernelDims[2]), InitAt(init, out)))

SumPool(t, kernelDims, strides, init) == Pool(t, kernelDims, strides, SumOf, init)
MaxPool(t, kernelDims, strides, init) == Pool(t, kernelDims, strides, MaxOf, init)
AvgPool(t, kernelDims, strides) ==
  Pool(t, kernelDims, strides,
       LAMBDA arr, n, init : App("div", <<SumOf(arr, n, init), Number(n)>>), <<>>)

-----------------------------------------------------------------------------
(* Convolution.  The layouts differ in where the n spatial dimensions of   *)
(* the filter, of the input and of the output begin, and where channels    *)
(* are.  Cubes have the spatial dimensions of the filter and the channel.  *)

NumSpatial(filter) == Len(filter.dims) - 2
FilterFrom(layout) == CASE layout = "NHWC_HWCF" -> 0 [] layout = "NCHW_FCHW" -> 2 [] layout = "NHWC_FHWC" -> 1
InputFrom(layout) == IF layout = "NCHW_FCHW" THEN 2 ELSE 1
InChannels(filter, layout) ==
  CASE layout = "NHWC_HWCF" -> filter.dims[NumSpatial(filter) + 1]
    [] layout = "NCHW_FCHW" -> filter.dims[2]
    [] layout = "NHWC_FHWC" -> filter.dims[NumSpatial(filter) + 2]
OutChannels(filter, layout) ==
  IF layout = "NHWC_HWCF" THEN Last(filter.dims) ELSE filter.dims[1]

CubeSize(filter, layout) ==
  Append([i \in 1..NumSpatial(filter) |-> filter.dims[i + FilterFrom(layout)]],
         InChannels(filter, layout))

ConvElem(t, filter, strides, dilations, layout, init, out) ==
  LET cubeSize == CubeSize(filter, layout)
      channel == IF layout = "NCHW_FCHW" THEN out[2] ELSE Last(out)
      filterIdxs(cube) ==
        CASE layout = "NHWC_HWCF" -> Append(cube, channel)
          [] layout = "NCHW_FCHW" -> <<channel, Last(cube)>> \o Front(cube)
          [] layout = "NHWC_FHWC" -> <<channel>> \o cube
      spatial(cube) ==
        [i \in 1..NumSpatial(filter) |->
           Wrap(out[i + InputFrom(layout)] * strides[i] + cube[i] * dilations[i])]
      inputIdxs(cube) ==
        IF layout = "NCHW_FCHW" THEN <<out[1], Last(cube)>> \o spatial(cube)
        ELSE Append(<<out[1]>> \o spatial(cube), Last(cube))
  IN  DotOf([c \in Cells |-> Get(t, inputIdxs(From1DIdx(c, cubeSize)))],
            [c \in Cells |-> Get(filter, filterIdxs(From1DIdx(c, cubeSize)))],
            Get1DSize(cubeSize), init)

ConvDims(t, filter, strides, dilations, layout) ==
  LET spatial ==
        [i \in 1..NumSpatial(filter) |->
           CeilDiv(t.dims[i + InputFrom(layout)],
                   dilations[i] * filter.dims[i + FilterFrom(layout)], strides[i])]
  IN  IF layout = "NCHW_FCHW" THEN <<t.dims[1], OutChannels(filter, layout)>> \o spatial
      ELSE Append(<<t.dims[1]>> \o spatial, OutChannels(filter, layout))

Conv(t, filter, strides, dilations, layout, output) ==
  MkInitializedLambda(ConvDims(t, filter, strides, dilations, layout),
    LAMBDA out : ConvElem(t, filter, strides, dilations, layout, InitAt(output, out), out))

\* One convolution of one input channel and one filter for each element.
\* With a bias the channels and the multiplier are one dimension of the result.
DepthwiseConv2D(t, filter, strides, dilations, bias, output) ==
  LET C == filter.dims[3]
      M == filter.dims[4]
      flat == bias # <<>>
      c(out) == IF flat THEN UDiv(out[4], M) ELSE out[4]
      m(out) == IF flat THEN URem(out[4], M) ELSE out[5]
      input2D(out) ==
        MkInitializedLambda(<<1, t.dims[2], t.dims[3], 1>>,
                            LAMBDA i : Get(t, <<out[1], i[2], i[3], c(out)>>))
      weight2D(out) ==
        MkInitializedLambda(<<filter.dims[1], filter.dims[2], 1, 1>>,
                            LAMBDA i : Get(filter, <<i[1], i[2], c(out), m(out)>>))
      output2D(o, out) ==
        MkInitializedLambda(<<1, o.dims[2], o.dims[3], 1>>,
          LAMBDA i : Get(o, <<out[1], i[2], i[3]>> \o
                            (IF flat THEN <<out[4]>> ELSE <<c(out), m(out)>>)))
      t2D(out) ==
        Conv(input2D(out), weight2D(out), strides, dilations, "NHWC_HWCF",
             [i \in DOMAIN output |-> output2D(output[i], out)])
      accVal(out) == Get(t2D(out), <<0, out[2], out[3], 0>>)
      outDims == ConvDims(t, filter, strides, dilations, "NHWC_HWCF")
  IN  IF flat
      THEN MkInitializedLambda(<<t.dims[1], outDims[2], outDims[3], Wrap(C * M)>>,
                               LAMBDA out : Add(accVal(out), Get(bias[1], <<out[4]>>)))
      ELSE MkInitializedLambda(<<t.dims[1], outDims[2], outDims[3], C, M>>, accVal)

-----------------------------------------------------------------------------
(* Refinement: a condition for every machine index.  Tensor::refines is    *)
(* written for a source t and a target other, whatever its declaration     *)
(* says, because ::refines(tgt, src) visits its arguments in the other     *)
(* order.                                                                  *)

TensorRefines(t, other) ==
  /\ other.dims = t.dims
  /\ \A i \in Cells :
       i < Size(t) => (t.init[i] => other.init[i] /\ Denoted(other.arr[i]) = Denoted(t.arr[i]))

\* A variant whose visit keeps the order of its arguments.
Refines_Unswapped(tgt, src) == TensorRefines(tgt, src)

Refines(tgt, src) == TensorRefines(src, tgt)
=============================================================================
