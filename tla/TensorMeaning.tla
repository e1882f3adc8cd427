---------------------------- MODULE TensorMeaning ----------------------------
(***************************************************************************)
(* What programs on tensors mean, without machine indices: a value has its *)
(* elements by their indices, and an operation says for each index of the  *)
(* result what is there.  A program stops at an operation that has no      *)
(* meaning for its operands, undefined behaviour, or that the encoder may  *)
(* refuse.                                                                 *)
(***************************************************************************)
EXTENDS Regions, IntegerMeaning

CONSTANT Programs   \* what is encoded

VARIABLES
  prog,     \* the program
  values,   \* the values of its registers so far
  status    \* "running", "undefined", "unsupported"

vars == <<prog, values, status>>

-----------------------------------------------------------------------------
(* Values. *)

Product(seq) == FoldLeft(LAMBDA a, d : a * d, 1, seq)

Value(dims, Elem(_)) ==
  [dims |-> dims, elem |-> [idx \in Box(dims) |-> Elem(idx)], init |-> Box(dims)]
Single(elem) == Value(<<>>, LAMBDA idx : elem)
Fresh(kind, id, dims) == Value(dims, LAMBDA idx : Unknown(kind, id, Linear(idx, dims)))

At(v, idx) == v.elem[idx]
In(v, idx) == idx \in DOMAIN v.elem
Whole(v) == v.init = DOMAIN v.elem
ScalarIn(v) == v.elem[<<>>]
InOrder(v) == [i \in DOMAIN Lex(v.dims) |-> At(v, Lex(v.dims)[i])]

\* The results of an operation, if the condition holds.
Results(defined, vs) == IF defined THEN [defined |-> TRUE, vs |-> vs] ELSE [defined |-> FALSE, vs |-> <<>>]
Means(defined, v) == Results(defined, <<v>>)

SumOver(init, terms) == App("sum", init \o terms)

\* A tensor without dimensions is one of a single element.
NonEmpty(ty) == IF ty = <<>> THEN <<1>> ELSE ty
Sizes(ty, given) ==
  NonEmpty([i \in DOMAIN ty |->
              IF ty[i] # Dynamic THEN ty[i] ELSE given[Cardinality({j \in 1..i : ty[j] = Dynamic})]])

-----------------------------------------------------------------------------
(* Operations on elements. *)

Elementwise1 == {"tosa.abs", "tosa.negate", "tosa.exp", "tosa.reciprocal", "math.absf", "arith.negf", "math.exp"}
Elementwise2 == {"tosa.add", "tosa.sub", "tosa.mul", "arith.addf", "arith.subf", "arith.mulf", "arith.divf"}

OfElements(op, e) ==
  CASE op \in {"tosa.add", "arith.addf"}    -> Add(e[1], e[2])
    [] op \in {"tosa.sub", "arith.subf"}    -> Add(e[1], App("neg", <<e[2]>>))
    [] op \in {"tosa.mul", "arith.mulf"}    -> Mul(e[1], e[2])
    [] op = "arith.divf"                    -> App("div", e)
    [] op = "tosa.reciprocal"               -> App("div", <<Number(1), e[1]>>)
    [] op \in {"tosa.abs", "math.absf"}     -> App("abs", e)
    [] op \in {"tosa.negate", "arith.negf"} -> App("neg", e)
    [] op \in {"tosa.exp", "math.exp"}      -> App("exp", e)

-----------------------------------------------------------------------------
(* Elementwise operations.  Shapes are aligned at their ends; an operand   *)
(* is repeated along a dimension that it does not have or that its type    *)
(* says is of size one.                                                    *)

Broadcasting(op, tyA, a, tyB, b) ==
  LET rank == IF Len(a.dims) > Len(b.dims) THEN Len(a.dims) ELSE Len(b.dims)
      Own(v, i) == i > rank - Len(v.dims)
      Of(v, i) == i - rank + Len(v.dims)
      Repeated(ty, v, i) == ~Own(v, i) \/ NonEmpty(ty)[Of(v, i)] = 1
      dims == [i \in 1..rank |-> IF Repeated(tyA, a, i) THEN IF Own(b, i) THEN b.dims[Of(b, i)] ELSE 1
                                 ELSE a.dims[Of(a, i)]]
      From(ty, v, idx) == At(v, [i \in 1..Len(v.dims) |->
                                   IF NonEmpty(ty)[i] = 1 THEN 0 ELSE idx[i + rank - Len(v.dims)]])
      agree == \A i \in 1..rank : ~Repeated(tyA, a, i) /\ ~Repeated(tyB, b, i) =>
                                    a.dims[Of(a, i)] = b.dims[Of(b, i)]
  IN  Means(agree /\ Whole(a) /\ Whole(b),
            Value(dims, LAMBDA idx : OfElements(op, <<From(tyA, a, idx), From(tyB, b, idx)>>)))

Selecting(c, a, b) ==
  LET taken(idx) == IF (IF c.dims = <<>> THEN ScalarIn(c) ELSE At(c, idx)) \in {Number(1), Bit(TRUE)} THEN a ELSE b
  IN  Means(/\ a.dims = b.dims /\ c.dims \in {<<>>, a.dims} /\ Whole(a) /\ Whole(b),
            Value(a.dims, LAMBDA idx : At(taken(idx), idx)))

-----------------------------------------------------------------------------
(* Rearranging elements. *)

Concatenation(operands, axis) ==
  LET upTo[n \in 0..Len(operands)] ==
        IF n = 0 THEN 0 ELSE upTo[n - 1] + operands[n].dims[axis]
      part(x) == CHOOSE n \in DOMAIN operands : upTo[n - 1] <= x /\ x < upTo[n]
  IN  Means(/\ \A n \in DOMAIN operands : Whole(operands[n])
            /\ \A n \in DOMAIN operands, d \in DOMAIN operands[1].dims :
                 d # axis => operands[n].dims[d] = operands[1].dims[d],
            Value([operands[1].dims EXCEPT ![axis] = upTo[Len(operands)]],
                  LAMBDA idx : At(operands[part(idx[axis])],
                                  [idx EXCEPT ![axis] = @ - upTo[part(@) - 1]])))

Reversal(v, axis) ==
  Means(Whole(v), Value(v.dims, LAMBDA idx : At(v, [idx EXCEPT ![axis] = v.dims[axis] - 1 - @])))

Tiling(v, repeat) ==
  Means(Whole(v), Value([i \in DOMAIN repeat |-> v.dims[i] * repeat[i]],
                        LAMBDA idx : At(v, [i \in DOMAIN idx |-> idx[i] % v.dims[i]])))

\* result[i_1, ..] = v[j_1, ..] with i_k = j_perms[k]
Permutation(v, perms) ==
  Means(Whole(v), Value([k \in DOMAIN perms |-> v.dims[perms[k]]],
                        LAMBDA idx : At(v, CHOOSE j \in DOMAIN v.elem :
                                             \A k \in DOMAIN perms : idx[k] = j[perms[k]])))

Gathering(v, indices) ==
  LET source(idx) == <<idx[1], At(indices, <<idx[1], idx[2]>>).n, idx[3]>>
      dims == <<v.dims[1], indices.dims[2], v.dims[3]>>
  IN  Means(/\ Whole(indices)
            /\ \A idx \in Box(dims) : In(indices, <<idx[1], idx[2]>>) /\ source(idx) \in v.init,
            Value(dims, LAMBDA idx : At(v, source(idx))))

\* Without indices it is about the only element.
Position(p) == IF p = <<>> THEN <<0>> ELSE p
Extraction(v, p) == Means(Position(p) \in v.init, Single(At(v, Position(p))))
Insertion(elem, v, p) ==
  LET at == Position(p)
  IN  Means(In(v, at), [v EXCEPT !.elem = [idx \in DOMAIN @ |-> IF idx = at THEN elem ELSE @[idx]],
                                 !.init = @ \cup {at}])

\* The source dimensions of which a slice takes more than one index, as far as
\* its type knows, are the dimensions of the result but those of size one.
Slice(v, ty, offsets, sizes, strides, given) ==
  LET far(i) == offsets[i] + (sizes[i] - 1) * strides[i]
      one(i) == given[i] = 1 /\ sizes[i] = 1
      kept == SelectSeq([i \in DOMAIN sizes |-> i], LAMBDA i : ~one(i))
      big == SelectSeq([i \in DOMAIN ty |-> i], LAMBDA i : ty[i] # 1)
      dims == [i \in DOMAIN ty |-> IF ty[i] = 1 THEN 1
                                   ELSE sizes[kept[CHOOSE k \in DOMAIN big : big[k] = i]]]
      source(idx) == [i \in DOMAIN sizes |->
                        IF one(i) THEN offsets[i]
                        ELSE offsets[i] + strides[i] * idx[big[CHOOSE k \in DOMAIN kept : kept[k] = i]]]
  IN  Means(/\ Whole(v) /\ \A i \in DOMAIN sizes : far(i) < v.dims[i],
            Value(NonEmpty(dims), LAMBDA idx : At(v, source(idx))))

Overwriting(src, v, offsets, sizes, strides) ==
  LET to(idx) == [i \in DOMAIN idx |-> offsets[i] + idx[i] * strides[i]]
      written == {to(idx) : idx \in DOMAIN src.elem}
  IN  Means(/\ src.dims = sizes /\ Whole(src)
            /\ written \subseteq DOMAIN v.elem /\ DOMAIN v.elem \ written \subseteq v.init,
            Value(v.dims, LAMBDA idx : IF idx \in written
                                       THEN At(src, CHOOSE s \in DOMAIN src.elem : to(s) = idx)
                                       ELSE At(v, idx)))

Padding(v, ty, low, high, body, elem) ==
  LET dims == [i \in DOMAIN low |-> low[i] + v.dims[i] + high[i]]
      source(idx) == [i \in DOMAIN low |-> idx[i] - low[i]]
  IN  Means(/\ Whole(v)
            /\ (\A i \in DOMAIN ty : ty[i] # Dynamic) => dims = ty,
            Value(dims, LAMBDA idx : IF In(v, source(idx)) THEN At(v, source(idx))
                                     ELSE Eval(body, <<Zero, elem>>, idx)))

\* The same elements in the same order.
Reshaping(v, dims) ==
  LET org(idx) == Lex(v.dims)[Linear(idx, dims) + 1]
  IN  Means(Product(v.dims) = Product(dims),
            [dims |-> dims, elem |-> [idx \in Box(dims) |-> At(v, org(idx))],
             init |-> {idx \in Box(dims) : org(idx) \in v.init}])

Collapsing(v, ty, groups) ==
  LET dims == NonEmpty([i \in DOMAIN groups |-> Product([k \in DOMAIN groups[i] |-> v.dims[groups[i][k]]])])
  IN  IF \A i \in DOMAIN ty : ty[i] \in {Dynamic, dims[i]} THEN Reshaping(v, dims)
      ELSE Means(FALSE, v)

\* The unknown size of a group is what makes the sizes fit.
Expanding(v, ty, groups) ==
  LET others(i) == Product([k \in DOMAIN groups[i] |->
                              IF ty[groups[i][k]] = Dynamic THEN 1 ELSE ty[groups[i][k]]])
      group(d) == CHOOSE i \in DOMAIN groups : d \in ToSet(groups[i])
  IN  IF \A i \in DOMAIN groups : v.dims[i] % others(i) = 0
      THEN Reshaping(v, [d \in DOMAIN ty |-> IF ty[d] # Dynamic THEN ty[d]
                                             ELSE v.dims[group(d)] \div others(group(d))])
      ELSE Means(FALSE, v)

DimensionOf(v, i) ==
  IF i \in DOMAIN v.dims THEN Means(TRUE, Single(Number(v.dims[i]))) ELSE Means(FALSE, v)

-----------------------------------------------------------------------------
(* Sums, in lexicographic order of what is summed over. *)

Map(seq, F(_)) == [i \in DOMAIN seq |-> F(seq[i])]

MatrixProduct(a, b, c) ==
  Means(Whole(a) /\ Whole(b) /\ Whole(c),
        Value(c.dims, LAMBDA idx :
          SumOver(<<At(c, idx)>>, Map(Lex(<<a.dims[2]>>),
                                      LAMBDA k : Mul(At(a, <<idx[1], k[1]>>), At(b, <<k[1], idx[2]>>))))))

DotProduct(a, b, c) ==
  Means(a.dims = b.dims /\ Whole(a) /\ Whole(b) /\ Whole(c),
        Value(<<1>>, LAMBDA idx : SumOver(<<At(c, <<0>>)>>,
                                          Map(Lex(a.dims), LAMBDA k : Mul(At(a, k), At(b, k))))))

FullConnection(x, w, bias) ==
  Means(/\ x.dims[2] = w.dims[2] /\ w.dims[1] = bias.dims[1]
        /\ Whole(x) /\ Whole(w) /\ Whole(bias),
        Value(<<x.dims[1], w.dims[1]>>, LAMBDA idx :
          Add(SumOver(<<>>, Map(Lex(<<x.dims[2]>>),
                                LAMBDA k : Mul(At(x, <<idx[1], k[1]>>), At(w, <<idx[2], k[1]>>)))),
              At(bias, <<idx[2]>>))))

AxisSum(v, axis) ==
  Means(Whole(v), Value([v.dims EXCEPT ![axis] = 1],
                        LAMBDA idx : SumOver(<<>>, Map(Lex(<<v.dims[axis]>>),
                                                       LAMBDA k : At(v, [idx EXCEPT ![axis] = k[1]])))))

\* How many windows with so many taps fit.
Fitting(size, taps, stride, dilation) ==
  Cardinality({x \in 0..size : x * stride + (taps - 1) * dilation < size})

Window(v, out, kernel, strides) ==
  Map(Lex(kernel), LAMBDA k : At(v, <<out[1], out[2] * strides[1] + k[1], out[3] * strides[2] + k[2], out[4]>>))
PooledDims(v, kernel, strides) ==
  <<v.dims[1], Fitting(v.dims[2], kernel[1], strides[1], 1),
    Fitting(v.dims[3], kernel[2], strides[2], 1), v.dims[4]>>

Averages(v, kernel, strides) ==
  Means(Whole(v), Value(PooledDims(v, kernel, strides), LAMBDA out :
    App("div", <<SumOver(<<>>, Window(v, out, kernel, strides)), Number(Product(kernel))>>)))
Maxima(v, kernel, strides) ==
  Means(Whole(v), Value(PooledDims(v, kernel, strides),
                        LAMBDA out : App("max", Window(v, out, kernel, strides))))
\* Accumulated to the third operand.
PoolingInto(f, v, kernel, c, stride) ==
  Means(Whole(v) /\ Whole(c),
        Value(c.dims, LAMBDA out :
          App(f, <<At(c, out)>> \o Window(v, out, kernel.dims, <<stride, stride>>))))

(***************************************************************************)
(* Convolutions of two spatial dimensions.  They are written for an input  *)
(* NHWC and a filter HWCF; X and W read the elements of other layouts.     *)
(***************************************************************************)
Taps(X(_), W(_), out, kernel, strides, dilations) ==
  Map(Lex(kernel), LAMBDA k :
    Mul(X(<<out[1], out[2] * strides[1] + k[1] * dilations[1], out[3] * strides[2] + k[2] * dilations[2], k[3]>>),
        W(<<k[1], k[2], k[3], out[4]>>)))

ConvNhwcHwcf(x, w, c, strides, dilations) ==
  Means(Whole(x) /\ Whole(w) /\ Whole(c),
        Value(c.dims, LAMBDA out :
          SumOver(<<At(c, out)>>,
                  Taps(LAMBDA i : At(x, i), LAMBDA i : At(w, i), out, SubSeq(w.dims, 1, 3), strides, dilations))))

\* The order of the sum is not part of the meaning; here the channel is last.
ConvNchwFchw(x, w, c, strides, dilations) ==
  Means(Whole(x) /\ Whole(w) /\ Whole(c),
        Value(c.dims, LAMBDA out :
          SumOver(<<At(c, out)>>,
                  Taps(LAMBDA i : At(x, <<i[1], i[4], i[2], i[3]>>),
                       LAMBDA i : At(w, <<i[4], i[3], i[1], i[2]>>),
                       <<out[1], out[3], out[4], out[2]>>, <<w.dims[3], w.dims[4], w.dims[2]>>,
                       strides, dilations))))

DepthwiseInto(x, w, c, strides, dilations) ==
  Means(Whole(x) /\ Whole(w) /\ Whole(c),
        Value(c.dims, LAMBDA out :
          SumOver(<<At(c, out)>>,
                  Taps(LAMBDA i : At(x, <<i[1], i[2], i[3], out[4]>>),
                       LAMBDA i : At(w, <<i[1], i[2], out[4], out[5]>>),
                       out, <<w.dims[1], w.dims[2], 1>>, strides, dilations))))

\* Zeroes around the two spatial dimensions.
Padded(x, pad, i) ==
  LET at == <<i[1], i[2] - pad[1], i[3] - pad[3], i[4]>>
  IN  IF In(x, at) THEN At(x, at) ELSE Zero
Spatial(x, pad, w2, w3, strides, dilations) ==
  <<Fitting(x.dims[2] + pad[1] + pad[2], w2, strides[1], dilations[1]),
    Fitting(x.dims[3] + pad[3] + pad[4], w3, strides[2], dilations[2])>>

TosaConv(x, w, bias, strides, dilations, pad) ==
  LET dims == <<x.dims[1]>> \o Spatial(x, pad, w.dims[2], w.dims[3], strides, dilations) \o <<w.dims[1]>>
  IN  Means(/\ x.dims[4] = w.dims[4] /\ w.dims[1] = bias.dims[1]
            /\ Whole(x) /\ Whole(w) /\ Whole(bias),
            Value(dims, LAMBDA out :
              Add(SumOver(<<>>, Taps(LAMBDA i : Padded(x, pad, i), LAMBDA i : At(w, <<i[4], i[1], i[2], i[3]>>),
                                     out, <<w.dims[2], w.dims[3], w.dims[4]>>, strides, dilations)),
                  At(bias, <<out[4]>>))))

\* Channel c of the input and multiplier m make channel c * M + m.
TosaDepthwise(x, w, bias, strides, dilations, pad) ==
  LET M == w.dims[4]
      dims == <<x.dims[1]>> \o Spatial(x, pad, w.dims[1], w.dims[2], strides, dilations)
              \o <<w.dims[3] * M>>
  IN  Means(/\ x.dims[4] = w.dims[3] /\ bias.dims[1] = w.dims[3] * M
            /\ Whole(x) /\ Whole(w) /\ Whole(bias),
            Value(dims, LAMBDA out :
              Add(SumOver(<<>>, Taps(LAMBDA i : Padded(x, pad, <<i[1], i[2], i[3], out[4] \div M>>),
                                     LAMBDA i : At(w, <<i[1], i[2], out[4] \div M, out[4] % M>>),
                                     out, <<w.dims[1], w.dims[2], 1>>, strides, dilations)),
                  At(bias, <<out[4]>>))))

-----------------------------------------------------------------------------
(* linalg.generic: a loop nest over all loop variables, the last innermost.*)
(* Every iteration reads an element of each operand and replaces those of  *)
(* the outputs.  What is added to an output again and again is one sum.    *)

Place(map, ind) ==
  IF map = <<>> THEN <<0>>
  ELSE [j \in DOMAIN map |-> map[j].const + FoldLeft(+, 0, [d \in DOMAIN ind |-> map[j].coeffs[d] * ind[d]])]

\* The size of a loop is that of a dimension that its variable indexes alone.
LoopSizes(o, args) ==
  [d \in 1..o.numLoops |->
     LET at == CHOOSE m \in {<<i, j>> \in (DOMAIN args) \X (1..o.numLoops) :
                               j \in DOMAIN o.maps[i] /\ IsDim(o.maps[i][j], d)} : TRUE
     IN  args[at[1]].dims[at[2]]]

LoopNest(o, args) ==
  LET space == Lex(LoopSizes(o, args))
      place(i, ind) == IF args[i].dims = <<>> THEN <<>> ELSE Place(o.maps[i], ind)
      reads(i) == i <= o.numInputs \/ \E y \in DOMAIN o.body : Uses(o.body[y], i)
      at(term, ind) == Eval(term, [i \in DOMAIN args |-> At(args[i], place(i, ind))], ind)
      out(y) == o.numInputs + y
      visits(y, idx) == SelectSeq(space, LAMBDA ind : place(out(y), ind) = idx)
      accumulates(y) == \E d \in 1..o.numLoops : \A j \in DOMAIN o.maps[out(y)] : ~IsDim(o.maps[out(y)][j], d)
      added(y) == o.body[y].args[IF o.body[y].args[1] = Leaf("arg", out(y)) THEN 2 ELSE 1]
      Result(y, idx) ==
        IF accumulates(y)
        THEN SumOver(<<At(args[out(y)], idx)>>, Map(visits(y, idx), LAMBDA ind : at(added(y), ind)))
        ELSE at(o.body[y], visits(y, idx)[1])
  IN  Results(\A i \in DOMAIN args, ind \in ToSet(space) :
                IF reads(i) THEN place(i, ind) \in args[i].init ELSE In(args[i], place(i, ind)),
              [y \in DOMAIN o.body |-> Value(args[out(y)].dims, LAMBDA idx : Result(y, idx))])

-----------------------------------------------------------------------------
(* The meaning of an operation.  regs are its operands, types those of the *)
(* operands, id a number for a new unknown.                                *)

Constant(attr) == Value(attr.dims, LAMBDA idx : Number(attr.vals[Linear(idx, attr.dims) + 1]))

Meaning(o, args, types, id) ==
  LET p == o.p
      v == args[1]
  IN  CASE o.op \in IntegerOperations        -> LET ints == [i \in DOMAIN args |-> ScalarIn(args[i])]
                                                IN  Means(IntegerDefined(o, ints), Single(IntegerValue(o, ints)))
        [] o.op \in Elementwise2             -> Broadcasting(o.op, types[1], args[1], types[2], args[2])
        [] o.op \in Elementwise1             -> Means(Whole(v), Value(v.dims, LAMBDA i : OfElements(o.op, <<At(v, i)>>)))
        [] o.op = "arith.select"             -> Selecting(args[1], args[2], args[3])
        [] o.op = "tosa.concat"              -> Concatenation(args, p[1][1])
        [] o.op = "tosa.reverse"             -> Reversal(v, p[1][1])
        [] o.op = "tosa.tile"                -> Tiling(v, p[1])
        [] o.op = "tosa.transpose"           -> Permutation(v, p[1])
        [] o.op = "tosa.gather"              -> Gathering(v, args[2])
        [] o.op = "tensor.extract"           -> Extraction(v, p[1])
        [] o.op = "tensor.insert"            -> Insertion(ScalarIn(args[1]), args[2], p[1])
        [] o.op = "tensor.extract_slice"     -> Slice(v, o.ty, p[1], p[2], p[3], p[4])
        [] o.op = "tensor.insert_slice"      -> Overwriting(v, args[2], p[1], p[2], p[3])
        [] o.op = "tensor.pad"               -> Padding(v, o.ty, p[1], p[2], o.body[1], ScalarIn(args[2]))
        [] o.op = "tensor.collapse_shape"    -> Collapsing(v, o.ty, p)
        [] o.op = "tensor.expand_shape"      -> Expanding(v, o.ty, p)
        [] o.op = "tosa.reshape"             -> Reshaping(v, p[1])
        [] o.op = "tensor.cast"              -> Means(\A i \in DOMAIN o.ty : o.ty[i] \in {Dynamic, v.dims[i]}, v)
        [] o.op = "tensor.dim"               -> DimensionOf(v, p[1][1] + 1)
        [] o.op = "tensor.empty"             -> Means(TRUE, [Fresh("init_tensor", id, Sizes(o.ty, p[1])) EXCEPT !.init = {}])
        [] o.op = "linalg.fill"              -> Means(TRUE, Value(args[2].dims, LAMBDA i : ScalarIn(v)))
        [] o.op = "tensor.from_elements"     -> Means(TRUE, Value(NonEmpty(o.ty), LAMBDA i :
                                                   ScalarIn(args[Linear(i, NonEmpty(o.ty)) + 1])))
        [] o.op = "tensor.generate"          -> Means(TRUE, Value(Sizes(o.ty, p[1]), LAMBDA i : Eval(o.body[1], <<>>, i)))
        [] o.op = "tosa.const"               -> Means(TRUE, Constant(o.attr))
        [] o.op = "linalg.matmul"            -> MatrixProduct(args[1], args[2], args[3])
        [] o.op = "linalg.dot"               -> DotProduct(args[1], args[2], args[3])
        [] o.op = "tosa.fully_connected"     -> FullConnection(args[1], args[2], args[3])
        [] o.op = "tosa.reduce_sum"          -> AxisSum(v, p[1][1])
        [] o.op = "tosa.avg_pool2d"          -> Averages(v, p[1], p[2])
        [] o.op = "tosa.max_pool2d"          -> Maxima(v, p[1], p[2])
        [] o.op = "linalg.pooling_nhwc_sum"  -> PoolingInto("sum", v, args[2], args[3], p[1][1])
        [] o.op = "linalg.pooling_nhwc_max"  -> PoolingInto("max", v, args[2], args[3], p[1][1])
        [] o.op = "linalg.conv_2d_nhwc_hwcf" -> ConvNhwcHwcf(args[1], args[2], args[3], p[1], p[2])
        [] o.op = "linalg.conv_2d_nchw_fchw" -> ConvNchwFchw(args[1], args[2], args[3], p[1], p[2])
        [] o.op = "linalg.depthwise_conv_2d_nhwc_hwcm" -> DepthwiseInto(args[1], args[2], args[3], p[1], p[2])
        [] o.op = "tosa.conv2d"              -> TosaConv(args[1], args[2], args[3], p[1], p[2], p[3])
        [] o.op = "tosa.depthwise_conv2d"    -> TosaDepthwise(args[1], args[2], args[3], p[1], p[2], p[3])
        [] o.op = "linalg.generic"           -> LoopNest(o, args)

-----------------------------------------------------------------------------
(* Running a program. *)

\* Results so far, and the operation that comes next.  All but linalg.generic
\* have one result.
NumResults(o) == IF o.op = "linalg.generic" THEN Len(o.body) ELSE 1
Before(n) == Len(prog.args) + FoldLeft(LAMBDA a, o : a + NumResults(o), 0, SubSeq(prog.ops, 1, n))
Done == CHOOSE n \in 0..Len(prog.ops) : Before(n) = Len(values)
Types == [i \in DOMAIN prog.args |-> prog.args[i].ty] \o
         FlattenSeq([n \in DOMAIN prog.ops |-> [y \in 1..NumResults(prog.ops[n]) |-> prog.ops[n].ty]])

Argument(i, arg) == IF IsBits(arg) THEN Single(MkBV(arg.val, arg.n)) ELSE Fresh("input", i, arg.dims)
Init ==
  /\ prog \in Programs
  /\ values = [i \in DOMAIN prog.args |-> Argument(i, prog.args[i])]
  /\ status = "running"

Execute ==
  /\ status = "running" /\ Done < Len(prog.ops)
  /\ LET o == prog.ops[Done + 1]
         args == [i \in DOMAIN o.in |-> values[o.in[i]]]
         m == Meaning(o, args, [i \in DOMAIN o.in |-> Types[o.in[i]]], Len(values))
     IN  IF m.defined THEN values' = values \o m.vs /\ UNCHANGED status
         ELSE status' = "undefined" /\ UNCHANGED values
  /\ UNCHANGED prog

Refuse == status = "running" /\ status' = "unsupported" /\ UNCHANGED <<prog, values>>

Next == Execute \/ Refuse
Spec == Init /\ [][Next]_vars
=============================================================================
