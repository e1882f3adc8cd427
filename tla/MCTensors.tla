------------------------------ MODULE MCTensors ------------------------------
(***************************************************************************)
(* Small programs for TensorProps.                                         *)
(***************************************************************************)
EXTENDS TensorProps

Program(args, ops) == [args |-> args, ops |-> ops]

\* Arguments: of static size, of a type with unknown sizes, without dimensions.
Static(dims) == [ty |-> dims, dims |-> dims]
Typed(ty, dims) == [ty |-> ty, dims |-> dims]
Elem == [ty |-> <<>>, dims |-> <<>>]
Rank0 == [ty |-> <<>>, dims |-> <<1>>]

Op1(op, in, p, ty) == Operation(op, in, p, ty)
Const(attr) == [Operation("tosa.const", <<>>, <<>>, attr.dims) EXCEPT !.attr = attr]
Generic(in, numInputs, numLoops, maps, body, ty) ==
  [Operation("linalg.generic", in, <<>>, ty) EXCEPT
     !.maps = maps, !.body = body, !.numInputs = numInputs, !.numLoops = numLoops]

One(args, op) == Program(args, <<op>>)
Unary(dims, op, p, ty) == One(<<Static(dims)>>, Op1(op, <<1>>, p, ty))
Empty(ty) == Op1("tensor.empty", <<>>, << <<>> >>, ty)

-----------------------------------------------------------------------------
(* Elementwise operations on all pairs of types that can be broadcast. *)

Shapes == {Rank0, Static(<<1>>), Static(<<2>>), Static(<<1, 2>>), Static(<<3, 1>>), Static(<<3, 2>>),
           Typed(<<Dynamic>>, <<2>>), Typed(<<Dynamic>>, <<1>>), Typed(<<Dynamic, 2>>, <<3, 2>>)}
Compatible(a, b) ==
  LET n == Wider(Len(Shape(a.ty)), Len(Shape(b.ty)))
  IN  \A i \in 1..n : LET x == AlignedType(Shape(a.ty), n)[i]
                          y == AlignedType(Shape(b.ty), n)[i]
                      IN  x = y \/ x \in {0, 1, Dynamic} \/ y \in {0, 1, Dynamic}
Sums == {One(<<a, b>>, Op1("tosa.add", <<1, 2>>, <<>>, a.ty)) :
           <<a, b>> \in {<<a, b>> \in Shapes \X Shapes : Compatible(a, b)}}

Steps2(names, a, b) == {One(<<a, b>>, Op1(name, <<1, 2>>, <<>>, a.ty)) : name \in names}
Others ==
  Steps2({"tosa.sub", "tosa.mul", "arith.addf", "arith.subf", "arith.mulf", "arith.divf"},
         Static(<<3, 1>>), Static(<<2>>))
  \cup Steps2({"arith.addf", "arith.subf", "arith.mulf", "arith.divf"}, Elem, Elem)
  \cup {Program(<<Static(<<2>>), Elem>>, <<Op1(name, <<1>>, <<>>, <<2>>)>>) :
          name \in {"tosa.negate", "tosa.exp", "tosa.reciprocal"}}
  \cup {Program(<<a>>, <<Op1(name, <<1>>, <<>>, a.ty)>>) :
          a \in {Static(<<2>>), Elem}, name \in {"math.absf", "arith.negf", "math.exp"}}

Bits(vals) == Const(Attr("dense", <<Len(vals)>>, vals))
Selections ==
  {Program(<<Static(<<3>>), s>>, <<Bits(<<1, 0, 1>>), Op1("arith.select", <<3, 1, 2>>, <<>>, <<3>>)>>) :
     s \in {Static(<<3>>), Typed(<<Dynamic>>, <<2>>)}}
  \cup {Program(<<Static(<<2>>), Static(<<2>>)>>,
                <<Const(Attr("dense", <<>>, <<1>>)), Op1("arith.select", <<3, 1, 2>>, <<>>, <<2>>)>>)}

-----------------------------------------------------------------------------
(* Integers.  The arguments are known by their numbers to the solver only, *)
(* the constants to the encoder as well.                                   *)

AnInt(n, v) == [ty |-> <<>>, dims |-> <<>>, n |-> n, val |-> v]
IntOp(name, in) == Op1(name, in, << <<>> >>, <<>>)
Cmp(pred, in) == Op1("arith.cmpi", in, << <<pred>> >>, <<>>)
IntConst(v, n) == Op1("arith.constant", <<>>, << <<v>>, <<n>> >>, <<>>)
To(name, in, n) == Op1(name, in, << <<n>> >>, <<>>)
Select(c, a, b) == Op1("arith.select", <<c, a, b>>, <<>>, <<>>)

\* Two numerals are compared without their sign, see Slt.
SameSign(n, v, w) == 2 * v < n <=> 2 * w < n
Preds(n, v, w, i, j) ==
  SelectSeq(<<0, 1, 2, 3, 4, 5, 6, 7, 8, 9>>,
            LAMBDA pred : pred \in 2..5 => (i <= 2 \/ j <= 2 \/ SameSign(n, v, w)))
Comparisons(n, v, w, i, j) ==
  [k \in DOMAIN Preds(n, v, w, i, j) |-> Cmp(Preds(n, v, w, i, j)[k], <<i, j>>)]

\* Registers 1 and 3 are v, 2 and 4 are w.
Operands2(n, v, w, ops) == Program(<<AnInt(n, v), AnInt(n, w)>>, <<IntConst(v, n), IntConst(w, n)>> \o ops)
Arithmetic(n, vals) ==
  {Operands2(n, v, w, Comparisons(n, v, w, i, j)
                      \o <<IntOp("arith.addi", <<i, j>>), IntOp("arith.subi", <<i, j>>),
                           IntOp("arith.muli", <<i, j>>), IntOp("arith.xori", <<i, j>>)>>) :
     v, w \in vals, i \in {1, 3}, j \in {2, 4}}
  \cup {Operands2(n, v, v, Comparisons(n, v, v, 1, 1) \o <<IntOp("arith.subi", <<1, 1>>)>>) : v \in vals}
Shifts ==
  {Operands2(n, v, w, <<IntOp(name, <<i, j>>)>>) :
     n \in {8}, v \in {0, 1, 3, 6}, w \in {0, 1, 2, 3, 7}, i \in {1, 3}, j \in {2, 4},
     name \in {"arith.shli", "arith.shrsi", "arith.shrui"}}

\* Expressions that the shortcuts look into: extensions and their
\* truncation, numbers without a sign bit, choices between equal numbers.
Widened ==
  {Program(<<AnInt(16, v), AnInt(4, w)>>,
           <<IntConst(c, 16), IntOp("math.absi", <<1>>), To("arith.extui", <<2>>, 16), To("arith.extsi", <<2>>, 16),
             To("arith.trunci", <<5>>, 4), To("arith.trunci", <<4>>, 8), To("arith.trunci", <<3>>, 8),
             Cmp(0, <<4, 3>>), Cmp(6, <<4, 3>>), Cmp(6, <<3, 4>>), Cmp(0, <<4, 5>>), Cmp(6, <<5, 4>>),
             To("arith.index_cast", <<6>>, 64), To("arith.index_cast", <<1>>, 4), To("arith.index_cast", <<1>>, 16)>>) :
     v \in {0, 1, 5, 7}, w \in 0..3, c \in {0, 1, 5, 9}}
  \cup {Program(<<AnInt(16, v), AnInt(16, w)>>,
                <<IntConst(7, 16), IntOp("math.absi", <<1>>), IntOp("math.absi", <<2>>), IntOp("math.absi", <<3>>),
                  Cmp(0, <<4, 5>>), Cmp(6, <<4, 5>>), Cmp(0, <<6, 5>>), Cmp(6, <<5, 6>>), Cmp(0, <<6, 3>>)>>) :
          v \in {0, 6, 7}, w \in {0, 7}}
  \cup {Program(<<AnInt(4, v), AnInt(4, w)>>,
                <<Cmp(pred, <<1, 2>>), Select(3, 1, 2), Select(3, 2, 1), IntConst(1, 2), Select(6, 1, 2), IntConst(0, 2),
                  Select(8, 1, 2), Cmp(0, <<3, 6>>), Select(3, 6, 8), Select(10, 1, 2)>>) :
          v, w \in {0, 1, 3}, pred \in {0, 1, 6}}
  \cup {Program(<<AnInt(2, v)>>, <<IntConst(1, 2), Select(1, 1, 2), Select(1, 2, 1)>>) : v \in 0..1}
  \cup {Program(<<AnInt(4, v), Static(<<2>>), Static(<<2>>)>>,
                <<IntConst(1, 4), Cmp(6, <<1, 4>>), Op1("arith.select", <<5, 2, 3>>, <<>>, <<2>>)>>) : v \in 0..1}

IntegerPrograms == Arithmetic(4, 0..3) \cup Arithmetic(16, {0, 7, 8}) \cup Shifts \cup Widened

-----------------------------------------------------------------------------
(* Rearranging. *)

Moves ==
  {Unary(<<2, 3>>, "tosa.reverse", << <<axis>> >>, <<2, 3>>) : axis \in 1..2}
  \cup {Unary(<<2, 3>>, "tosa.tile", << <<a, b>> >>, <<2 * a, 3 * b>>) : a, b \in 1..2}
  \cup {Unary(<<2, 3, 2>>, "tosa.transpose", <<perms>>, <<>>) :
          perms \in {f \in [1..3 -> 1..3] : \A i, j \in 1..3 : f[i] = f[j] => i = j}}
  \cup {One(<<Static(<<2, 2>>), Static(b), Static(<<2, 2>>)>>,
            Op1("tosa.concat", <<1, 2, 3>>, << <<axis>> >>, <<Dynamic, Dynamic>>)) :
          b \in {<<2, 1>>, <<1, 2>>, <<2, 3>>, <<2, 2>>}, axis \in 1..2}
  \cup {Program(<<Static(<<3, 2, 2>>)>>,
                <<Const(Attr("dense", <<3, 1>>, v)), Op1("tosa.gather", <<1, 2>>, <<>>, <<3, 1, 2>>)>>) :
          v \in {<<0, 1, 1>>, <<1, 0, 2>>, <<1, 1, 1>>}}

\* Elements of a partly initialized tensor, inserted and extracted.
Cellwise ==
  {Program(<<Static(<<2, 3>>), Elem>>,
           <<Op1("tensor.insert", <<2, 1>>, <<at>>, <<2, 3>>), Op1("tensor.extract", <<3>>, <<idx>>, <<>>)>>) :
     at \in {<<0, 2>>, <<1, 0>>, <<0, 3>>}, idx \in {<<0, 2>>, <<1, 1>>, <<2, 0>>}}
  \cup {Program(<<Elem>>,
                <<Empty(<<2, 2>>), Op1("tensor.insert", <<1, 2>>, << <<1, 0>> >>, <<2, 2>>),
                  Op1("tensor.extract", <<3>>, <<idx>>, <<>>)>>) :
          idx \in {<<1, 0>>, <<0, 1>>}}
  \cup {Program(<<Elem>>, <<Empty(<<>>), Op1("tensor.insert", <<1, 2>>, << <<>> >>, <<>>),
                            Op1("tensor.extract", <<3>>, << <<>> >>, <<>>)>>)}

-----------------------------------------------------------------------------
(* Slices of a 3 x 4 tensor. *)

Attrs == <<1, 1>>
Slices ==
  {One(<<Static(<<3, 4>>)>>,
       Op1("tensor.extract_slice", <<1>>, << <<o1, o2>>, <<s1, s2>>, <<1, 1>>, Attrs >>, <<s1, s2>>)) :
     o1 \in {0, 1}, o2 \in {0, 2}, s1 \in {1, 2}, s2 \in {1, 3}}
  \cup {One(<<Static(<<3, 4>>)>>, Op1("tensor.extract_slice", <<1>>, <<ofs, sizes, str, given>>, ty)) :
          <<ofs, sizes, str, given, ty>> \in
            {<< <<0, 0>>, <<2, 2>>, <<2, 3>>, <<1, 1>>, <<2, 2>> >>,
             << <<1, 1>>, <<1, 3>>, <<1, 1>>, <<1, 1>>, <<3>> >>,
             << <<0, 3>>, <<3, 1>>, <<1, 1>>, <<1, 1>>, <<3>> >>,
             << <<2, 3>>, <<1, 1>>, <<1, 1>>, <<1, 1>>, <<>> >>,
             << <<1, 0>>, <<2, 3>>, <<1, 1>>, <<0, 0>>, <<Dynamic, Dynamic>> >>,
             << <<1, 0>>, <<1, 2>>, <<1, 1>>, <<0, 1>>, <<Dynamic, 2>> >>,
             << <<1, 1>>, <<1, 2>>, <<1, 2>>, <<1, 0>>, <<Dynamic>> >>}}
  \cup {Program(<<Static(<<2, 2>>), Static(<<3, 4>>)>>,
                <<Op1("tensor.insert_slice", <<1, 2>>, <<ofs, <<2, 2>>, str>>, <<3, 4>>),
                  Op1("tensor.extract_slice", <<3>>, <<ofs, <<2, 2>>, str, Attrs>>, <<2, 2>>)>>) :
          ofs \in {<<0, 0>>, <<1, 1>>, <<2, 2>>}, str \in {<<1, 1>>}}
  \cup {One(<<Static(<<2, 2>>), Static(<<3, 4>>)>>,
            Op1("tensor.insert_slice", <<1, 2>>, << <<0, 1>>, <<2, 2>>, <<2, 2>> >>, <<3, 4>>))}
  \cup {Program(<<Static(<<2, 2>>)>>,
                <<Empty(<<2, n>>), Op1("tensor.insert_slice", <<1, 2>>, << <<0, 0>>, <<2, 2>>, <<1, 1>> >>, <<2, n>>),
                  Op1("tosa.abs", <<3>>, <<>>, <<2, n>>)>>) : n \in 2..3}
  \cup {Program(<<Static(<<2, 2>>), Elem>>,
                <<[Op1("tensor.pad", <<1, 2>>, <<low, high>>, ty) EXCEPT !.body = <<Leaf("arg", 2)>>],
                  Op1("tensor.extract_slice", <<3>>, <<low, <<2, 2>>, <<1, 1>>, Attrs>>, <<2, 2>>)>>) :
          low \in {<<0, 1>>, <<2, 0>>}, high \in {<<1, 1>>, <<1, 0>>}, ty \in {<<Dynamic, Dynamic>>, <<3, 4>>}}
  \cup {One(<<Static(<<2>>), Elem>>,
            [Op1("tensor.pad", <<1, 2>>, << <<1>>, <<2>> >>, <<5>>) EXCEPT
               !.body = <<Add(Leaf("arg", 2), Leaf("index", 1))>>])}

-----------------------------------------------------------------------------
(* Shapes and new tensors. *)

Reshapes ==
  {Program(<<Static(<<2, 3, 2>>)>>,
           <<Op1("tensor.collapse_shape", <<1>>, groups, ty), Op1("tosa.reverse", <<2>>, << <<1>> >>, ty)>>) :
     <<groups, ty>> \in {<< << <<1, 2>>, <<3>> >>, <<6, 2>> >>, << << <<1>>, <<2, 3>> >>, <<2, 6>> >>,
                         << << <<1, 2, 3>> >>, <<12>> >>}}
  \cup {One(<<a>>, Op1("tensor.collapse_shape", <<1>>, groups, ty)) :
          <<a, groups, ty>> \in {<<Static(<<1, 1>>), <<>>, <<>> >>,
                                 <<Typed(<<Dynamic, 2>>, <<3, 2>>), << <<1, 2>> >>, <<Dynamic>> >>,
                                 <<Typed(<<Dynamic, 2>>, <<3, 2>>), << <<1, 2>> >>, <<4>> >>}}
  \cup {Program(<<a>>, <<Op1("tensor.expand_shape", <<1>>, groups, ty),
                         Op1("tensor.extract", <<2>>, << <<0, 1, 0>> >>, <<>>)>>) :
          <<a, groups, ty>> \in {<<Static(<<6, 2>>), << <<1, 2>>, <<3>> >>, <<2, 3, 2>> >>,
                                 <<Typed(<<Dynamic, 2>>, <<6, 2>>), << <<1, 2>>, <<3>> >>, <<Dynamic, 3, 2>> >>,
                                 <<Typed(<<Dynamic, 2>>, <<5, 2>>), << <<1, 2>>, <<3>> >>, <<Dynamic, 3, 2>> >>,
                                 <<Typed(<<2, Dynamic>>, <<2, 4>>), << <<1>>, <<2, 3>> >>, <<2, 2, Dynamic>> >>,
                                 <<Typed(<<Dynamic, 2>>, <<6, 2>>), << <<1, 2>>, <<3>> >>, <<Dynamic, Dynamic, 2>> >>}}
  \cup {Unary(<<2, 3>>, "tosa.reshape", <<dims>>, dims) : dims \in {<<3, 2>>, <<6>>, <<1, 6>>, <<4>>, <<Dynamic>>}}
  \cup {One(<<Typed(<<Dynamic, 2>>, <<3, 2>>)>>, Op1("tensor.cast", <<1>>, <<>>, ty)) :
          ty \in {<<3, 2>>, <<4, 2>>, <<Dynamic, Dynamic>>}}
  \cup {One(<<Typed(<<2, Dynamic>>, <<2, 3>>)>>, Op1("tensor.dim", <<1>>, << <<i>> >>, <<>>)) : i \in 0..2}

New ==
  {Program(<<Elem>>, <<Op1("tensor.empty", <<>>, << <<2>> >>, <<3, Dynamic>>),
                       Op1("linalg.fill", <<1, 2>>, <<>>, <<3, Dynamic>>), last>>) :
     last \in {Op1("tosa.abs", <<3>>, <<>>, <<3, Dynamic>>), Op1("tosa.abs", <<2>>, <<>>, <<3, Dynamic>>),
               Op1("tensor.dim", <<2>>, << <<1>> >>, <<>>)}}
  \cup {Program(<<Static(<<2, 3>>)>>,
                <<Empty(<<2, 3>>), Empty(<<2, 3>>), Op1("tosa.reshape", <<2>>, << <<6>> >>, <<6>>)>>)}
  \cup {One(<<Elem, Elem>>, Op1("tensor.from_elements", <<1, 2, 2, 1>>, <<>>, <<2, 2>>)),
        One(<<Elem>>, Op1("tensor.from_elements", <<1>>, <<>>, <<>>))}
  \cup {Program(<<>>, <<[Op1("tensor.generate", <<>>, << <<3>> >>, <<2, Dynamic>>) EXCEPT
                           !.body = <<Add(Leaf("index", 1), Leaf("index", 2))>>],
                        Op1("tosa.transpose", <<1>>, << <<2, 1>> >>, <<Dynamic, 2>>)>>)}

\* Constants in a row: with few elements, all alike, many; transposed, in
\* another shape, and sparse.
A3 == Attr("dense", <<1, 2, 2>>, <<1, 2, 3, 4>>)
Dense(dims, vals) == Attr("dense", dims, vals)
Rows ==
  {<<Dense(<<2, 3>>, <<1, 2, 3, 4, 5, 6>>), Dense(<<3, 2>>, <<1, 4, 2, 5, 3, 6>>)>>,
   <<Dense(<<3, 2>>, <<1, 4, 2, 5, 3, 6>>), Dense(<<2, 3>>, <<1, 2, 3, 4, 5, 6>>)>>,
   <<Dense(<<2, 3>>, <<1, 2, 3, 4, 5, 6>>), Dense(<<3, 2>>, <<1, 2, 3, 4, 5, 6>>),
     Dense(<<2, 3>>, <<1, 2, 3, 4, 5, 6>>)>>,
   <<A3, Dense(<<2, 2, 1>>, <<1, 2, 3, 4>>), A3>>,
   <<A3, Dense(<<2, 1, 2>>, <<1, 3, 2, 4>>), A3>>,
   <<Dense(<<2, 2, 1>>, <<1, 2, 3, 4>>), A3, Dense(<<2, 1, 2>>, <<1, 3, 2, 4>>)>>,
   <<Dense(<<4>>, <<5, 6, 7, 8>>), Dense(<<4, 1>>, <<5, 6, 7, 8>>), Dense(<<4, 1, 1>>, <<5, 6, 7, 8>>)>>,
   <<Dense(<<4, 1>>, <<5, 6, 7, 8>>), Dense(<<1, 4>>, <<5, 6, 7, 8>>), Dense(<<4>>, <<5, 6, 7, 8>>)>>,
   <<Dense(<<2, 2>>, <<7, 7, 7, 7>>), Dense(<<3>>, <<1, 2, 3>>), Dense(<<>>, <<4>>)>>,
   <<Attr("sparse", <<3>>, <<0, 7, 0>>), Attr("sparse", <<1, 3>>, <<5, 0, 6>>)>>,
   <<Attr("sparse", <<2, 2>>, <<0, 7, 8, 0>>), Attr("sparse", <<5>>, <<0, 7, 8, 0, 1>>),
     Attr("sparse", <<2, 2>>, <<0, 7, 8, 0>>)>>}
Constants == {Program(<<>>, [i \in DOMAIN row |-> Const(row[i])]) : row \in Rows}

-----------------------------------------------------------------------------
(* Products, sums and windows. *)

D(d, n) == Dim(d, n)
Products ==
  {Program(<<Static(<<2, 3>>), Static(<<3, 2>>), c>>,
           <<Op1("linalg.matmul", <<1, 2, 3>>, <<>>, <<2, 2>>),
             Generic(<<1, 2, 3>>, 2, 3, << <<D(1, 3), D(3, 3)>>, <<D(3, 3), D(2, 3)>>, <<D(1, 3), D(2, 3)>> >>,
                     <<Add(Leaf("arg", 3), Mul(Leaf("arg", 1), Leaf("arg", 2)))>>, <<2, 2>>)>>) :
     c \in {Static(<<2, 2>>)}}
  \cup {Program(<<Static(<<2, 3>>), Static(<<3, 2>>)>>,
                <<Empty(<<2, 2>>), Op1("linalg.matmul", <<1, 2, 3>>, <<>>, <<2, 2>>)>>)}
  \cup {One(<<Static(<<3>>), b, Rank0>>, Op1("linalg.dot", <<1, 2, 3>>, <<>>, <<>>)) :
          b \in {Static(<<3>>), Typed(<<Dynamic>>, <<2>>)}}
  \cup {One(<<Static(<<2, 3>>), w, b>>, Op1("tosa.fully_connected", <<1, 2, 3>>, <<>>, <<2, 2>>)) :
          w \in {Static(<<2, 3>>), Typed(<<2, Dynamic>>, <<2, 2>>)}, b \in {Static(<<2>>), Typed(<<Dynamic>>, <<3>>)}}
  \cup {Unary(<<2, 3, 2>>, "tosa.reduce_sum", << <<axis>> >>, <<Dynamic, Dynamic, Dynamic>>) : axis \in 1..3}

Windows ==
  {Unary(<<1, 4, 3, 2>>, op, << <<k1, 2>>, strides, <<pad, 0, 0, 0>> >>, <<1, Dynamic, Dynamic, 2>>) :
     op \in {"tosa.avg_pool2d", "tosa.max_pool2d"}, k1 \in {2, 3}, strides \in {<<1, 1>>, <<2, 1>>}, pad \in 0..1}
  \cup {One(<<Static(<<1, 4, 4, 2>>), Static(<<2, 2>>), Static(<<1, o, o, 2>>)>>,
            Op1(op, <<1, 2, 3>>, << <<s>>, <<dil>> >>, <<1, o, o, 2>>)) :
          op \in {"linalg.pooling_nhwc_sum", "linalg.pooling_nhwc_max"},
          <<s, o, dil>> \in {<<1, 3, 1>>, <<2, 2, 1>>, <<1, 2, 2>>}}
  \cup {Program(<<Static(<<1, 4, 3, 2>>), Static(<<2, 2, 2, 2>>), Static(<<1, 3, 2, 2>>)>>,
                <<Op1("linalg.conv_2d_nhwc_hwcf", <<1, 2, 3>>, << <<1, 1>>, <<1, 1>> >>, <<1, 3, 2, 2>>)>>),
        Program(<<Static(<<1, 4, 3, 2>>), Static(<<2, 3, 2, 1>>)>>,
                <<Empty(<<1, 2, 1, 1>>),
                  Op1("linalg.conv_2d_nhwc_hwcf", <<1, 2, 3>>, << <<2, 1>>, <<1, 1>> >>, <<1, 2, 1, 1>>)>>),
        One(<<Static(<<1, 2, 3, 3>>), Static(<<2, 2, 2, 1>>), Static(<<1, 2, 2, 3>>)>>,
            Op1("linalg.conv_2d_nchw_fchw", <<1, 2, 3>>, << <<1, 1>>, <<1, 1>> >>, <<1, 2, 2, 3>>)),
        One(<<Static(<<1, 3, 3, 2>>), Static(<<2, 1, 2, 2>>), Static(<<1, 2, 2, 2, 2>>)>>,
            Op1("linalg.depthwise_conv_2d_nhwc_hwcm", <<1, 2, 3>>, << <<1, 2>>, <<1, 1>> >>, <<1, 2, 2, 2, 2>>))}
  \cup {One(<<Static(<<1, 3, 2, 2>>), Static(<<2, 2, 2, 2>>), b>>,
            Op1("tosa.conv2d", <<1, 2, 3>>, << <<1, 1>>, <<1, 1>>, pad >>, <<1, Dynamic, Dynamic, 2>>)) :
          b \in {Static(<<2>>), Typed(<<Dynamic>>, <<1>>)}, pad \in {<<0, 0, 0, 0>>, <<1, 0, 0, 1>>}}
  \cup {One(<<Static(<<1, 3, 2, 2>>), Static(<<2, 2, 2, 2>>), Static(<<4>>)>>,
            Op1("tosa.depthwise_conv2d", <<1, 2, 3>>, << <<1, 1>>, <<1, 1>>, pad >>, <<1, Dynamic, Dynamic, 4>>)) :
          pad \in {<<0, 0, 0, 0>>, <<0, 1, 1, 0>>}}

-----------------------------------------------------------------------------
(* linalg.generic. *)

Form(coeffs, const) == [coeffs |-> coeffs, const |-> const]
Arg(i) == Leaf("arg", i)
Loops ==
  \* Elementwise: a transposed and a broadcast operand, an index.
  {One(<<Static(<<3, 2>>), b, Static(<<2, 3>>)>>,
       Generic(<<1, 2, 3>>, 2, 2, << <<D(2, 2), D(1, 2)>>, <<D(2, 2)>>, <<D(1, 2), D(2, 2)>> >>,
               <<Add(Arg(1), Mul(Arg(2), Leaf("index", 1)))>>, <<2, 3>>)) :
     b \in {Static(<<3>>), Typed(<<Dynamic>>, <<2>>)}}
  \* A permuted output, and one that is read and one that is not.
  \cup {Program(<<Static(<<2, 3>>)>>,
                <<Empty(<<3, 2>>),
                  Generic(<<1, 2>>, 1, 2, << <<D(1, 2), D(2, 2)>>, <<D(2, 2), D(1, 2)>> >>, <<body>>, <<3, 2>>)>>) :
          body \in {Arg(1), Add(Arg(1), Arg(2))}}
  \* A tensor without dimensions, a scalar, two results.
  \cup {One(<<Rank0, Rank0>>, Generic(<<1, 2>>, 1, 0, << <<>>, <<>> >>, <<App("abs", <<Arg(1)>>)>>, <<>>)),
        One(<<Rank0, Static(<<2>>)>>, Generic(<<1, 2>>, 1, 1, << <<>>, <<D(1, 1)>> >>, <<Add(Arg(1), Arg(2))>>, <<2>>)),
        One(<<Static(<<2>>), Static(<<2>>), Static(<<2>>)>>,
            Generic(<<1, 2, 3>>, 1, 1, << <<D(1, 1)>>, <<D(1, 1)>>, <<D(1, 1)>> >>,
                    <<Arg(1), Add(Arg(3), Arg(1))>>, <<2>>))}
  \* Sums over one loop, two loops, all loops; to an uninitialized output.
  \cup {One(<<Static(<<2, 3>>), Static(<<2>>)>>,
            Generic(<<1, 2>>, 1, 2, << <<D(1, 2), D(2, 2)>>, <<D(1, 2)>> >>, <<body>>, <<2>>)) :
          body \in {Add(Arg(2), Arg(1)), Add(App("abs", <<Arg(1)>>), Arg(2))}}
  \cup {One(<<Static(<<2, 3, 2>>), Static(<<3>>)>>,
            Generic(<<1, 2>>, 1, 3, << <<D(1, 3), D(2, 3), D(3, 3)>>, <<D(2, 3)>> >>, <<Add(Arg(2), Arg(1))>>, <<3>>)),
        One(<<Static(<<2, 3>>), Rank0>>,
            Generic(<<1, 2>>, 1, 2, << <<D(1, 2), D(2, 2)>>, <<>> >>, <<Add(Arg(2), Arg(1))>>, <<>>)),
        One(<<Static(<<2, 3>>), Static(<<1>>)>>,
            Generic(<<1, 2>>, 1, 2, << <<D(1, 2), D(2, 2)>>, <<Form(<<0, 0>>, 0)>> >>, <<Add(Arg(1), Arg(2))>>, <<1>>)),
        Program(<<Static(<<2, 3>>)>>,
            <<Empty(<<2>>),
              Generic(<<1, 2>>, 1, 2, << <<D(1, 2), D(2, 2)>>, <<D(1, 2)>> >>, <<Add(Arg(2), Arg(1))>>, <<2>>)>>)}
  \* A window, and what is not supported.
  \cup {One(<<Static(<<4>>), Static(<<2>>), Static(<<3>>)>>,
            Generic(<<1, 2, 3>>, 2, 2, << <<Form(<<1, 1>>, 0)>>, <<D(2, 2)>>, <<D(1, 2)>> >>,
                    <<Add(Arg(3), Mul(Arg(1), Arg(2)))>>, <<3>>)),
        One(<<Static(<<4>>), Static(<<4>>)>>,
            Generic(<<1, 2>>, 1, 1, << <<Form(<<-1>>, 3)>>, <<D(1, 1)>> >>, <<Arg(1)>>, <<4>>)),
        One(<<Static(<<2, 3>>), Static(<<2>>)>>,
            Generic(<<1, 2>>, 1, 2, << <<D(1, 2), D(2, 2)>>, <<D(1, 2)>> >>, <<Mul(Arg(2), Arg(1))>>, <<2>>))}

-----------------------------------------------------------------------------
(* Three operations in a row, whatever the sizes are that the former left. *)

Any2D == <<Dynamic, Dynamic>>
Steps(last) ==
  {Op1("tosa.abs", <<last>>, <<>>, Any2D), Op1("tosa.reverse", <<last>>, << <<1>> >>, Any2D),
   Op1("tosa.transpose", <<last>>, << <<2, 1>> >>, Any2D), Op1("tosa.tile", <<last>>, << <<1, 2>> >>, Any2D),
   Op1("tosa.reduce_sum", <<last>>, << <<2>> >>, Any2D),
   Op1("tosa.concat", <<last, last>>, << <<2>> >>, Any2D), Op1("tosa.add", <<last, 1>>, <<>>, Any2D),
   Op1("tensor.insert", <<2, last>>, << <<1, 1>> >>, Any2D),
   [Op1("tensor.pad", <<last, 2>>, << <<1, 0>>, <<0, 1>> >>, Any2D) EXCEPT !.body = <<Arg(2)>>]}
Pipelines ==
  {Program(<<a, Elem>>, ops) :
     a \in {Typed(Any2D, <<2, 3>>)}, ops \in Steps(1) \X Steps(3) \X Steps(4)}

AllPrograms ==
  Sums \cup Others \cup IntegerPrograms \cup Selections \cup Moves \cup Cellwise \cup Slices \cup Reshapes \cup New \cup Constants
  \cup Products \cup Windows \cup Loops \cup Pipelines
=============================================================================
