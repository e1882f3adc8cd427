------------------------------ MODULE TensorRun ------------------------------
(***************************************************************************)
(* Encoding a program on tensors, operation by operation (encodeBlock and  *)
(* encodeOp, encode.cpp).                                                  *)
(*                                                                         *)
(* An operation whose operands do not have its well-definedness leaves its *)
(* condition false in welldef, and encoding goes on; one that is not       *)
(* supported ends it.                                                      *)
(***************************************************************************)
EXTENDS IntegerOps, ConstantTensors, Registers

CONSTANT Programs   \* see Terms

VARIABLES
  prog,      \* the program
  welldef,   \* st.welldef: a condition for each operation so far
  status,    \* "running", "unsupported"
  attrs      \* abstractlyEncodedAttrs

vars == <<prog, regs, welldef, status, attrs>>

\* createInputState: arguments are unknown and initialized.
Input(i, arg) ==
  IF IsBits(arg) THEN Integer(IntVar(i, arg.n, arg.val)) ELSE Var("input", i, arg.dims, TRUE)

Init ==
  /\ prog \in Programs
  /\ regs = [i \in DOMAIN prog.args |-> [ty |-> prog.args[i].ty, t |-> Input(i, prog.args[i])]]
  /\ welldef = <<>>
  /\ status = "running"
  /\ attrs = <<>>

Op == prog.ops[Len(welldef) + 1]
Operands == [i \in DOMAIN Op.in |-> regs[Op.in[i]]]
IsNext(names) == status = "running" /\ Len(welldef) < Len(prog.ops) /\ Op.op \in names

\* Registers are set and conditions collected, or an UnsupportedException ends it.
Put(e) ==
  /\ IF e.supported
     THEN /\ regs' = regs \o [i \in DOMAIN e.results |-> [ty |-> Op.ty, t |-> e.results[i]]]
          /\ welldef' = Append(welldef, e.wd)
          /\ UNCHANGED status
     ELSE /\ status' = "unsupported"
          /\ UNCHANGED <<regs, welldef>>
  /\ UNCHANGED prog

Encode(names, Handler(_, _)) == IsNext(names) /\ Put(Handler(Op, Operands)) /\ UNCHANGED attrs

BinaryOp       == Encode({"tosa.add", "tosa.sub", "tosa.mul",
                          "arith.addf", "arith.subf", "arith.mulf", "arith.divf"}, EncodeBinary)
UnaryOp        == Encode({"tosa.abs", "tosa.negate", "tosa.exp", "tosa.reciprocal",
                          "math.absf", "arith.negf", "math.exp"}, EncodeUnary)
SelectOp       == Encode({"arith.select"},
                         LAMBDA o, in : IF IsInteger(in[2]) THEN EncodeIntSelect(o, in) ELSE EncodeSelect(o, in))
IntegerOp      == Encode({"arith.addi", "arith.subi", "arith.muli", "arith.xori"}, EncodeInteger)
ShiftOp        == Encode({"arith.shli", "arith.shrsi", "arith.shrui"}, EncodeShift)
CmpIOp         == Encode({"arith.cmpi"}, EncodeCmpI)
ConstantOp     == Encode({"arith.constant"}, LAMBDA o, in : EncodeInt(o))
ResizeOp       == Encode({"arith.extui", "arith.extsi", "arith.trunci"}, EncodeResize)
IndexCastOp    == Encode({"arith.index_cast"}, EncodeIndexCast)
AbsIOp         == Encode({"math.absi"}, EncodeAbsI)
ConcatOp       == Encode({"tosa.concat"}, EncodeConcat)
ReverseOp      == Encode({"tosa.reverse"}, EncodeReverse)
TileOp         == Encode({"tosa.tile"}, EncodeTile)
TransposeOp    == Encode({"tosa.transpose"}, EncodeTranspose)
GatherOp       == Encode({"tosa.gather"}, EncodeGather)
ExtractOp      == Encode({"tensor.extract"}, EncodeExtract)
InsertOp       == Encode({"tensor.insert"}, EncodeInsert)
ExtractSliceOp == Encode({"tensor.extract_slice"}, EncodeExtractSlice)
InsertSliceOp  == Encode({"tensor.insert_slice"}, EncodeInsertSlice)
PadOp          == Encode({"tensor.pad"}, EncodePad)
CollapseOp     == Encode({"tensor.collapse_shape"}, EncodeCollapseShape)
ExpandOp       == Encode({"tensor.expand_shape"}, EncodeExpandShape)
ReshapeOp      == Encode({"tosa.reshape"}, EncodeReshape)
CastOp         == Encode({"tensor.cast"}, EncodeCast)
DimOp          == Encode({"tensor.dim"}, EncodeDim)
EmptyOp        == Encode({"tensor.empty"}, LAMBDA o, in : EncodeEmpty(o, Len(regs)))
FillOp         == Encode({"linalg.fill"}, EncodeFill)
FromElementsOp == Encode({"tensor.from_elements"}, EncodeFromElements)
GenerateOp     == Encode({"tensor.generate"}, LAMBDA o, in : EncodeGenerate(o))
MatmulOp       == Encode({"linalg.matmul"}, EncodeMatmul)
DotOp          == Encode({"linalg.dot"}, EncodeDot)
FullyConnOp    == Encode({"tosa.fully_connected"}, EncodeFullyConnected)
ReduceSumOp    == Encode({"tosa.reduce_sum"}, EncodeReduceSum)
TosaPoolOp     == Encode({"tosa.avg_pool2d", "tosa.max_pool2d"}, EncodeTosaPool)
LinalgPoolOp   == Encode({"linalg.pooling_nhwc_sum", "linalg.pooling_nhwc_max"}, EncodeLinalgPool)
ConvNhwcOp     == Encode({"linalg.conv_2d_nhwc_hwcf"}, LAMBDA o, in : EncodeConv(o, in, "NHWC_HWCF"))
ConvNchwOp     == Encode({"linalg.conv_2d_nchw_fchw"}, LAMBDA o, in : EncodeConv(o, in, "NCHW_FCHW"))
DepthwiseOp    == Encode({"linalg.depthwise_conv_2d_nhwc_hwcm"}, EncodeDepthwiseConv)
TosaConvOp     == Encode({"tosa.conv2d"}, EncodeTosaConv2D)
TosaDepthOp    == Encode({"tosa.depthwise_conv2d"}, EncodeTosaDepthwise)
GenericOp      == Encode({"linalg.generic"}, EncodeGeneric)

ConstOp ==
  /\ IsNext({"tosa.const"})
  /\ LET c == FromElemsAttr(Op.attr, attrs)
     IN  Put(Result(TRUE, c.t)) /\ attrs' = c.known

Next ==
  \/ BinaryOp \/ UnaryOp \/ SelectOp
  \/ IntegerOp \/ ShiftOp \/ CmpIOp \/ ConstantOp \/ ResizeOp \/ IndexCastOp \/ AbsIOp
  \/ ConcatOp \/ ReverseOp \/ TileOp \/ TransposeOp \/ GatherOp
  \/ ExtractOp \/ InsertOp \/ ExtractSliceOp \/ InsertSliceOp \/ PadOp
  \/ CollapseOp \/ ExpandOp \/ ReshapeOp \/ CastOp \/ DimOp
  \/ EmptyOp \/ FillOp \/ FromElementsOp \/ GenerateOp \/ ConstOp
  \/ MatmulOp \/ DotOp \/ FullyConnOp \/ ReduceSumOp \/ TosaPoolOp \/ LinalgPoolOp
  \/ ConvNhwcOp \/ ConvNchwOp \/ DepthwiseOp \/ TosaConvOp \/ TosaDepthOp
  \/ GenericOp

Spec == Init /\ [][Next]_vars
=============================================================================
