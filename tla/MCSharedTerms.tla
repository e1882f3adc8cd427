---------------------------- MODULE MCSharedTerms ----------------------------
(***************************************************************************)
(* Small pairs of functions for SharedTerms.                               *)
(***************************************************************************)
EXTENDS SharedTerms

Scalar(elem) == [elem |-> elem, shape |-> "scalar", cnt |-> 1]
Tensor(elem, n) == [elem |-> elem, shape |-> "tensor", cnt |-> n]
MemRef(elem) == [elem |-> elem, shape |-> "memref", cnt |-> 2]

F32 == Scalar("f32")
F64 == Scalar("f64")

\* All names are records, as global variables are, so that TLC can compare them.
Simple(kind, operands, results) == Operation(kind, [name |-> ""], operands, results)

Unary(kind, type) == Simple(kind, <<1>>, <<type>>)
Call(name, operand, type) == Operation("call", [name |-> name], <<operand>>, <<type>>)
BigConst(elem) == Operation("bigConst", [name |-> "weights"], <<>>, <<Tensor(elem, 8)>>)
Alloc == Simple("alloc", <<>>, <<MemRef("f32")>>)
GetGlobal(g) == Operation("getGlobal", g, <<>>, <<MemRef(g.elem)>>)

Fn(args, ops) == [args |-> args, ops |-> ops]
Same(f) == [src |-> f, tgt |-> f]

Table == [name |-> "table", elem |-> "f32", constant |-> TRUE, value |-> 1]
State == [name |-> "state", elem |-> "f32", constant |-> FALSE, value |-> 0]

\* One f32 function, called with few and with many numbers around.
CallFew  == Same(Fn(<<F32>>, <<Call("simpl", 1, F32), Unary("other", F32)>>))
CallMany == Same(Fn(<<F32, F32, Tensor("f32", 4), Tensor("f32", 4)>>,
                    <<Simple("reduction", <<3, 4>>, <<F32>>), Call("simpl", 5, F32)>>))

\* A tensor passed to a function, with its dimension.
CallTensor == Same(Fn(<<Tensor("f32", 4)>>,
                      <<Simple("move", <<1>>, <<Tensor("f32", 4)>>),
                        Call("linear", 2, Tensor("f32", 4)),
                        Simple("other", <<3>>, <<F32>>)>>))

\* f64 with and without casts.
CallDouble == Same(Fn(<<F64>>, <<Call("dbl", 1, F64)>>))
Casts      == Same(Fn(<<F32>>, <<Unary("cast", F64), Simple("cast", <<2>>, <<F32>>)>>))
CastCall   == Same(Fn(<<F32>>, <<Unary("cast", F64), Call("dbl", 2, F64)>>))

\* Large constants.
Weights(elem) ==
  Same(Fn(<<Tensor(elem, 8)>>,
          <<BigConst(elem), Simple("move", <<2>>, <<Tensor(elem, 8)>>),
            Simple("const", <<>>, <<Scalar(elem)>>),
            Simple("other", <<1, 3>>, <<Tensor(elem, 8)>>)>>))
MoreWeights ==
  Same(Fn(<<Tensor("f32", 8), Tensor("f32", 8)>>,
          <<BigConst("f32"), Simple("reduction", <<1, 3>>, <<F32>>)>>))

\* Memory: blocks that only the target creates, variables of both.
Buffers == [src |-> Fn(<<F32>>, <<GetGlobal(Table)>>),
            tgt |-> Fn(<<F32>>, <<Alloc, GetGlobal(Table), Alloc,
                                  Simple("generic", <<2>>, <<>>)>>)]
OtherTable == [Buffers EXCEPT !.tgt = Fn(<<F32>>, <<GetGlobal([Table EXCEPT !.value = 2])>>)]
NewState   == [Buffers EXCEPT !.tgt = Fn(<<F32>>, <<GetGlobal(State)>>)]

\* What is not supported, and a callee about which the modules disagree.
Half     == Same(Fn(<<Tensor("f16", 2)>>, <<>>))
CallRef  == Same(Fn(<<MemRef("f32")>>, <<Call("byRef", 1, F32)>>))
Disagree == [src |-> Fn(<<F32, F64>>, <<Call("either", 1, F32)>>),
             tgt |-> Fn(<<F32, F64>>, <<Call("either", 2, F32)>>)]

\* Functions whose arguments differ in number and in type.
OtherCount == [src |-> Fn(<<F64>>, <<BigConst("f64")>>), tgt |-> Fn(<<F64, F64>>, <<>>)]
OtherType  == [src |-> Fn(<<F64>>, <<BigConst("f64")>>), tgt |-> Fn(<<F32>>, <<>>)]

AllPrograms ==
  {CallFew, CallMany, CallTensor, CallDouble, Casts, CastCall, Weights("f32"), Weights("f64"),
   MoreWeights, Buffers, OtherTable, NewState, Half, CallRef, Disagree,
   OtherCount, OtherType}
=============================================================================
