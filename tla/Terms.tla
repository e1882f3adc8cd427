-------------------------------- MODULE Terms --------------------------------
(***************************************************************************)
(* Programs on tensors and the values of their elements.  An element is a  *)
(* term: a leaf, which names an unknown or a number, or an operation on    *)
(* terms.  Sums and products stay the uninterpreted functions of the       *)
(* abstract encodings: a sum is a term over the list of what it adds, and  *)
(* equal lists have equal sums.                                            *)
(*                                                                         *)
(* A program has argument types and sizes and a list of operations.  An    *)
(* operation has a name, registers as operands, a static result type, and  *)
(* attributes, which are integers but for the indexing maps and the body   *)
(* of a region and the elements of a constant.                             *)
(***************************************************************************)
EXTENDS Integers, Sequences, FiniteSets, SequencesExt

Dynamic == -1   \* ShapedType::kDynamic

Leaf(name, n) == [op |-> name, n |-> n, args |-> <<>>]
App(f, args)  == [op |-> f, n |-> 0, args |-> args]
Number(n)     == Leaf("num", n)
Zero          == Number(0)
Add(a, b)     == App("add", <<a, b>>)
Mul(a, b)     == App("mul", <<a, b>>)

\* Integers and Booleans, see BitVectors: n values, val among them.
BV(op, n, args, val) == [op |-> op, n |-> n, args |-> args, val |-> val]
MkBV(v, n) == BV("bv", n, <<>>, v % n)
IsBits(e) == "val" \in DOMAIN e
Denoted(e) == IF IsBits(e) THEN MkBV(e.val, e.n) ELSE e

\* The c-th element of an unknown array; kind and id make its name.
Unknown(kind, id, c) == [op |-> kind, n |-> c, args |-> <<Number(id)>>]

-----------------------------------------------------------------------------
\* The indices of a shape in lexicographic order, and as a set.
Lex(dims) ==
  LET upTo[n \in 0..Len(dims)] ==
        IF n = 0 THEN << <<>> >>
        ELSE LET outer == upTo[n - 1]
             IN  [i \in 1..(Len(outer) * dims[n]) |->
                    Append(outer[1 + (i - 1) \div dims[n]], (i - 1) % dims[n])]
  IN  upTo[Len(dims)]
Box(dims) == ToSet(Lex(dims))
Linear(idx, dims) == (CHOOSE i \in DOMAIN Lex(dims) : Lex(dims)[i] = idx) - 1

-----------------------------------------------------------------------------
Operation(op, in, p, ty) ==
  [op |-> op, in |-> in, p |-> p, ty |-> ty,
   maps |-> <<>>, body |-> <<>>, numInputs |-> 0, numLoops |-> 0, attr |-> <<>>]

\* Elements of a dense or sparse constant in row major order.
Attr(kind, dims, vals) == [kind |-> kind, dims |-> dims, vals |-> vals]
=============================================================================
