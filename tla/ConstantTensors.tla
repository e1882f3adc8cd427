--------------------------- MODULE ConstantTensors ---------------------------
(***************************************************************************)
(* Tensor::fromElemsAttr: constants with many elements are unknown arrays, *)
(* and a later constant with the same elements, transposed or in another   *)
(* shape, is made of the array of the earlier one.                         *)
(***************************************************************************)
EXTENDS Tensors

CONSTANT MaxConstSize   \* MAX_CONST_SIZE

ASSUME MaxConstSizeOK == MaxConstSize \in Nat

NumElements(attr) == Len(attr.vals)
At(attr, idxs) == attr.vals[To1DIdx(idxs, attr.dims) + 1]
AllIndices(dims) == {From1DIdx(c, dims) : c \in 0..(Get1DSize(dims) - 1)}

\* attr1[i_1]..[i_N] = attr2[i_N][i_1]..[i_N-1]
Rotated(seq) == <<Last(seq)>> \o Front(seq)
IsTransposed(attr1, attr2) ==
  /\ Len(attr1.dims) = Len(attr2.dims) /\ Len(attr1.dims) \in 2..4
  /\ Rotated(attr1.dims) = attr2.dims
  /\ \A i \in AllIndices(attr1.dims) : At(attr1, i) = At(attr2, Rotated(i))

\* attr1 is attr2 with dimensions of size one behind.
IsSimpleReduction(attr1, attr2) ==
  /\ Len(attr1.dims) > Len(attr2.dims) /\ Len(attr2.dims) = 1
  /\ attr1.dims[1] = attr2.dims[1]
  /\ \A i \in 2..Len(attr1.dims) : attr1.dims[i] = 1
  /\ attr1.vals = attr2.vals

\* The first of the known constants that the attribute is made of.
Related(attr, known) ==
  \/ attr = known
  \/ attr.kind = "dense" /\ (IsTransposed(attr, known) \/ IsSimpleReduction(attr, known))

FromKnown(attr, known) ==
  LET t == known.t
      n == Len(t.dims)
  IN  CASE attr = known.attr -> t
        [] attr # known.attr /\ IsTransposed(attr, known.attr) ->
             Affine(t, Rotated, Append(Tail(t.dims), Head(t.dims)))
        [] OTHER -> Affine(t, LAMBDA idx : <<idx[1]>>, attr.dims)

(***************************************************************************)
(* The new tensor and the list of known constants, abstractlyEncodedAttrs. *)
(* Dense and sparse constants count their unknowns apart, in two static    *)
(* variables, but name them alike.                                         *)
(***************************************************************************)
Created(attr, known) == Cardinality({i \in DOMAIN known : known[i].attr.kind = attr.kind})
NewConstant(attr, known) == Var("unknown_const", Created(attr, known), attr.dims, TRUE)

IsSplat(attr) == attr.kind = "dense" /\ Cardinality(ToSet(attr.vals)) = 1
SmallConstant(attr) ==
  LET nonZero == SelectSeq([i \in DOMAIN attr.vals |-> i], LAMBDA i : attr.vals[i] # 0)
  IN  IF attr.kind = "dense"
      THEN Reshape(FromElems([i \in DOMAIN attr.vals |-> Number(attr.vals[i])], <<NumElements(attr)>>),
                   attr.dims)
      ELSE Sparse([i \in DOMAIN nonZero |-> From1DIdx(nonZero[i] - 1, attr.dims)],
                  [i \in DOMAIN nonZero |-> Number(attr.vals[nonZero[i]])], attr.dims, Zero)

\* A variant that searches the list from its end.
Found_Latest(related) == CHOOSE i \in related : \A j \in related : i >= j

\* The list is searched in the order in which constants were met.
Found(related) == CHOOSE i \in related : \A j \in related : i <= j

FromElemsAttr(attr, known) ==
  LET related == {i \in DOMAIN known : Related(attr, known[i].attr)}
      new == NewConstant(attr, known)
  IN  IF IsSplat(attr) THEN [t |-> Splat(Number(attr.vals[1]), attr.dims), known |-> known]
      ELSE IF NumElements(attr) <= MaxConstSize THEN [t |-> SmallConstant(attr), known |-> known]
      ELSE IF related # {} THEN [t |-> FromKnown(attr, known[Found(related)]), known |-> known]
      ELSE [t |-> new, known |-> Append(known, [attr |-> attr, t |-> new])]
=============================================================================
