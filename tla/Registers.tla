------------------------------ MODULE Registers ------------------------------
(***************************************************************************)
(* The registers of an encoding, and refinement between what they hold.    *)
(***************************************************************************)
EXTENDS Tensors

VARIABLE regs   \* st.regs: types and tensors, arguments first

-----------------------------------------------------------------------------
\* The number of elements, whatever the width of a machine index.
Volume(dims) ==
  LET upTo[i \in 0..Len(dims)] == IF i = 0 THEN 1 ELSE upTo[i - 1] * dims[i]
  IN  upTo[Len(dims)]

FitsMachine(dims) == dims \in Seq(Cells) /\ Volume(dims) < Modulus

\* Whatever operations made a tensor, its sizes are machine numbers and a
\* machine index counts its elements: neither a size that was never resolved
\* nor one that wrapped below zero is left in a register (the new sizes that
\* the handlers of encode.cpp compute).
RegistersFit == \A i \in DOMAIN regs : FitsMachine(regs[i].t.dims)

InitializedAt(t) == {idx \in Box(t.dims) : IsInitialized(t, idx)}

\* ::refines(tgt, src) on tensors asks for equal sizes and, at each index that
\* is initialized in the source, for an initialized and equal element of the
\* target, and for nothing else: not for elements beyond the end, not for
\* those the source leaves uninitialized, nor with source and target swapped.
RefinesIsElementwise ==
  \A i, j \in DOMAIN regs :
    LET tgt == regs[i].t
        src == regs[j].t
    IN  Refines(tgt, src) <=>
          /\ tgt.dims = src.dims
          /\ \A idx \in InitializedAt(src) :
               idx \in InitializedAt(tgt) /\ Denoted(Get(tgt, idx)) = Denoted(Get(src, idx))
=============================================================================
