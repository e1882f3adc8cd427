------------------------------- MODULE Memory -------------------------------
(***************************************************************************)
(* The memory model (memory.h, memory.cpp), the references into it         *)
(* (MemRef, value.cpp) and the memory operations of the encoding           *)
(* (encode.cpp).                                                           *)
(*                                                                         *)
(* The program builds SMT expressions; here an expression is its value, so *)
(* that a memory is one the solver may choose and an operation computes on *)
(* it.  Blocks of different element types do not alias, so there is one    *)
(* element type.  References have the identity layout, whose dimensions    *)
(* only matter through their product.                                      *)
(***************************************************************************)
EXTENDS Integers, Sequences

CONSTANTS
  Modulus,     \* 2^Index::BITS: offsets and sizes wrap
  Value,       \* what an element can be
  Junk,        \* the contents of a fresh local block: any value, never a known one
  NumGlobals   \* blocks that exist before the function runs

ASSUME MemoryOK ==
  /\ Modulus \in Nat \ {0}
  /\ NumGlobals \in Nat \ {0}
  /\ Junk \in Value

\* encodeFinalStates allows as many local blocks as there are global ones.
MaxLocals == NumGlobals

Index   == 0..(Modulus - 1)
Globals == 1..NumGlobals

Plus(i, j)  == (i + j) % Modulus
Minus(i, j) == (i - j) % Modulus

Block == [arr      : [Index -> Value],
          init     : [Index -> BOOLEAN],
          writable : BOOLEAN,
          numelem  : Index,
          live     : BOOLEAN,
          byAlloc  : BOOLEAN]

\* A memory is the sequence of its blocks: the global ones, then the local
\* ones in the order of their creation.  Block numbers start at 1 here.
Bids == 1..(NumGlobals + MaxLocals)

IsMemory(mem) ==
  /\ mem \in Seq(Block)
  /\ Len(mem) \in NumGlobals..(NumGlobals + MaxLocals)

\* view: created by a view operation.
MemRef == [bid : Bids, offset : Index, size : Index, view : BOOLEAN]

-----------------------------------------------------------------------------
(***************************************************************************)
(* Access checks, for one element and for a range.                         *)
(***************************************************************************)
ElemInBounds(blk, i) == i < blk.numelem

\* checkInBounds of memory.cpp: no overflow, and the last element is inside.
RangeInBounds(blk, off, size) ==
  size = 0 \/ (off + (size - 1) < Modulus /\ off + (size - 1) < blk.numelem)

ElemInitialized(blk, i) == blk.init[i]
RangeInitialized(blk, off, size) == \A j \in Index : j < size => blk.init[Plus(j, off)]

-----------------------------------------------------------------------------
(***************************************************************************)
(* store and storeArray on one block.  An array to store is a function on  *)
(* Index.                                                                  *)
(***************************************************************************)
StoreElem(blk, i, v) ==
  [blk EXCEPT !.arr[i] = v, !.init[i] = TRUE]

\* A variant that covers one element too many.
Covered_OneMore(off, size) == {i \in Index : off <= i /\ i <= Plus(off, size)}

\* The last offset wraps when the size is zero and the offset too: then every
\* offset is covered.
Covered(off, size) == {i \in Index : off <= i /\ i <= Minus(Plus(off, size), 1)}

\* An array that fills the block replaces the old contents, provided the two
\* sizes simplify to the same expression; the branches differ outside the
\* block only.
StoreArray(blk, arr, off, size) ==
  [blk EXCEPT
     !.arr  = IF off = 0 /\ size = blk.numelem THEN arr
              ELSE [i \in Index |-> IF i \in Covered(off, size)
                                    THEN arr[Minus(i, off)] ELSE blk.arr[i]],
     !.init = [i \in Index |-> i \in Covered(off, size) \/ blk.init[i]]]

\* loadArray: the block seen from an offset on.
LoadArray(blk, off) == [i \in Index |-> blk.arr[Plus(i, off)]]

\* addLocalBlock: fresh contents, nothing initialized.
LocalBlock(numelem, writable, byAlloc) ==
  [arr |-> [i \in Index |-> Junk], init |-> [i \in Index |-> FALSE],
   writable |-> writable, numelem |-> numelem, live |-> TRUE, byAlloc |-> byAlloc]

\* A variant that makes room for one block more.
HasRoom_OneMore(mem) == Len(mem) <= NumGlobals + MaxLocals

HasRoom(mem) == Len(mem) < NumGlobals + MaxLocals

-----------------------------------------------------------------------------
(***************************************************************************)
(* The operations.  An operation yields the memory it leaves, whether it   *)
(* was well-defined, and what it puts into its result register: a value or *)
(* a reference.  The memory is updated even if the operation is not        *)
(* well-defined, as the conditions are only collected (State::wellDefined).*)
(***************************************************************************)
Outcome(mem, ok) == [mem |-> mem, ok |-> ok]

\* memref.load and memref.store: the index fits the reference, and the offset
\* it leads to, which may wrap, is inside the block.
At(r, i) == Plus(r.offset, i)

\* An element of a block is one of the reference.
Reaches(r, b, i) == r.bid = b /\ \E k \in Index : k < r.size /\ At(r, k) = i

\* A variant that does not ask for initialized elements.
LoadOk_NoInit(mem, r, i) ==
  i < r.size /\ ElemInBounds(mem[r.bid], At(r, i)) /\ mem[r.bid].live

LoadOk(mem, r, i) ==
  LET blk == mem[r.bid] IN
  /\ i < r.size /\ ElemInBounds(blk, At(r, i))
  /\ blk.live
  /\ ElemInitialized(blk, At(r, i))

Load(mem, r, i) == Outcome(mem, LoadOk(mem, r, i))
Loaded(mem, r, i) == mem[r.bid].arr[At(r, i)]

Store(mem, r, i, v) ==
  LET blk == mem[r.bid]
  IN  Outcome([mem EXCEPT ![r.bid] = StoreElem(blk, At(r, i), v)],
              /\ i < r.size /\ ElemInBounds(blk, At(r, i))
              /\ blk.live
              /\ blk.writable)

\* loadTensor and storeTensorTo.
LoadTensorOk(mem, r) ==
  LET blk == mem[r.bid] IN
  /\ RangeInBounds(blk, r.offset, r.size)
  /\ blk.live
  /\ RangeInitialized(blk, r.offset, r.size)

LoadTensor(mem, r) == LoadArray(mem[r.bid], r.offset)

\* A variant that takes ubIfReadOnly for ignoreWritable.
StoreTensorOk_Swapped(mem, r, ubIfReadOnly) ==
  LET blk == mem[r.bid] IN
  /\ RangeInBounds(blk, r.offset, r.size)
  /\ blk.live
  /\ ubIfReadOnly \/ blk.writable

StoreTensorOk(mem, r, ubIfReadOnly) ==
  LET blk == mem[r.bid] IN
  /\ RangeInBounds(blk, r.offset, r.size)
  /\ blk.live
  /\ ubIfReadOnly => blk.writable

StoreTensor(mem, r, tensor) ==
  [mem EXCEPT ![r.bid] = StoreArray(@, tensor, r.offset, r.size)]

\* linalg.fill of a buffer.
Fill(mem, r, v) ==
  Outcome(StoreTensor(mem, r, [i \in Index |-> v]), StoreTensorOk(mem, r, TRUE))

\* A variant that takes different offsets for disjoint ranges.
NoAlias_Offsets(r, s) == r.bid # s.bid \/ r.offset # s.offset

\* MemRef::noalias; the ends of the ranges may wrap.
NoAlias(r, s) ==
  \/ r.bid # s.bid
  \/ Plus(s.offset, s.size) <= r.offset
  \/ Plus(r.offset, r.size) <= s.offset

\* memref.copy.
Copy(mem, r, s) ==
  Outcome(StoreTensor(mem, s, LoadTensor(mem, r)),
          /\ r.size = s.size
          /\ NoAlias(r, s)
          /\ LoadTensorOk(mem, r)
          /\ StoreTensorOk(mem, s, TRUE))

\* A variant with the flag inverted.
SetWritable_Inverted(mem, b, flag) == [mem EXCEPT ![b].writable = ~flag]

SetWritable(mem, b, flag) == [mem EXCEPT ![b].writable = flag]

\* bufferization.to_tensor makes the block read-only for good.
ToTensor(mem, r) == Outcome(SetWritable(mem, r.bid, FALSE), LoadTensorOk(mem, r))

\* memref.dealloc.
Dealloc(mem, r) ==
  Outcome([mem EXCEPT ![r.bid].live = FALSE],
          mem[r.bid].live /\ ~r.view /\ mem[r.bid].byAlloc)

\* The reference to the block createNewLocalBlk has just added.
NewRef(mem, size) == [bid |-> Len(mem) + 1, offset |-> 0, size |-> size, view |-> FALSE]

\* memref.alloc, and memref.alloca, whose block cannot be deallocated.
Alloc(mem, size, byAlloc) ==
  Outcome(Append(mem, LocalBlock(size, TRUE, byAlloc)), TRUE)

\* bufferization.to_memref of a tensor of this size: a new read-only block.
ToMemref(mem, tensor, size) ==
  LET new == Append(mem, LocalBlock(size, FALSE, FALSE))
      r   == NewRef(mem, size)
  IN  Outcome(StoreTensor(new, r, tensor), StoreTensorOk(new, r, FALSE))

\* bufferization.clone: the tensor is loaded, stored to a new read-only block,
\* and the old block becomes read-only too.
Clone(mem, r) ==
  LET new == ToMemref(mem, LoadTensor(mem, r), r.size)
  IN  Outcome(SetWritable(new.mem, r.bid, FALSE), LoadTensorOk(mem, r) /\ new.ok)

\* memref.expand_shape and collapse_shape.
Reshape(r) == [r EXCEPT !.view = TRUE]

-----------------------------------------------------------------------------
\* A variant that forgets what may be written.
RefinesElem_NoWritable(tgt, src, i) ==
  ElemInBounds(src, i) /\ src.live =>
    ElemInBounds(tgt, i) /\ tgt.live /\ tgt.arr[i] = src.arr[i]

\* Memory::refines(other): tgt refines src if every element of a global block
\* that the source may access is there in the target, with the same value,
\* and writable if it was.
RefinesElem(tgt, src, i) ==
  ElemInBounds(src, i) /\ src.live =>
    /\ ElemInBounds(tgt, i) /\ tgt.live
    /\ src.writable => tgt.writable
    /\ tgt.arr[i] = src.arr[i]

\* A variant whose offset is not universally quantified.
Refines_FirstElem(tgt, src) ==
  \A b \in Globals : RefinesElem(tgt[b], src[b], 0)

Refines(tgt, src) ==
  \A b \in Globals, i \in Index : RefinesElem(tgt[b], src[b], i)
=============================================================================
