--------------------------- MODULE MemoryRunProofs --------------------------
(***************************************************************************)
(* A function that works on memory, for every number and size of blocks,   *)
(* width of an index, values and references: blocks never come back to     *)
(* life, only what is alive and writable is written, what is known stays   *)
(* known, and a range is stored where it belongs although its end may      *)
(* wrap.  First what each operation does to a memory, then what a step of  *)
(* the function does.                                                      *)
(***************************************************************************)
EXTENDS MemoryRun, SequenceTheorems, TLAPS

-----------------------------------------------------------------------------
(***************************************************************************)
(* Indices and blocks.                                                     *)
(***************************************************************************)

\* Sums and differences of indices wrap to indices.
LEMMA IndexArithmetic ==
  ASSUME NEW i \in Index, NEW j \in Index
  PROVE  Plus(i, j) \in Index /\ Minus(i, j) \in Index
BY MemoryOK, SMT DEF Plus, Minus, Index

\* A stored element changes one element of its block.
LEMMA StoreElemBlock ==
  ASSUME NEW blk \in Block, NEW i \in Index, NEW v \in Value
  PROVE  /\ StoreElem(blk, i, v) \in Block
         /\ StoreElem(blk, i, v).live = blk.live
         /\ StoreElem(blk, i, v).writable = blk.writable
         /\ StoreElem(blk, i, v).numelem = blk.numelem
         /\ StoreElem(blk, i, v).byAlloc = blk.byAlloc
         /\ \A j \in Index :
              /\ StoreElem(blk, i, v).arr[j] = IF j = i THEN v ELSE blk.arr[j]
              /\ StoreElem(blk, i, v).init[j] <=> j = i \/ blk.init[j]
BY DEF StoreElem, Block

\* The elements a stored array puts into a block.
StoredElems(blk, arr, off, size) ==
  IF off = 0 /\ size = blk.numelem THEN arr
  ELSE [i \in Index |-> IF i \in Covered(off, size)
                        THEN arr[Minus(i, off)] ELSE blk.arr[i]]

\* A stored array changes the elements of its block.
LEMMA StoreArrayBlock ==
  ASSUME NEW blk \in Block, NEW arr \in [Index -> Value],
         NEW off \in Index, NEW size \in Index
  PROVE  /\ StoreArray(blk, arr, off, size) \in Block
         /\ StoreArray(blk, arr, off, size).live = blk.live
         /\ StoreArray(blk, arr, off, size).writable = blk.writable
         /\ StoreArray(blk, arr, off, size).numelem = blk.numelem
         /\ StoreArray(blk, arr, off, size).byAlloc = blk.byAlloc
         /\ StoreArray(blk, arr, off, size).arr = StoredElems(blk, arr, off, size)
         /\ \A i \in Index : StoreArray(blk, arr, off, size).init[i]
                               <=> i \in Covered(off, size) \/ blk.init[i]
<1>1. \A i \in Index : Minus(i, off) \in Index
  BY IndexArithmetic
<1>2. StoredElems(blk, arr, off, size) \in [Index -> Value]
  BY <1>1 DEF StoredElems, Block
<1> DEFINE elems == StoredElems(blk, arr, off, size)
           inits == [i \in Index |-> i \in Covered(off, size) \/ blk.init[i]]
<1>3. StoreArray(blk, arr, off, size) = [blk EXCEPT !.arr = elems, !.init = inits]
  BY DEF StoreArray, StoredElems
<1>4. elems \in [Index -> Value] /\ inits \in [Index -> BOOLEAN]
  BY <1>2 DEF Block
<1> HIDE DEF elems, inits
<1> DEFINE new == [blk EXCEPT !.arr = elems, !.init = inits]
<1>5. /\ new \in Block
      /\ new.live = blk.live /\ new.writable = blk.writable
      /\ new.numelem = blk.numelem /\ new.byAlloc = blk.byAlloc
      /\ new.arr = elems /\ new.init = inits
  BY <1>4 DEF Block
<1>6. \A i \in Index : inits[i] <=> i \in Covered(off, size) \/ blk.init[i]
  BY DEF inits
<1> HIDE DEF new
<1>7. StoreArray(blk, arr, off, size) = new
  BY <1>3 DEF new
<1> QED
  BY <1>5, <1>6, <1>7 DEF elems

\* A fresh block is one.
LEMMA LocalBlockType ==
  ASSUME NEW size \in Index, NEW w \in BOOLEAN, NEW a \in BOOLEAN
  PROVE  LocalBlock(size, w, a) \in Block
BY MemoryOK DEF LocalBlock, Block

-----------------------------------------------------------------------------
(***************************************************************************)
(* Memories.                                                               *)
(***************************************************************************)

\* Replacing a block leaves a memory.
LEMMA Replace ==
  ASSUME NEW m, IsMemory(m), NEW b \in DOMAIN m, NEW blk \in Block
  PROVE  LET new == [m EXCEPT ![b] = blk]
         IN  /\ IsMemory(new) /\ DOMAIN new = DOMAIN m /\ new[b] = blk
             /\ \A c \in DOMAIN m : c # b => new[c] = m[c]
             /\ Len(new) = Len(m)
<1>1. m \in Seq(Block) /\ DOMAIN m = 1..Len(m)
  BY LenProperties DEF IsMemory
<1>2. /\ [m EXCEPT ![b] = blk] \in Seq(Block)
      /\ Len([m EXCEPT ![b] = blk]) = Len(m)
  BY <1>1, ExceptSeq
<1> QED
  BY <1>1, <1>2 DEF IsMemory

\* So does adding one while there is room.
LEMMA Add ==
  ASSUME NEW m, IsMemory(m), HasRoom(m), NEW blk \in Block
  PROVE  LET new == Append(m, blk)
         IN  /\ IsMemory(new) /\ DOMAIN new = DOMAIN m \cup {Len(m) + 1}
             /\ Len(m) + 1 \notin DOMAIN m
             /\ new[Len(m) + 1] = blk
             /\ \A c \in DOMAIN m : new[c] = m[c]
             /\ Len(m) + 1 \in Bids
<1>1. m \in Seq(Block) /\ DOMAIN m = 1..Len(m) /\ Len(m) \in Nat
  BY LenProperties DEF IsMemory
<1>2. /\ Append(m, blk) \in Seq(Block) /\ Len(Append(m, blk)) = Len(m) + 1
      /\ \A i \in 1..Len(m) : Append(m, blk)[i] = m[i]
      /\ Append(m, blk)[Len(m) + 1] = blk
  BY <1>1, AppendProperties
<1>3. DOMAIN Append(m, blk) = 1..(Len(m) + 1)
  BY <1>2, LenProperties
<1>4. Len(m) \in NumGlobals..(NumGlobals + MaxLocals) /\ Len(m) < NumGlobals + MaxLocals
  BY DEF IsMemory, HasRoom
<1> QED
  BY <1>1, <1>2, <1>3, <1>4, MemoryOK DEF IsMemory, MaxLocals, Bids

\* What a step may do to blocks.
Fades(m, n) ==
  \A b \in DOMAIN m :
    /\ b \in DOMAIN n
    /\ n[b].live => m[b].live
    /\ n[b].writable => m[b].writable
    /\ \A i \in Index : m[b].init[i] => n[b].init[i]

\* What a defined step may do to elements.
WritesWritable(m, n) ==
  \A b \in DOMAIN m, i \in Index :
    i < m[b].numelem /\ n[b].arr[i] # m[b].arr[i] => m[b].writable /\ m[b].live

\* What every operation does to the memory it finds.
Safe(m, outcome) ==
  /\ IsMemory(outcome.mem)
  /\ Fades(m, outcome.mem)
  /\ outcome.ok => WritesWritable(m, outcome.mem)
  /\ DOMAIN m \subseteq DOMAIN outcome.mem

\* A block of a memory is a block.
LEMMA BlockOfMemory ==
  ASSUME NEW m, IsMemory(m), NEW b \in DOMAIN m
  PROVE  m[b] \in Block
BY LenProperties DEF IsMemory

\* An operation that leaves the memory alone is safe.
LEMMA SameSafe ==
  ASSUME NEW m, IsMemory(m), NEW ok
  PROVE  Safe(m, Outcome(m, ok))
BY DEF Safe, Outcome, Fades, WritesWritable

\* An operation that replaces one block is safe if the new block fades and
\* keeps what may not be written.
LEMMA ReplaceSafe ==
  ASSUME NEW m, IsMemory(m), NEW b \in DOMAIN m, NEW blk \in Block, NEW ok,
         blk.live => m[b].live,
         blk.writable => m[b].writable,
         \A i \in Index : m[b].init[i] => blk.init[i],
         ok => (m[b].writable /\ m[b].live) \/ blk.arr = m[b].arr
  PROVE  Safe(m, Outcome([m EXCEPT ![b] = blk], ok))
<1> DEFINE n == [m EXCEPT ![b] = blk]
<1>1. /\ IsMemory(n) /\ DOMAIN n = DOMAIN m /\ n[b] = blk
      /\ \A c \in DOMAIN m : c # b => n[c] = m[c]
  BY Replace
<1> HIDE DEF n
<1>2. Fades(m, n)
  BY <1>1 DEF Fades
<1>3. ok => WritesWritable(m, n)
  BY <1>1 DEF WritesWritable
<1>4. Safe(m, Outcome(n, ok))
  BY <1>1, <1>2, <1>3 DEF Safe, Outcome
<1> QED
  BY <1>4 DEF n

\* Adding a block is safe.
LEMMA AddSafe ==
  ASSUME NEW m, IsMemory(m), HasRoom(m), NEW blk \in Block, NEW ok
  PROVE  Safe(m, Outcome(Append(m, blk), ok))
BY Add DEF Safe, Outcome, Fades, WritesWritable

-----------------------------------------------------------------------------
(***************************************************************************)
(* Every operation is safe.                                                *)
(***************************************************************************)

\* memref.store.
LEMMA StoreSafe ==
  ASSUME NEW m, IsMemory(m), NEW r \in MemRef, r.bid \in DOMAIN m,
         NEW i \in Index, NEW v \in Value
  PROVE  Safe(m, Store(m, r, i, v))
<1>1. PICK blk \in Block : blk = m[r.bid]
  BY BlockOfMemory
<1>2. PICK j \in Index : j = At(r, i)
  BY IndexArithmetic DEF At, MemRef
<1> DEFINE new == StoreElem(blk, j, v)
<1>3. /\ new \in Block /\ new.live = blk.live /\ new.writable = blk.writable
      /\ \A k \in Index : blk.init[k] => new.init[k]
  BY StoreElemBlock
<1> HIDE DEF new
<1>4. Safe(m, Outcome([m EXCEPT ![r.bid] = new],
                      /\ i < r.size /\ ElemInBounds(blk, j)
                      /\ blk.live
                      /\ blk.writable))
  BY <1>1, <1>3, ReplaceSafe
<1> QED
  BY <1>1, <1>2, <1>4 DEF Store, new

\* The block a tensor is stored to.
Stored(m, r, t) == StoreArray(m[r.bid], t, r.offset, r.size)

\* What storing a tensor does to its block.
LEMMA StoreTensorBlock ==
  ASSUME NEW m, IsMemory(m), NEW r \in MemRef, r.bid \in DOMAIN m,
         NEW t \in [Index -> Value]
  PROVE  /\ Stored(m, r, t) \in Block
         /\ Stored(m, r, t).live = m[r.bid].live
         /\ Stored(m, r, t).writable = m[r.bid].writable
         /\ Stored(m, r, t).numelem = m[r.bid].numelem
         /\ Stored(m, r, t).arr = StoredElems(m[r.bid], t, r.offset, r.size)
         /\ \A i \in Index : Stored(m, r, t).init[i]
                               <=> i \in Covered(r.offset, r.size) \/ m[r.bid].init[i]
         /\ StoreTensor(m, r, t) = [m EXCEPT ![r.bid] = Stored(m, r, t)]
<1>1. PICK blk \in Block : blk = m[r.bid]
  BY BlockOfMemory
<1>2. PICK off \in Index, size \in Index : off = r.offset /\ size = r.size
  BY DEF MemRef
<1> DEFINE new == StoreArray(blk, t, off, size)
<1>3. /\ new \in Block /\ new.live = blk.live /\ new.writable = blk.writable
      /\ new.numelem = blk.numelem
      /\ new.arr = StoredElems(blk, t, off, size)
      /\ \A i \in Index : new.init[i] <=> i \in Covered(off, size) \/ blk.init[i]
  BY StoreArrayBlock
<1>4. Stored(m, r, t) = new
  BY <1>1, <1>2 DEF Stored
<1>5. StoreTensor(m, r, t) = [m EXCEPT ![r.bid] = Stored(m, r, t)]
  BY DEF StoreTensor, Stored
<1> HIDE DEF new
<1> QED
  BY <1>1, <1>2, <1>3, <1>4, <1>5

\* Storing a tensor where it may be stored.
LEMMA StoreTensorSafe ==
  ASSUME NEW m, IsMemory(m), NEW r \in MemRef, r.bid \in DOMAIN m,
         NEW t \in [Index -> Value], NEW ok, ok => StoreTensorOk(m, r, TRUE)
  PROVE  Safe(m, Outcome(StoreTensor(m, r, t), ok))
<1>1. ok => m[r.bid].writable /\ m[r.bid].live
  BY DEF StoreTensorOk
<1>2. PICK new : new = Stored(m, r, t)
  OBVIOUS
<1>3. PICK b \in DOMAIN m : b = r.bid
  OBVIOUS
<1>4. /\ new \in Block
      /\ new.live = m[b].live /\ new.writable = m[b].writable
      /\ \A j \in Index : m[b].init[j] => new.init[j]
      /\ StoreTensor(m, r, t) = [m EXCEPT ![b] = new]
  BY <1>2, <1>3, StoreTensorBlock
<1>5. Safe(m, Outcome([m EXCEPT ![b] = new], ok))
  BY <1>1, <1>3, <1>4, ReplaceSafe
<1> QED
  BY <1>4, <1>5

\* A loaded tensor has values for elements.
LEMMA LoadTensorType ==
  ASSUME NEW m, IsMemory(m), NEW r \in MemRef, r.bid \in DOMAIN m
  PROVE  LoadTensor(m, r) \in [Index -> Value]
<1>1. m[r.bid].arr \in [Index -> Value] /\ r.offset \in Index
  BY BlockOfMemory DEF Block, MemRef
<1> QED
  BY <1>1, IndexArithmetic DEF LoadTensor, LoadArray

\* linalg.fill.
LEMMA FillSafe ==
  ASSUME NEW m, IsMemory(m), NEW r \in MemRef, r.bid \in DOMAIN m, NEW v \in Value
  PROVE  Safe(m, Fill(m, r, v))
BY StoreTensorSafe DEF Fill

\* memref.copy.
LEMMA CopySafe ==
  ASSUME NEW m, IsMemory(m), NEW r \in MemRef, r.bid \in DOMAIN m,
         NEW s \in MemRef, s.bid \in DOMAIN m
  PROVE  Safe(m, Copy(m, r, s))
BY LoadTensorType, StoreTensorSafe DEF Copy

\* A block made read-only.
ReadOnly(m, b) == [m[b] EXCEPT !.writable = FALSE]

\* It is the same block otherwise.
LEMMA SetReadOnly ==
  ASSUME NEW m, IsMemory(m), NEW b \in DOMAIN m
  PROVE  /\ ReadOnly(m, b) \in Block
         /\ ReadOnly(m, b).arr = m[b].arr /\ ReadOnly(m, b).init = m[b].init
         /\ ReadOnly(m, b).numelem = m[b].numelem
         /\ ReadOnly(m, b).live = m[b].live /\ ~ReadOnly(m, b).writable
         /\ SetWritable(m, b, FALSE) = [m EXCEPT ![b] = ReadOnly(m, b)]
<1>1. PICK blk \in Block : blk = m[b]
  BY BlockOfMemory
<1> DEFINE new == [blk EXCEPT !.writable = FALSE]
<1>2. /\ new \in Block
      /\ new.arr = blk.arr /\ new.init = blk.init /\ new.numelem = blk.numelem
      /\ new.live = blk.live /\ ~new.writable
  BY DEF Block
<1>3. ReadOnly(m, b) = new
  BY <1>1 DEF ReadOnly
<1>4. SetWritable(m, b, FALSE) = [m EXCEPT ![b] = ReadOnly(m, b)]
  BY DEF SetWritable, ReadOnly
<1> HIDE DEF new
<1> QED
  BY <1>1, <1>2, <1>3, <1>4

\* bufferization.to_tensor.
LEMMA ToTensorSafe ==
  ASSUME NEW m, IsMemory(m), NEW r \in MemRef, r.bid \in DOMAIN m
  PROVE  Safe(m, ToTensor(m, r))
<1>1. PICK b \in DOMAIN m : b = r.bid
  OBVIOUS
<1> DEFINE new == ReadOnly(m, b)
<1>3. /\ new \in Block
      /\ new.arr = m[b].arr /\ new.init = m[b].init
      /\ new.live = m[b].live /\ ~new.writable
      /\ SetWritable(m, b, FALSE) = [m EXCEPT ![b] = new]
  BY SetReadOnly
<1> HIDE DEF new
<1>4. Safe(m, Outcome([m EXCEPT ![b] = new], LoadTensorOk(m, r)))
  BY <1>3, ReplaceSafe
<1> QED
  BY <1>1, <1>3, <1>4 DEF ToTensor

\* memref.dealloc.
LEMMA DeallocSafe ==
  ASSUME NEW m, IsMemory(m), NEW r \in MemRef, r.bid \in DOMAIN m
  PROVE  Safe(m, Dealloc(m, r))
<1> DEFINE blk == [m[r.bid] EXCEPT !.live = FALSE]
<1>1. m[r.bid] \in Block
  BY BlockOfMemory
<1>2. /\ blk \in Block /\ blk.arr = m[r.bid].arr /\ blk.init = m[r.bid].init
      /\ ~blk.live /\ blk.writable = m[r.bid].writable
      /\ [m EXCEPT ![r.bid].live = FALSE] = [m EXCEPT ![r.bid] = blk]
  BY <1>1 DEF Block
<1> HIDE DEF blk
<1> QED
  BY <1>2, ReplaceSafe DEF Dealloc

\* memref.alloc and alloca.
LEMMA AllocSafe ==
  ASSUME NEW m, IsMemory(m), HasRoom(m), NEW size \in Index, NEW byAlloc \in BOOLEAN
  PROVE  Safe(m, Alloc(m, size, byAlloc))
BY LocalBlockType, AddSafe DEF Alloc

\* The reference to a new block.
LEMMA NewRefType ==
  ASSUME NEW m, IsMemory(m), HasRoom(m), NEW size \in Index
  PROVE  NewRef(m, size) \in MemRef
<1>1. LocalBlock(size, TRUE, TRUE) \in Block
  BY LocalBlockType
<1>2. Len(m) + 1 \in Bids
  BY <1>1, Add
<1> QED
  BY <1>2, MemoryOK DEF NewRef, MemRef, Index

\* bufferization.to_memref: a new block, and what was there stays as it was.
LEMMA ToMemrefAdds ==
  ASSUME NEW m, IsMemory(m), HasRoom(m), NEW size \in Index,
         NEW t \in [Index -> Value]
  PROVE  /\ IsMemory(ToMemref(m, t, size).mem)
         /\ DOMAIN ToMemref(m, t, size).mem = DOMAIN m \cup {Len(m) + 1}
         /\ \A b \in DOMAIN m : ToMemref(m, t, size).mem[b] = m[b]
<1> DEFINE new == Append(m, LocalBlock(size, FALSE, FALSE))
           r   == NewRef(m, size)
<1>1. LocalBlock(size, FALSE, FALSE) \in Block
  BY LocalBlockType
<1>2. /\ IsMemory(new) /\ DOMAIN new = DOMAIN m \cup {Len(m) + 1}
      /\ Len(m) + 1 \notin DOMAIN m
      /\ \A b \in DOMAIN m : new[b] = m[b]
  BY <1>1, Add
<1>3. r \in MemRef /\ r.bid = Len(m) + 1
  BY NewRefType DEF NewRef
<1>4. ToMemref(m, t, size).mem = StoreTensor(new, r, t)
  BY DEF ToMemref, Outcome
<1> HIDE DEF new, r
<1>5. PICK blk \in Block : StoreTensor(new, r, t) = [new EXCEPT ![r.bid] = blk]
  <2>1. r.bid \in DOMAIN new
    BY <1>2, <1>3
  <2> QED
    BY <1>2, <1>3, <2>1, StoreTensorBlock
<1>6. /\ IsMemory([new EXCEPT ![r.bid] = blk])
      /\ DOMAIN [new EXCEPT ![r.bid] = blk] = DOMAIN new
      /\ \A c \in DOMAIN new : c # r.bid => [new EXCEPT ![r.bid] = blk][c] = new[c]
  BY <1>2, <1>3, Replace
<1> QED
  BY <1>2, <1>3, <1>4, <1>5, <1>6

\* So it is safe,
LEMMA ToMemrefSafe ==
  ASSUME NEW m, IsMemory(m), HasRoom(m), NEW size \in Index,
         NEW t \in [Index -> Value]
  PROVE  Safe(m, ToMemref(m, t, size))
BY ToMemrefAdds DEF Safe, Fades, WritesWritable

\* and so is bufferization.clone.
LEMMA CloneSafe ==
  ASSUME NEW m, IsMemory(m), HasRoom(m), NEW r \in MemRef, r.bid \in DOMAIN m
  PROVE  /\ Safe(m, Clone(m, r))
         /\ DOMAIN Clone(m, r).mem = DOMAIN m \cup {Len(m) + 1}
<1>0. PICK n : n = ToMemref(m, LoadTensor(m, r), r.size).mem
  OBVIOUS
<1>1. LoadTensor(m, r) \in [Index -> Value] /\ r.size \in Index
  BY LoadTensorType DEF MemRef
<1>2. /\ IsMemory(n) /\ DOMAIN n = DOMAIN m \cup {Len(m) + 1}
      /\ \A b \in DOMAIN m : n[b] = m[b]
  BY <1>0, <1>1, ToMemrefAdds
<1>3. Clone(m, r).mem = SetWritable(n, r.bid, FALSE)
  BY <1>0 DEF Clone, Outcome
<1>4. PICK b \in DOMAIN n : b = r.bid
  BY <1>2
<1> DEFINE blk == ReadOnly(n, b)
<1>6. /\ blk \in Block
      /\ blk.arr = n[b].arr /\ blk.init = n[b].init
      /\ blk.live = n[b].live /\ ~blk.writable
      /\ SetWritable(n, b, FALSE) = [n EXCEPT ![b] = blk]
  <2>1. IsMemory(n)
    BY <1>2
  <2> QED
    BY <2>1, SetReadOnly
<1> HIDE DEF blk
<1>7. /\ IsMemory([n EXCEPT ![b] = blk])
      /\ DOMAIN [n EXCEPT ![b] = blk] = DOMAIN n
      /\ [n EXCEPT ![b] = blk][b] = blk
      /\ \A c \in DOMAIN n : c # b => [n EXCEPT ![b] = blk][c] = n[c]
  BY <1>2, <1>6, Replace
<1>8. PICK o : o = [n EXCEPT ![b] = blk]
  OBVIOUS
<1>9. Clone(m, r).mem = o
  BY <1>3, <1>4, <1>6, <1>8
<1>10. IsMemory(o) /\ DOMAIN o = DOMAIN m \cup {Len(m) + 1}
  BY <1>2, <1>7, <1>8
<1>11. Fades(m, o) /\ WritesWritable(m, o)
  <2>1. o[b] = blk /\ \A c \in DOMAIN n : c # b => o[c] = n[c]
    BY <1>7, <1>8
  <2>2. \A c \in DOMAIN m : /\ c \in DOMAIN o /\ o[c].arr = m[c].arr
                            /\ o[c].init = m[c].init /\ o[c].live = m[c].live
                            /\ o[c].writable => m[c].writable
    BY <1>2, <1>6, <1>10, <2>1
  <2> QED
    BY <2>2 DEF Fades, WritesWritable
<1> QED
  BY <1>9, <1>10, <1>11 DEF Safe

-----------------------------------------------------------------------------
(***************************************************************************)
(* Offsets of a range that lies within its block.                          *)
(***************************************************************************)

\* The last offset of a range that does not wrap.
LEMMA LastOffset ==
  ASSUME NEW off \in Index, NEW size \in Index, size # 0, off + (size - 1) < Modulus
  PROVE  Minus(Plus(off, size), 1) = off + (size - 1)
<1>1. Modulus \in Nat \ {0} /\ off \in Nat /\ size \in Nat
  BY MemoryOK DEF Index
<1>2. CASE off + size < Modulus
  <2>1. (off + size) % Modulus = off + size
    BY <1>1, <1>2
  <2>2. (off + size - 1) % Modulus = off + size - 1
    BY <1>1, <1>2
  <2> QED
    BY <1>1, <2>1, <2>2 DEF Plus, Minus
<1>3. CASE off + size = Modulus
  <2>1. (off + size) % Modulus = 0
    BY <1>1, <1>3
  <2>2. (0 - 1) % Modulus = Modulus - 1
    BY <1>1
  <2> QED
    BY <1>1, <1>3, <2>1, <2>2 DEF Plus, Minus
<1> QED
  BY <1>1, <1>2, <1>3

\* An offset that a stored range covers is one of its elements.
LEMMA CoveredElement ==
  ASSUME NEW off \in Index, NEW size \in Index, size # 0, off + (size - 1) < Modulus,
         NEW i \in Index
  PROVE  /\ i \in Covered(off, size) <=> off <= i /\ i <= off + (size - 1)
         /\ i \in Covered(off, size) => Minus(i, off) \in Index /\ Minus(i, off) < size
<1>1. Modulus \in Nat \ {0} /\ off \in Nat /\ size \in Nat /\ i \in Nat /\ i < Modulus
  BY MemoryOK DEF Index
<1>2. i \in Covered(off, size) <=> off <= i /\ i <= off + (size - 1)
  BY LastOffset DEF Covered
<1>3. ASSUME off <= i, i <= off + (size - 1) PROVE Minus(i, off) < size
  <2>1. (i - off) % Modulus = i - off
    BY <1>1, <1>3
  <2> QED
    BY <1>1, <1>3, <2>1 DEF Minus
<1>4. Minus(i, off) \in Index
  BY IndexArithmetic
<1> QED
  BY <1>2, <1>3, <1>4

\* An element of a range that lies within a block does.
LEMMA ElementOfRange ==
  ASSUME NEW off \in Index, NEW size \in Index, NEW k \in Index, k < size,
         off + (size - 1) < Modulus
  PROVE  Plus(k, off) \in Index /\ Plus(k, off) <= off + (size - 1)
<1>1. Modulus \in Nat \ {0} /\ off \in Nat /\ size \in Nat /\ k \in Nat
  BY MemoryOK DEF Index
<1>2. (k + off) % Modulus = k + off
  BY <1>1
<1> QED
  BY <1>1, <1>2, IndexArithmetic DEF Plus

-----------------------------------------------------------------------------
(***************************************************************************)
(* What is known stays known.                                              *)
(***************************************************************************)

\* Elements of a block that count as initialized.
KnownBlock(blk) ==
  \A i \in Index : i < blk.numelem /\ blk.init[i] => blk.arr[i] # Junk

\* The first elements of a tensor.
KnownTensor(t, size) == \A k \in Index : k < size => t[k] # Junk

\* Storing known elements into a block leaves a known block.
LEMMA StoredKnown ==
  ASSUME NEW blk \in Block, KnownBlock(blk), NEW t \in [Index -> Value],
         NEW off \in Index, NEW size \in Index, size # 0,
         RangeInBounds(blk, off, size), KnownTensor(t, size)
  PROVE  KnownBlock(StoreArray(blk, t, off, size))
<1>0. /\ off + (size - 1) < Modulus /\ off \in Nat /\ size \in Nat
      /\ Index \subseteq Nat /\ blk.numelem \in Nat
  BY MemoryOK DEF RangeInBounds, Index, Block
<1> DEFINE new == StoreArray(blk, t, off, size)
<1>2. /\ new.numelem = blk.numelem
      /\ new.arr = StoredElems(blk, t, off, size)
      /\ \A i \in Index : new.init[i] <=> i \in Covered(off, size) \/ blk.init[i]
  BY StoreArrayBlock
<1> HIDE DEF new
<1>3. ASSUME NEW i \in Index, i < blk.numelem, new.init[i] PROVE new.arr[i] # Junk
  <2>0. /\ i \in Covered(off, size) <=> off <= i /\ i <= off + (size - 1)
        /\ i \in Covered(off, size) => Minus(i, off) \in Index /\ Minus(i, off) < size
    BY <1>0, CoveredElement
  <2>1. CASE off = 0 /\ size = blk.numelem
    <3>1. new.arr = t
      BY <1>2, <2>1 DEF StoredElems
    <3> QED
      BY <1>3, <2>1, <3>1 DEF KnownTensor
  <2>2. CASE ~(off = 0 /\ size = blk.numelem) /\ i \in Covered(off, size)
    <3>1. new.arr[i] = t[Minus(i, off)]
      BY <1>2, <2>2 DEF StoredElems
    <3> QED
      BY <2>0, <2>2, <3>1 DEF KnownTensor
  <2>3. CASE ~(off = 0 /\ size = blk.numelem) /\ i \notin Covered(off, size)
    <3>1. new.arr[i] = blk.arr[i] /\ blk.init[i]
      BY <1>2, <1>3, <2>3 DEF StoredElems
    <3> QED
      BY <1>3, <3>1 DEF KnownBlock
  <2> QED
    BY <2>1, <2>2, <2>3
<1>4. KnownBlock(new)
  BY <1>2, <1>3 DEF KnownBlock
<1> QED
  BY <1>4 DEF new

\* A tensor that may be loaded from a known block is known.
LEMMA LoadedKnown ==
  ASSUME NEW m, IsMemory(m), NEW r \in MemRef, r.bid \in DOMAIN m,
         KnownBlock(m[r.bid]), LoadTensorOk(m, r)
  PROVE  KnownTensor(LoadTensor(m, r), r.size)
<1>1. PICK blk \in Block : blk = m[r.bid]
  BY BlockOfMemory
<1>2. PICK off \in Index, size \in Index : off = r.offset /\ size = r.size
  BY DEF MemRef
<1>3. /\ size = 0 \/ (off + (size - 1) < Modulus /\ off + (size - 1) < blk.numelem)
      /\ \A j \in Index : j < size => blk.init[Plus(j, off)]
  BY <1>1, <1>2 DEF LoadTensorOk, RangeInBounds, RangeInitialized
<1>4. ASSUME NEW k \in Index, k < size PROVE blk.arr[Plus(k, off)] # Junk
  <2>1. size # 0 /\ Index \subseteq Nat /\ blk.numelem \in Nat
    BY <1>4, MemoryOK DEF Index, Block
  <2>2. off + (size - 1) < Modulus /\ off + (size - 1) < blk.numelem
    BY <1>3, <2>1
  <2>3. Plus(k, off) \in Index /\ Plus(k, off) <= off + (size - 1)
    BY <1>4, <2>2, ElementOfRange
  <2>4. Plus(k, off) < blk.numelem
    <3>1. off \in Nat /\ size \in Nat /\ blk.numelem \in Nat /\ Plus(k, off) \in Nat
      BY <2>1, <2>3
    <3> QED
      BY <2>2, <2>3, <3>1
  <2>5. KnownBlock(blk) /\ blk.init[Plus(k, off)]
    BY <1>1, <1>3, <1>4
  <2> QED
    BY <2>3, <2>4, <2>5 DEF KnownBlock
<1>5. \A k \in Index : LoadTensor(m, r)[k] = blk.arr[Plus(k, off)]
  BY <1>1, <1>2 DEF LoadTensor, LoadArray
<1> QED
  BY <1>2, <1>4, <1>5 DEF KnownTensor

KnownMemory(m) == \A b \in DOMAIN m : KnownBlock(m[b])

\* Replacing a block by a known one, or adding one, leaves a known memory.
LEMMA ReplaceKnown ==
  ASSUME NEW m, IsMemory(m), KnownMemory(m), NEW b \in DOMAIN m, NEW blk \in Block,
         KnownBlock(blk)
  PROVE  KnownMemory([m EXCEPT ![b] = blk])
<1>1. PICK n : n = [m EXCEPT ![b] = blk]
  OBVIOUS
<1>2. DOMAIN n = DOMAIN m /\ n[b] = blk /\ \A c \in DOMAIN m : c # b => n[c] = m[c]
  BY <1>1, Replace
<1>3. KnownMemory(n)
  BY <1>2 DEF KnownMemory
<1> QED
  BY <1>1, <1>3

\* Storing a known tensor.
LEMMA StoreTensorKnown ==
  ASSUME NEW m, IsMemory(m), KnownMemory(m), NEW r \in MemRef, r.bid \in DOMAIN m,
         r.size # 0, NEW t \in [Index -> Value], KnownTensor(t, r.size),
         NEW strict, StoreTensorOk(m, r, strict)
  PROVE  KnownMemory(StoreTensor(m, r, t))
<1>1. PICK b \in DOMAIN m : b = r.bid
  OBVIOUS
<1>2. PICK blk \in Block : blk = m[b]
  BY BlockOfMemory
<1>3. PICK off \in Index, size \in Index : off = r.offset /\ size = r.size
  BY DEF MemRef
<1>4. RangeInBounds(blk, off, size) /\ KnownBlock(blk)
  BY <1>1, <1>2, <1>3 DEF StoreTensorOk, KnownMemory
<1>5. PICK new \in Block : new = StoreArray(blk, t, off, size)
  BY StoreArrayBlock
<1>6. KnownBlock(new)
  BY <1>3, <1>4, <1>5, StoredKnown
<1>7. StoreTensor(m, r, t) = [m EXCEPT ![b] = new]
  BY <1>1, <1>2, <1>3, <1>5 DEF StoreTensor
<1>8. KnownMemory([m EXCEPT ![b] = new])
  BY <1>6, ReplaceKnown
<1> QED
  BY <1>7, <1>8

\* Nothing is initialized in a fresh block.
LEMMA LocalBlockKnown ==
  ASSUME NEW size, NEW w, NEW a
  PROVE  KnownBlock(LocalBlock(size, w, a))
BY DEF KnownBlock, LocalBlock

\* Adding a fresh block.
LEMMA AddKnown ==
  ASSUME NEW m, IsMemory(m), KnownMemory(m), HasRoom(m), NEW blk \in Block,
         KnownBlock(blk)
  PROVE  KnownMemory(Append(m, blk))
<1>1. PICK n : n = Append(m, blk)
  OBVIOUS
<1>2. /\ DOMAIN n = DOMAIN m \cup {Len(m) + 1} /\ n[Len(m) + 1] = blk
      /\ \A c \in DOMAIN m : n[c] = m[c]
  BY <1>1, Add
<1>3. KnownMemory(n)
  BY <1>2 DEF KnownMemory
<1> QED
  BY <1>1, <1>3

\* bufferization.to_memref of a known tensor.
LEMMA ToMemrefKnown ==
  ASSUME NEW m, IsMemory(m), KnownMemory(m), HasRoom(m), NEW size \in Index, size # 0,
         NEW t \in [Index -> Value], KnownTensor(t, size), ToMemref(m, t, size).ok
  PROVE  KnownMemory(ToMemref(m, t, size).mem)
<1>1. PICK blk \in Block : blk = LocalBlock(size, FALSE, FALSE)
  BY LocalBlockType
<1>2. KnownBlock(blk)
  BY <1>1, LocalBlockKnown
<1>3. PICK n : n = Append(m, blk)
  OBVIOUS
<1>4. /\ IsMemory(n) /\ DOMAIN n = DOMAIN m \cup {Len(m) + 1} /\ KnownMemory(n)
  BY <1>2, <1>3, Add, AddKnown
<1>5. PICK r \in MemRef : r = NewRef(m, size) /\ r.bid = Len(m) + 1 /\ r.size = size
  <2>1. NewRef(m, size) \in MemRef
    BY NewRefType
  <2>2. NewRef(m, size).bid = Len(m) + 1 /\ NewRef(m, size).size = size
    BY DEF NewRef
  <2> QED
    BY <2>1, <2>2
<1>6. StoreTensorOk(n, r, FALSE)
  BY <1>1, <1>3, <1>5 DEF ToMemref, Outcome
<1>7. ToMemref(m, t, size).mem = StoreTensor(n, r, t)
  BY <1>1, <1>3, <1>5 DEF ToMemref, Outcome
<1>8. r.bid \in DOMAIN n /\ IsMemory(n) /\ KnownMemory(n)
  BY <1>4, <1>5
<1>9. KnownTensor(t, r.size) /\ r.size # 0
  BY <1>5
<1> QED
  BY <1>6, <1>7, <1>8, <1>9, StoreTensorKnown

\* Making a block read-only.
LEMMA ReadOnlyKnown ==
  ASSUME NEW m, IsMemory(m), KnownMemory(m), NEW b \in DOMAIN m
  PROVE  KnownMemory(SetWritable(m, b, FALSE))
<1> DEFINE blk == ReadOnly(m, b)
<1>2. /\ blk \in Block
      /\ blk.arr = m[b].arr /\ blk.init = m[b].init /\ blk.numelem = m[b].numelem
      /\ SetWritable(m, b, FALSE) = [m EXCEPT ![b] = blk]
  BY SetReadOnly
<1> HIDE DEF blk
<1>3. KnownBlock(blk)
  BY <1>2 DEF KnownMemory, KnownBlock
<1>4. KnownMemory([m EXCEPT ![b] = blk])
  BY <1>2, <1>3, ReplaceKnown
<1> QED
  BY <1>2, <1>4

\* memref.dealloc.
LEMMA DeallocKnown ==
  ASSUME NEW m, IsMemory(m), KnownMemory(m), NEW r, r.bid \in DOMAIN m
  PROVE  KnownMemory(Dealloc(m, r).mem)
<1>1. PICK b \in DOMAIN m : b = r.bid
  OBVIOUS
<1>2. PICK old \in Block : old = m[b]
  BY BlockOfMemory
<1>3. PICK blk : blk = [old EXCEPT !.live = FALSE]
  OBVIOUS
<1>4. /\ blk \in Block
      /\ blk.arr = old.arr /\ blk.init = old.init /\ blk.numelem = old.numelem
  BY <1>3 DEF Block
<1>5. KnownBlock(blk)
  BY <1>2, <1>4 DEF KnownMemory, KnownBlock
<1>6. KnownMemory([m EXCEPT ![b] = blk])
  BY <1>4, <1>5, ReplaceKnown
<1>7. Dealloc(m, r).mem = [m EXCEPT ![b] = blk]
  BY <1>1, <1>2, <1>3 DEF Dealloc, Outcome
<1> QED
  BY <1>6, <1>7

-----------------------------------------------------------------------------
(***************************************************************************)
(* Storing a range.                                                        *)
(***************************************************************************)

\* Elements of a block are replaced where the stored range is, and by what is
\* stored there.
LEMMA StoredWhere ==
  ASSUME NEW blk \in Block, NEW t \in [Index -> Value], NEW off \in Index,
         NEW size \in Index, size # 0, RangeInBounds(blk, off, size),
         NEW i \in Index, i < blk.numelem
  PROVE  /\ off <= i /\ i <= off + (size - 1)
              => /\ i - off \in Index /\ i - off < size /\ Plus(off, i - off) = i
                 /\ StoredElems(blk, t, off, size)[i] = t[i - off]
         /\ ~(off <= i /\ i <= off + (size - 1))
              => StoredElems(blk, t, off, size)[i] = blk.arr[i]
<1>1. /\ Modulus \in Nat \ {0} /\ off \in Nat /\ size \in Nat /\ i \in Nat /\ i < Modulus
      /\ blk.numelem \in Nat /\ off + (size - 1) < Modulus /\ off + (size - 1) < blk.numelem
  BY MemoryOK DEF RangeInBounds, Index, Block
<1>2. i \in Covered(off, size) <=> off <= i /\ i <= off + (size - 1)
  BY <1>1, CoveredElement
<1>3. ASSUME off <= i, i <= off + (size - 1)
      PROVE  /\ i - off \in Index /\ i - off < size
             /\ Plus(off, i - off) = i /\ Minus(i, off) = i - off
  <2>1. i % Modulus = i /\ (i - off) % Modulus = i - off /\ off + (i - off) = i
    BY <1>1, <1>3
  <2>2. i - off \in Index
    BY <1>1, <1>3 DEF Index
  <2> QED
    BY <1>1, <1>3, <2>1, <2>2 DEF Plus, Minus
<1>4. CASE off = 0 /\ size = blk.numelem
  <2>1. StoredElems(blk, t, off, size) = t /\ i - off = i /\ i <= off + (size - 1)
    BY <1>1, <1>4 DEF StoredElems
  <2> QED
    BY <1>1, <1>3, <1>4, <2>1
<1>5. CASE ~(off = 0 /\ size = blk.numelem)
  <2>1. StoredElems(blk, t, off, size)[i]
          = IF i \in Covered(off, size) THEN t[Minus(i, off)] ELSE blk.arr[i]
    BY <1>5 DEF StoredElems
  <2> QED
    BY <1>2, <1>3, <2>1
<1> QED
  BY <1>4, <1>5

\* Only elements of the block b within r differ.
ChangesWithin(m, n, r) ==
  \A b \in DOMAIN m, i \in Index :
    i < m[b].numelem /\ n[b].arr[i] # m[b].arr[i] => Reaches(r, b, i)

\* A tensor is stored within the reference it is stored to.
LEMMA StoreTensorWithin ==
  ASSUME NEW m, IsMemory(m), NEW r \in MemRef, r.bid \in DOMAIN m, r.size # 0,
         NEW t \in [Index -> Value], StoreTensorOk(m, r, TRUE)
  PROVE  ChangesWithin(m, StoreTensor(m, r, t), r)
<1>1. PICK a \in DOMAIN m : a = r.bid
  OBVIOUS
<1>2. PICK blk \in Block : blk = m[a]
  BY BlockOfMemory
<1>3. PICK off \in Index, size \in Index : off = r.offset /\ size = r.size
  BY DEF MemRef
<1>4. RangeInBounds(blk, off, size)
  BY <1>1, <1>2, <1>3 DEF StoreTensorOk
<1>5. PICK new \in Block : /\ new.arr = StoredElems(blk, t, off, size)
                           /\ StoreTensor(m, r, t) = [m EXCEPT ![a] = new]
  BY <1>1, <1>2, <1>3, StoreTensorBlock
<1>6. PICK n : n = [m EXCEPT ![a] = new]
  OBVIOUS
<1>7. n[a] = new /\ \A c \in DOMAIN m : c # a => n[c] = m[c]
  BY <1>6, Replace
<1>8. ASSUME NEW b \in DOMAIN m, NEW i \in Index, i < m[b].numelem,
             n[b].arr[i] # m[b].arr[i]
      PROVE  Reaches(r, b, i)
  <2>1. b = a /\ i < blk.numelem /\ StoredElems(blk, t, off, size)[i] # blk.arr[i]
    BY <1>2, <1>5, <1>7, <1>8
  <2>2. PICK k \in Index : k = i - off /\ k < size /\ Plus(off, k) = i
    BY <1>3, <1>4, <2>1, StoredWhere
  <2> QED
    BY <1>1, <1>3, <2>1, <2>2 DEF Reaches, At
<1>9. ChangesWithin(m, n, r)
  BY <1>8 DEF ChangesWithin
<1> QED
  BY <1>5, <1>6, <1>9

\* memref.store.
LEMMA StoreWithin ==
  ASSUME NEW m, IsMemory(m), NEW r \in MemRef, r.bid \in DOMAIN m,
         NEW i \in Index, NEW v \in Value, Store(m, r, i, v).ok
  PROVE  ChangesWithin(m, Store(m, r, i, v).mem, r)
<1>1. PICK a \in DOMAIN m : a = r.bid
  OBVIOUS
<1>2. PICK blk \in Block : blk = m[a]
  BY BlockOfMemory
<1>3. PICK j \in Index : j = At(r, i)
  BY IndexArithmetic DEF At, MemRef
<1>4. PICK new \in Block : new = StoreElem(blk, j, v)
  BY StoreElemBlock
<1>5. \A k \in Index : new.arr[k] = IF k = j THEN v ELSE blk.arr[k]
  BY <1>4, StoreElemBlock
<1>6. i < r.size /\ Store(m, r, i, v).mem = [m EXCEPT ![a] = new]
  BY <1>1, <1>2, <1>3, <1>4 DEF Store, Outcome
<1>7. PICK n : n = [m EXCEPT ![a] = new]
  OBVIOUS
<1>8. n[a] = new /\ \A c \in DOMAIN m : c # a => n[c] = m[c]
  BY <1>7, Replace
<1>9. ASSUME NEW b \in DOMAIN m, NEW k \in Index, n[b].arr[k] # m[b].arr[k]
      PROVE  Reaches(r, b, k)
  <2>1. b = a /\ k = j
    BY <1>2, <1>5, <1>8, <1>9
  <2> QED
    BY <1>1, <1>3, <1>6, <2>1 DEF Reaches
<1>10. ChangesWithin(m, n, r)
  BY <1>9 DEF ChangesWithin
<1> QED
  BY <1>6, <1>7, <1>10

-----------------------------------------------------------------------------
(***************************************************************************)
(* Operations that change no element of an old block.                      *)
(***************************************************************************)

\* A memory whose old blocks have their elements has not changed.
SameElements(m, n) == \A b \in DOMAIN m : n[b].arr = m[b].arr

\* A block that becomes read-only keeps its elements.
LEMMA ReadOnlySame ==
  ASSUME NEW m, IsMemory(m), NEW b \in DOMAIN m
  PROVE  SameElements(m, SetWritable(m, b, FALSE))
<1> DEFINE blk == ReadOnly(m, b)
<1>2. /\ blk \in Block /\ blk.arr = m[b].arr
      /\ SetWritable(m, b, FALSE) = [m EXCEPT ![b] = blk]
  BY SetReadOnly
<1> HIDE DEF blk
<1>3. PICK n : n = [m EXCEPT ![b] = blk]
  OBVIOUS
<1>4. n[b] = blk /\ \A c \in DOMAIN m : c # b => n[c] = m[c]
  BY <1>2, <1>3, Replace
<1>5. SameElements(m, n)
  BY <1>2, <1>4 DEF SameElements
<1> QED
  BY <1>2, <1>3, <1>5

\* So does one that dies.
LEMMA DeallocSame ==
  ASSUME NEW m, IsMemory(m), NEW r, r.bid \in DOMAIN m
  PROVE  SameElements(m, Dealloc(m, r).mem)
<1>1. PICK b \in DOMAIN m : b = r.bid
  OBVIOUS
<1>2. PICK old \in Block : old = m[b]
  BY BlockOfMemory
<1>3. PICK blk : blk = [old EXCEPT !.live = FALSE]
  OBVIOUS
<1>4. blk \in Block /\ blk.arr = old.arr
  BY <1>3 DEF Block
<1>5. PICK n : n = [m EXCEPT ![b] = blk]
  OBVIOUS
<1>6. n[b] = blk /\ \A c \in DOMAIN m : c # b => n[c] = m[c]
  BY <1>4, <1>5, Replace
<1>7. SameElements(m, n)
  BY <1>2, <1>4, <1>6 DEF SameElements
<1>8. Dealloc(m, r).mem = n
  BY <1>1, <1>2, <1>3, <1>5 DEF Dealloc, Outcome
<1> QED
  BY <1>7, <1>8

\* Cloning writes to the new block only.
LEMMA CloneSame ==
  ASSUME NEW m, IsMemory(m), HasRoom(m), NEW r \in MemRef, r.bid \in DOMAIN m
  PROVE  SameElements(m, Clone(m, r).mem)
<1>1. PICK t \in [Index -> Value] : t = LoadTensor(m, r)
  BY LoadTensorType
<1>2. PICK size \in Index : size = r.size
  BY DEF MemRef
<1>3. PICK n : n = ToMemref(m, t, size).mem
  OBVIOUS
<1>4. /\ IsMemory(n) /\ DOMAIN n = DOMAIN m \cup {Len(m) + 1}
      /\ \A b \in DOMAIN m : n[b] = m[b]
  BY <1>3, ToMemrefAdds
<1>5. SameElements(n, SetWritable(n, r.bid, FALSE))
  BY <1>4, ReadOnlySame
<1>6. Clone(m, r).mem = SetWritable(n, r.bid, FALSE)
  BY <1>1, <1>2, <1>3 DEF Clone, Outcome
<1> QED
  BY <1>4, <1>5, <1>6 DEF SameElements

-----------------------------------------------------------------------------
(***************************************************************************)
(* memref.copy.                                                            *)
(***************************************************************************)

\* The ranges of a well-defined copy are apart, although the ends that noalias
\* compares may wrap.
LEMMA RangesApart ==
  ASSUME NEW blk \in Block, NEW p \in Index, NEW q \in Index, NEW size \in Index, size # 0,
         RangeInBounds(blk, p, size), RangeInBounds(blk, q, size),
         Plus(q, size) <= p \/ Plus(p, size) <= q
  PROVE  q + size <= p \/ p + size <= q
<1>1. /\ Modulus \in Nat \ {0} /\ p \in Nat /\ q \in Nat /\ size \in Nat
      /\ blk.numelem \in Nat /\ blk.numelem < Modulus
      /\ p + (size - 1) < blk.numelem /\ q + (size - 1) < blk.numelem
  BY MemoryOK DEF RangeInBounds, Index, Block
<1>2. (p + size) % Modulus = p + size /\ (q + size) % Modulus = q + size
  BY <1>1
<1> QED
  BY <1>1, <1>2 DEF Plus

\* An offset of a range that lies within its block does not wrap.
LEMMA AtRange ==
  ASSUME NEW blk \in Block, NEW off \in Index, NEW size \in Index,
         RangeInBounds(blk, off, size), NEW i \in Index, i < size
  PROVE  /\ Plus(off, i) = off + i /\ Plus(i, off) = off + i
         /\ off + i \in Index /\ off + i < blk.numelem
<1>1. /\ Modulus \in Nat \ {0} /\ off \in Nat /\ size \in Nat /\ i \in Nat
      /\ blk.numelem \in Nat /\ off + (size - 1) < Modulus /\ off + (size - 1) < blk.numelem
  BY MemoryOK DEF RangeInBounds, Index, Block
<1>2. (off + i) % Modulus = off + i /\ i + off = off + i
  BY <1>1
<1>3. off + i \in Index /\ off + i < blk.numelem
  BY <1>1 DEF Index
<1> QED
  BY <1>2, <1>3 DEF Plus

\* A well-defined copy has the elements of the source in both places.
LEMMA CopyElements ==
  ASSUME NEW m, IsMemory(m), NEW r \in MemRef, r.bid \in DOMAIN m,
         NEW s \in MemRef, s.bid \in DOMAIN m, Copy(m, r, s).ok,
         NEW n, n = Copy(m, r, s).mem, NEW i \in Index, i < r.size
  PROVE  /\ n[s.bid].arr[At(s, i)] = m[r.bid].arr[At(r, i)]
         /\ n[r.bid].arr[At(r, i)] = m[r.bid].arr[At(r, i)]
<1>1. PICK a \in DOMAIN m, c \in DOMAIN m : a = r.bid /\ c = s.bid
  OBVIOUS
<1>2. PICK from \in Block, to \in Block : from = m[a] /\ to = m[c]
  BY BlockOfMemory
<1>3. PICK p \in Index, q \in Index, size \in Index :
        p = r.offset /\ q = s.offset /\ size = r.size
  BY DEF MemRef
<1>4. PICK t \in [Index -> Value] : t = LoadTensor(m, r)
  BY LoadTensorType
<1>5. /\ s.size = size /\ NoAlias(r, s) /\ LoadTensorOk(m, r) /\ StoreTensorOk(m, s, TRUE)
      /\ n = StoreTensor(m, s, t)
  BY <1>3, <1>4 DEF Copy, Outcome
<1>6. RangeInBounds(from, p, size) /\ RangeInBounds(to, q, size)
  BY <1>1, <1>2, <1>3, <1>5 DEF LoadTensorOk, StoreTensorOk
<1>7. i < size /\ size # 0 /\ i \in Nat /\ size \in Nat /\ p \in Nat /\ q \in Nat
  BY <1>3, MemoryOK DEF Index
<1>8. /\ At(r, i) = p + i /\ p + i \in Index /\ p + i < from.numelem
      /\ Plus(i, p) = p + i
  BY <1>3, <1>6, <1>7, AtRange DEF At
<1>9. At(s, i) = q + i /\ q + i \in Index /\ q + i < to.numelem
  BY <1>3, <1>6, <1>7, AtRange DEF At
<1>10. PICK new \in Block : /\ new.arr = StoredElems(to, t, q, size)
                            /\ n = [m EXCEPT ![c] = new]
  BY <1>1, <1>2, <1>3, <1>5, StoreTensorBlock
<1>11. n[c] = new /\ \A b \in DOMAIN m : b # c => n[b] = m[b]
  BY <1>10, Replace
<1>12. t[i] = from.arr[p + i]
  BY <1>1, <1>2, <1>3, <1>4, <1>8 DEF LoadTensor, LoadArray
<1>13. new.arr[q + i] = t[i]
  <2>1. q <= q + i /\ q + i <= q + (size - 1) /\ (q + i) - q = i
    BY <1>7
  <2> QED
    BY <1>6, <1>7, <1>9, <1>10, <2>1, StoredWhere
<1>14. n[a].arr[p + i] = from.arr[p + i]
  <2>1. CASE a # c
    BY <1>2, <1>11, <2>1
  <2>2. CASE a = c
    <3>1. to = from
      BY <1>2, <2>2
    <3>2. Plus(q, size) <= p \/ Plus(p, size) <= q
      BY <1>1, <1>3, <1>5, <2>2 DEF NoAlias
    <3>3. q + size <= p \/ p + size <= q
      BY <1>6, <1>7, <3>1, <3>2, RangesApart
    <3>4. ~(q <= p + i /\ p + i <= q + (size - 1))
      BY <1>7, <3>3
    <3>5. new.arr[p + i] = to.arr[p + i]
      BY <1>6, <1>7, <1>8, <1>10, <3>1, <3>4, StoredWhere
    <3> QED
      BY <1>11, <2>2, <3>1, <3>5
  <2> QED
    BY <2>1, <2>2
<1> QED
  BY <1>1, <1>2, <1>8, <1>9, <1>11, <1>12, <1>13, <1>14

-----------------------------------------------------------------------------
(***************************************************************************)
(* The steps of a function: types, and what a step does to old blocks.     *)
(***************************************************************************)

\* What a step does to memory.
SafeStep == Fades(mem, mem') /\ (wd' => WritesWritable(mem, mem'))

\* A register holds a reference into the memory.
LEMMA RefType ==
  ASSUME TypeOK, NEW r \in Ref
  PROVE  r \in MemRef /\ r.bid \in DOMAIN mem
BY LenProperties DEF TypeOK, Ref

\* A loaded element is a value.
LEMMA LoadedType ==
  ASSUME TypeOK, NEW r \in Ref, NEW i \in Index
  PROVE  Loaded(mem, r, i) \in Value
<1>1. PICK blk \in Block : blk = mem[r.bid]
  BY RefType, BlockOfMemory DEF TypeOK
<1>2. PICK j \in Index : j = At(r, i)
  BY RefType, IndexArithmetic DEF At, MemRef
<1>3. blk.arr[j] \in Value
  BY DEF Block
<1> QED
  BY <1>1, <1>2, <1>3 DEF Loaded

\* A safe operation keeps the types if its registers have theirs.
LEMMA DoType ==
  ASSUME TypeOK, NEW o, Safe(mem, o), Do(o), reads' \subseteq Value,
         \/ regs' = regs
         \/ \E r \in MemRef : regs' = Append(regs, r) /\ r.bid \in DOMAIN o.mem
  PROVE  TypeOK' /\ SafeStep
<1>1. /\ mem' = o.mem /\ wd' = (wd /\ o.ok) /\ ops < MaxOps /\ ops' = ops + 1
      /\ thrown' = thrown
  BY DEF Do, NextOp
<1>2. IsMemory(mem') /\ SafeStep /\ DOMAIN mem \subseteq DOMAIN mem'
  BY <1>1 DEF Safe, SafeStep
<1>3. regs' \in Seq(MemRef) /\ \A i \in DOMAIN regs' : regs'[i].bid \in DOMAIN mem'
  <2>1. CASE regs' = regs
    BY <1>2, <2>1 DEF TypeOK
  <2>2. CASE regs' # regs
    <3>1. PICK r \in MemRef : regs' = Append(regs, r) /\ r.bid \in DOMAIN mem'
      BY <1>1, <2>2
    <3>2. /\ regs \in Seq(MemRef) /\ DOMAIN regs = 1..Len(regs) /\ Len(regs) \in Nat
          /\ \A i \in DOMAIN regs : regs[i].bid \in DOMAIN mem'
      BY <1>2, LenProperties DEF TypeOK
    <3>3. /\ Append(regs, r) \in Seq(MemRef)
          /\ Len(Append(regs, r)) = Len(regs) + 1
          /\ \A i \in 1..Len(regs) : Append(regs, r)[i] = regs[i]
          /\ Append(regs, r)[Len(regs) + 1] = r
      BY <3>2, AppendProperties
    <3>4. DOMAIN Append(regs, r) = 1..(Len(regs) + 1)
      BY <3>3, LenProperties
    <3>5. \A i \in 1..(Len(regs) + 1) : Append(regs, r)[i].bid \in DOMAIN mem'
      <4> SUFFICES ASSUME NEW i \in 1..(Len(regs) + 1)
                   PROVE  Append(regs, r)[i].bid \in DOMAIN mem'
        OBVIOUS
      <4>1. i \in 1..Len(regs) \/ i = Len(regs) + 1
        BY <3>2
      <4> QED
        BY <3>1, <3>2, <3>3, <4>1
    <3> QED
      BY <3>1, <3>3, <3>4, <3>5
  <2> QED
    BY <2>1, <2>2
<1>4. ops' \in 0..MaxOps /\ wd' \in BOOLEAN /\ thrown' \in BOOLEAN
  BY <1>1, RunOK DEF TypeOK
<1> QED
  BY <1>2, <1>3, <1>4 DEF TypeOK

\* So does one that leaves the registers alone.
LEMMA DoKeepsRegs ==
  ASSUME TypeOK, NEW o, Safe(mem, o), Do(o), reads' \subseteq Value, regs' = regs
  PROVE  TypeOK' /\ SafeStep
BY DoType

\* Every operation keeps the types and is safe.
LEMMA NextType == TypeOK /\ [Next]_vars => TypeOK' /\ [SafeStep]_vars
<1> SUFFICES ASSUME TypeOK, [Next]_vars PROVE TypeOK' /\ [SafeStep]_vars
  OBVIOUS
<1>0. IsMemory(mem) /\ reads \subseteq Value
  BY DEF TypeOK
<1>1. CASE LoadOp
  <2>1. PICK r \in Ref, i \in Index :
          /\ Do(Load(mem, r, i)) /\ reads' = reads \cup {Loaded(mem, r, i)}
          /\ regs' = regs
    BY <1>1 DEF LoadOp
  <2>2. Safe(mem, Load(mem, r, i)) /\ reads' \subseteq Value
    BY <1>0, <2>1, SameSafe, LoadedType DEF Load
  <2> QED
    BY <2>1, <2>2, DoKeepsRegs
<1>2. CASE StoreOp
  <2>1. PICK r \in Ref, i \in Index, v \in Value \ {Junk} :
          Do(Store(mem, r, i, v)) /\ UNCHANGED <<regs, reads>>
    BY <1>2 DEF StoreOp
  <2>2. Safe(mem, Store(mem, r, i, v))
    BY <1>0, RefType, StoreSafe
  <2> QED
    BY <1>0, <2>1, <2>2, DoKeepsRegs
<1>3. CASE FillOp
  <2>1. PICK r \in Ref, v \in Value \ {Junk} :
          Do(Fill(mem, r, v)) /\ UNCHANGED <<regs, reads>>
    BY <1>3 DEF FillOp
  <2>2. Safe(mem, Fill(mem, r, v))
    BY <1>0, RefType, FillSafe
  <2> QED
    BY <1>0, <2>1, <2>2, DoKeepsRegs
<1>4. CASE CopyOp
  <2>1. PICK r \in Ref, s \in Ref : Do(Copy(mem, r, s)) /\ UNCHANGED <<regs, reads>>
    BY <1>4 DEF CopyOp
  <2>2. Safe(mem, Copy(mem, r, s))
    BY <1>0, RefType, CopySafe
  <2> QED
    BY <1>0, <2>1, <2>2, DoKeepsRegs
<1>5. CASE ToTensorOp
  <2>1. PICK r \in Ref :
          /\ Do(ToTensor(mem, r)) /\ regs' = regs
          /\ reads' = reads \cup {LoadTensor(mem, r)[i] : i \in {j \in Index : j < r.size}}
    BY <1>5 DEF ToTensorOp
  <2>2. Safe(mem, ToTensor(mem, r))
    BY <1>0, RefType, ToTensorSafe
  <2>3. LoadTensor(mem, r) \in [Index -> Value]
    BY <1>0, RefType, LoadTensorType
  <2>4. reads' \subseteq Value
    BY <1>0, <2>1, <2>3
  <2> QED
    BY <2>1, <2>2, <2>4, DoKeepsRegs
<1>6. CASE DeallocOp
  <2>1. PICK r \in Ref : Do(Dealloc(mem, r)) /\ UNCHANGED <<regs, reads>>
    BY <1>6 DEF DeallocOp
  <2>2. Safe(mem, Dealloc(mem, r))
    BY <1>0, RefType, DeallocSafe
  <2> QED
    BY <1>0, <2>1, <2>2, DoKeepsRegs
<1>7. CASE AllocOp
  <2>1. PICK size \in Sizes, byAlloc \in BOOLEAN :
          /\ HasRoom(mem) /\ Do(Alloc(mem, size, byAlloc))
          /\ regs' = Append(regs, NewRef(mem, size)) /\ reads' = reads
    BY <1>7 DEF AllocOp
  <2>2. size \in Index
    BY RunOK
  <2>3. Safe(mem, Alloc(mem, size, byAlloc)) /\ NewRef(mem, size) \in MemRef
    BY <1>0, <2>1, <2>2, AllocSafe, NewRefType
  <2>4. NewRef(mem, size).bid \in DOMAIN Alloc(mem, size, byAlloc).mem
    <3>1. LocalBlock(size, TRUE, byAlloc) \in Block
      BY <2>2, LocalBlockType
    <3>2. Len(mem) + 1 \in DOMAIN Append(mem, LocalBlock(size, TRUE, byAlloc))
      BY <1>0, <2>1, <3>1, Add
    <3> QED
      BY <3>2 DEF NewRef, Alloc, Outcome
  <2> QED
    BY <1>0, <2>1, <2>3, <2>4, DoType
<1>8. CASE ToMemrefOp
  <2>1. PICK size \in Sizes, v \in Value \ {Junk} :
          /\ HasRoom(mem) /\ Do(ToMemref(mem, [i \in Index |-> v], size))
          /\ regs' = Append(regs, NewRef(mem, size)) /\ reads' = reads
    BY <1>8 DEF ToMemrefOp
  <2>2. size \in Index
    BY RunOK
  <2>3. PICK t \in [Index -> Value] : t = [i \in Index |-> v]
    OBVIOUS
  <2>4. Safe(mem, ToMemref(mem, t, size)) /\ NewRef(mem, size) \in MemRef
    BY <1>0, <2>1, <2>2, ToMemrefSafe, NewRefType
  <2>5. NewRef(mem, size).bid \in DOMAIN ToMemref(mem, t, size).mem
    <3>1. Len(mem) + 1 \in DOMAIN ToMemref(mem, t, size).mem
      BY <1>0, <2>1, <2>2, ToMemrefAdds
    <3> QED
      BY <3>1 DEF NewRef
  <2> QED
    BY <1>0, <2>1, <2>3, <2>4, <2>5, DoType
<1>9. CASE CloneOp
  <2>1. PICK r \in Ref :
          /\ HasRoom(mem) /\ Do(Clone(mem, r))
          /\ regs' = Append(regs, NewRef(mem, r.size)) /\ reads' = reads
    BY <1>9 DEF CloneOp
  <2>2. r \in MemRef /\ r.bid \in DOMAIN mem /\ r.size \in Index
    BY RefType DEF MemRef
  <2>3. Safe(mem, Clone(mem, r)) /\ NewRef(mem, r.size) \in MemRef
    BY <1>0, <2>1, <2>2, CloneSafe, NewRefType
  <2>4. NewRef(mem, r.size).bid \in DOMAIN Clone(mem, r).mem
    <3>1. Len(mem) + 1 \in DOMAIN Clone(mem, r).mem
      BY <1>0, <2>1, <2>2, CloneSafe
    <3> QED
      BY <3>1 DEF NewRef
  <2> QED
    BY <1>0, <2>1, <2>3, <2>4, DoType
<1>10. CASE ReshapeOp
  <2>1. PICK r \in Ref :
          /\ Do(Outcome(mem, TRUE)) /\ regs' = Append(regs, Reshape(r)) /\ reads' = reads
    BY <1>10 DEF ReshapeOp
  <2>2. Reshape(r) \in MemRef /\ Reshape(r).bid \in DOMAIN mem
    BY RefType DEF Reshape, MemRef
  <2>3. Safe(mem, Outcome(mem, TRUE)) /\ Reshape(r).bid \in DOMAIN Outcome(mem, TRUE).mem
    BY <1>0, <2>2, SameSafe DEF Outcome
  <2> QED
    BY <1>0, <2>1, <2>2, <2>3, DoType
<1>11. CASE TooManyLocalBlocks
  <2>1. /\ ops < MaxOps /\ ops' = ops + 1 /\ thrown' = TRUE
        /\ UNCHANGED <<mem, regs, wd, reads>>
    BY <1>11 DEF TooManyLocalBlocks, NextOp
  <2>2. ops' \in 0..MaxOps
    BY <2>1, RunOK DEF TypeOK
  <2> QED
    BY <2>1, <2>2 DEF TypeOK, SafeStep, Fades, WritesWritable
<1>12. CASE UNCHANGED vars
  BY <1>12 DEF TypeOK, vars
<1> QED
  BY <1>1, <1>2, <1>3, <1>4, <1>5, <1>6, <1>7, <1>8, <1>9, <1>10, <1>11, <1>12 DEF Next

\* A function starts with global blocks and references into them.
LEMMA InitType == Init => TypeOK
<1> SUFFICES ASSUME Init PROVE TypeOK
  OBVIOUS
<1>1. IsMemory(mem) /\ Len(mem) = NumGlobals
  BY RunOK DEF Init
<1>2. DOMAIN mem = Globals
  BY <1>1, LenProperties DEF IsMemory, Globals
<1>3. regs \in Seq(MemRef) /\ \A i \in DOMAIN regs : regs[i].bid \in DOMAIN mem
  BY <1>2, RunOK DEF Init
<1>4. ops \in 0..MaxOps /\ reads \subseteq Value /\ wd \in BOOLEAN /\ thrown \in BOOLEAN
  <2>1. MaxOps \in Nat
    BY RunOK
  <2>2. ops = 0 /\ reads = {} /\ wd = TRUE /\ thrown = FALSE
    BY DEF Init
  <2>3. 0 \in 0..MaxOps
    BY <2>1
  <2> QED
    BY <2>2, <2>3
<1> QED
  BY <1>1, <1>3, <1>4 DEF TypeOK

-----------------------------------------------------------------------------
\* The memory is one and references lead into it, whatever is executed and
\* however many local blocks are asked for.
THEOREM TypeCorrect == Spec => []TypeOK
BY InitType, NextType, PTL DEF Spec

\* What a step without undefined behaviour changes is alive and writable.
THEOREM WritableOnly == Spec => OnlyWritableChanges
<1> DEFINE Step == \A b \in DOMAIN mem, i \in Index :
                     /\ wd' /\ i < mem[b].numelem
                     /\ mem'[b].arr[i] # mem[b].arr[i]
                     => mem[b].writable /\ mem[b].live
<1>1. TypeOK /\ [Next]_vars => [Step]_vars
  BY NextType DEF SafeStep, WritesWritable
<1>2. OnlyWritableChanges <=> [][Step]_vars
  BY PTL DEF OnlyWritableChanges
<1> QED
  BY <1>1, <1>2, TypeCorrect, PTL DEF Spec

\* Blocks do not come back to life, become writable again or lose elements.
THEOREM BlocksOnlyFade == Spec => BlocksFade
<1> DEFINE Step == \A b \in DOMAIN mem :
                     /\ b \in DOMAIN mem'
                     /\ mem'[b].live => mem[b].live
                     /\ mem'[b].writable => mem[b].writable
                     /\ \A i \in Index : mem[b].init[i] => mem'[b].init[i]
<1>1. TypeOK /\ [Next]_vars => [Step]_vars
  BY NextType DEF SafeStep, Fades
<1>2. BlocksFade <=> [][Step]_vars
  BY PTL DEF BlocksFade
<1> QED
  BY <1>1, <1>2, TypeCorrect, PTL DEF Spec
-----------------------------------------------------------------------------
(***************************************************************************)
(* No function without undefined behaviour reads what nobody has written,  *)
(* whatever aliases, wraps around or is copied, as long as no reference is *)
(* empty (an empty one covers its whole block when it is stored to).  The  *)
(* invariant: while the function is defined, the memory is known and no    *)
(* load has seen anything else.                                            *)
(***************************************************************************)

NoEmptyRefs ==
  /\ 0 \notin Sizes
  /\ \A a \in Args : \A i \in DOMAIN a : a[i].size # 0

NonEmpty == \A i \in DOMAIN regs : regs[i].size # 0

KnownInv == NonEmpty /\ (wd => KnownMemory(mem) /\ Junk \notin reads)

\* A register holds a nonempty reference into the memory.
LEMMA NonEmptyRef ==
  ASSUME TypeOK, KnownInv, NEW r \in Ref
  PROVE  r \in MemRef /\ r.bid \in DOMAIN mem /\ r.size # 0
<1>1. r \in MemRef /\ r.bid \in DOMAIN mem
  BY RefType
<1>2. r.size # 0
  BY DEF KnownInv, NonEmpty, Ref
<1> QED
  BY <1>1, <1>2

\* Adding a nonempty reference to the registers.
LEMMA AppendNonEmpty ==
  ASSUME TypeOK, NonEmpty, NEW r \in MemRef, r.size # 0, regs' = Append(regs, r)
  PROVE  NonEmpty'
<1>1. regs \in Seq(MemRef) /\ DOMAIN regs = 1..Len(regs) /\ Len(regs) \in Nat
  BY LenProperties DEF TypeOK
<1>2. /\ Append(regs, r) \in Seq(MemRef)
      /\ Len(Append(regs, r)) = Len(regs) + 1
      /\ \A i \in 1..Len(regs) : Append(regs, r)[i] = regs[i]
      /\ Append(regs, r)[Len(regs) + 1] = r
  BY <1>1, AppendProperties
<1>3. DOMAIN Append(regs, r) = 1..(Len(regs) + 1)
  BY <1>2, LenProperties
<1>4. ASSUME NEW i \in 1..(Len(regs) + 1) PROVE Append(regs, r)[i].size # 0
  <2>1. i \in 1..Len(regs) \/ i = Len(regs) + 1
    BY <1>1
  <2> QED
    BY <1>1, <1>2, <2>1 DEF NonEmpty
<1> QED
  BY <1>3, <1>4 DEF NonEmpty

\* An operation keeps the invariant if it leaves known memory known.
LEMMA DoKnown ==
  ASSUME KnownInv, NEW o, Do(o), NonEmpty',
         o.ok /\ KnownMemory(mem) => KnownMemory(o.mem),
         o.ok /\ KnownMemory(mem) /\ Junk \notin reads => Junk \notin reads'
  PROVE  KnownInv'
<1>1. mem' = o.mem /\ (wd' <=> wd /\ o.ok)
  BY DEF Do
<1> QED
  BY <1>1 DEF KnownInv, KnownMemory

\* memref.store of a value.
LEMMA StoreKnown ==
  ASSUME NEW m, IsMemory(m), KnownMemory(m), NEW r \in MemRef, r.bid \in DOMAIN m,
         NEW i \in Index, NEW v \in Value, v # Junk
  PROVE  KnownMemory(Store(m, r, i, v).mem)
<1>1. PICK b \in DOMAIN m : b = r.bid
  OBVIOUS
<1>2. PICK blk \in Block : blk = m[b]
  BY BlockOfMemory
<1>3. PICK j \in Index : j = At(r, i)
  BY IndexArithmetic DEF At, MemRef
<1>4. PICK new \in Block : new = StoreElem(blk, j, v)
  BY StoreElemBlock
<1>5. /\ new.numelem = blk.numelem
      /\ \A k \in Index : /\ new.arr[k] = IF k = j THEN v ELSE blk.arr[k]
                          /\ new.init[k] <=> k = j \/ blk.init[k]
  BY <1>4, StoreElemBlock
<1>6. KnownBlock(blk)
  BY <1>2 DEF KnownMemory
<1>7. KnownBlock(new)
  BY <1>5, <1>6 DEF KnownBlock
<1>8. KnownMemory([m EXCEPT ![b] = new])
  BY <1>7, ReplaceKnown
<1>9. Store(m, r, i, v).mem = [m EXCEPT ![b] = new]
  BY <1>1, <1>2, <1>3, <1>4 DEF Store, Outcome
<1> QED
  BY <1>8, <1>9

\* linalg.fill with one.
LEMMA FillKnown ==
  ASSUME NEW m, IsMemory(m), KnownMemory(m), NEW r \in MemRef, r.bid \in DOMAIN m,
         r.size # 0, NEW v \in Value, v # Junk, Fill(m, r, v).ok
  PROVE  KnownMemory(Fill(m, r, v).mem)
<1>1. PICK t \in [Index -> Value] : t = [i \in Index |-> v]
  OBVIOUS
<1>2. KnownTensor(t, r.size)
  BY <1>1 DEF KnownTensor
<1>3. StoreTensorOk(m, r, TRUE) /\ Fill(m, r, v).mem = StoreTensor(m, r, t)
  BY <1>1 DEF Fill, Outcome
<1> QED
  BY <1>2, <1>3, StoreTensorKnown

\* memref.copy.
LEMMA CopyKnown ==
  ASSUME NEW m, IsMemory(m), KnownMemory(m), NEW r \in MemRef, r.bid \in DOMAIN m,
         NEW s \in MemRef, s.bid \in DOMAIN m, s.size # 0, Copy(m, r, s).ok
  PROVE  KnownMemory(Copy(m, r, s).mem)
<1>1. PICK t \in [Index -> Value] : t = LoadTensor(m, r)
  BY LoadTensorType
<1>2. /\ r.size = s.size /\ LoadTensorOk(m, r) /\ StoreTensorOk(m, s, TRUE)
      /\ Copy(m, r, s).mem = StoreTensor(m, s, t)
  BY <1>1 DEF Copy, Outcome
<1>3. KnownBlock(m[r.bid])
  BY DEF KnownMemory
<1>4. KnownTensor(t, s.size)
  BY <1>1, <1>2, <1>3, LoadedKnown
<1> QED
  BY <1>2, <1>4, StoreTensorKnown

\* bufferization.clone.
LEMMA CloneKnown ==
  ASSUME NEW m, IsMemory(m), KnownMemory(m), HasRoom(m),
         NEW r \in MemRef, r.bid \in DOMAIN m, r.size # 0, Clone(m, r).ok
  PROVE  KnownMemory(Clone(m, r).mem)
<1>1. PICK t \in [Index -> Value] : t = LoadTensor(m, r)
  BY LoadTensorType
<1>2. PICK size \in Index : size = r.size
  BY DEF MemRef
<1>3. PICK n : n = ToMemref(m, t, size).mem
  OBVIOUS
<1>4. /\ LoadTensorOk(m, r) /\ ToMemref(m, t, size).ok
      /\ Clone(m, r).mem = SetWritable(n, r.bid, FALSE)
  BY <1>1, <1>2, <1>3 DEF Clone, Outcome
<1>5. KnownBlock(m[r.bid])
  BY DEF KnownMemory
<1>6. KnownTensor(t, size)
  BY <1>1, <1>2, <1>4, <1>5, LoadedKnown
<1>7. KnownMemory(n)
  BY <1>2, <1>3, <1>4, <1>6, ToMemrefKnown
<1>8. IsMemory(n) /\ r.bid \in DOMAIN n
  BY <1>3, ToMemrefAdds
<1> QED
  BY <1>4, <1>7, <1>8, ReadOnlyKnown

\* Every step keeps the invariant.
LEMMA NextKnown == ASSUME NoEmptyRefs PROVE TypeOK /\ KnownInv /\ [Next]_vars => KnownInv'
<1> SUFFICES ASSUME TypeOK, KnownInv, [Next]_vars PROVE KnownInv'
  OBVIOUS
<1>0. IsMemory(mem) /\ NonEmpty
  BY DEF TypeOK, KnownInv
<1>a. ASSUME regs' = regs PROVE NonEmpty'
  BY <1>0, <1>a DEF NonEmpty
<1>1. CASE LoadOp
  <2>1. PICK r \in Ref, i \in Index :
          /\ Do(Load(mem, r, i)) /\ reads' = reads \cup {Loaded(mem, r, i)}
          /\ regs' = regs
    BY <1>1 DEF LoadOp
  <2>2. PICK j : j = At(r, i)
    OBVIOUS
  <2>3. j \in Index
    BY <2>2, RefType, IndexArithmetic DEF At, MemRef
  <2>4. /\ Load(mem, r, i).mem = mem
        /\ Load(mem, r, i).ok => j < mem[r.bid].numelem /\ mem[r.bid].init[j]
        /\ Loaded(mem, r, i) = mem[r.bid].arr[j]
    BY <2>2 DEF Load, Outcome, LoadOk, Loaded, ElemInBounds, ElemInitialized
  <2>5. Load(mem, r, i).ok /\ KnownMemory(mem) => Loaded(mem, r, i) # Junk
    BY <2>3, <2>4, RefType DEF KnownMemory, KnownBlock
  <2> QED
    BY <1>a, <2>1, <2>4, <2>5, DoKnown
<1>2. CASE StoreOp
  <2>1. PICK r \in Ref, i \in Index, v \in Value \ {Junk} :
          Do(Store(mem, r, i, v)) /\ UNCHANGED <<regs, reads>>
    BY <1>2 DEF StoreOp
  <2>2. KnownMemory(mem) => KnownMemory(Store(mem, r, i, v).mem)
    BY <1>0, RefType, StoreKnown
  <2> QED
    BY <1>a, <2>1, <2>2, DoKnown
<1>3. CASE FillOp
  <2>1. PICK r \in Ref, v \in Value \ {Junk} :
          Do(Fill(mem, r, v)) /\ UNCHANGED <<regs, reads>>
    BY <1>3 DEF FillOp
  <2>2. Fill(mem, r, v).ok /\ KnownMemory(mem) => KnownMemory(Fill(mem, r, v).mem)
    BY <1>0, NonEmptyRef, FillKnown
  <2> QED
    BY <1>a, <2>1, <2>2, DoKnown
<1>4. CASE CopyOp
  <2>1. PICK r \in Ref, s \in Ref : Do(Copy(mem, r, s)) /\ UNCHANGED <<regs, reads>>
    BY <1>4 DEF CopyOp
  <2>2. Copy(mem, r, s).ok /\ KnownMemory(mem) => KnownMemory(Copy(mem, r, s).mem)
    BY <1>0, NonEmptyRef, CopyKnown
  <2> QED
    BY <1>a, <2>1, <2>2, DoKnown
<1>5. CASE ToTensorOp
  <2>1. PICK r \in Ref :
          /\ Do(ToTensor(mem, r)) /\ regs' = regs
          /\ reads' = reads \cup {LoadTensor(mem, r)[i] : i \in {j \in Index : j < r.size}}
    BY <1>5 DEF ToTensorOp
  <2>2. r \in MemRef /\ r.bid \in DOMAIN mem
    BY RefType
  <2>3. /\ ToTensor(mem, r).ok <=> LoadTensorOk(mem, r)
        /\ ToTensor(mem, r).mem = SetWritable(mem, r.bid, FALSE)
    BY DEF ToTensor, Outcome
  <2>4. KnownMemory(mem) => KnownMemory(ToTensor(mem, r).mem)
    BY <1>0, <2>2, <2>3, ReadOnlyKnown
  <2>5. ASSUME ToTensor(mem, r).ok, KnownMemory(mem)
        PROVE  KnownTensor(LoadTensor(mem, r), r.size)
    <3>1. KnownBlock(mem[r.bid])
      BY <2>2, <2>5 DEF KnownMemory
    <3> QED
      BY <1>0, <2>2, <2>3, <2>5, <3>1, LoadedKnown
  <2>6. ToTensor(mem, r).ok /\ KnownMemory(mem) /\ Junk \notin reads => Junk \notin reads'
    BY <2>1, <2>5 DEF KnownTensor
  <2> QED
    BY <1>a, <2>1, <2>4, <2>6, DoKnown
<1>6. CASE DeallocOp
  <2>1. PICK r \in Ref : Do(Dealloc(mem, r)) /\ UNCHANGED <<regs, reads>>
    BY <1>6 DEF DeallocOp
  <2>2. r.bid \in DOMAIN mem
    BY RefType
  <2>3. KnownMemory(mem) => KnownMemory(Dealloc(mem, r).mem)
    BY <1>0, <2>2, DeallocKnown
  <2> QED
    BY <1>a, <2>1, <2>3, DoKnown
<1>7. CASE AllocOp
  <2>1. PICK size \in Sizes, byAlloc \in BOOLEAN :
          /\ HasRoom(mem) /\ Do(Alloc(mem, size, byAlloc))
          /\ regs' = Append(regs, NewRef(mem, size)) /\ reads' = reads
    BY <1>7 DEF AllocOp
  <2>2. size \in Index /\ size # 0
    BY RunOK DEF NoEmptyRefs
  <2>3. NewRef(mem, size) \in MemRef /\ NewRef(mem, size).size = size
    <3>1. NewRef(mem, size) \in MemRef
      BY <1>0, <2>1, <2>2, NewRefType
    <3> QED
      BY <3>1 DEF NewRef
  <2>4. NonEmpty'
    BY <1>0, <2>1, <2>2, <2>3, AppendNonEmpty
  <2>5. PICK blk \in Block : blk = LocalBlock(size, TRUE, byAlloc)
    BY <2>2, LocalBlockType
  <2>6. KnownBlock(blk)
    BY <2>5, LocalBlockKnown
  <2>7. KnownMemory(mem) => KnownMemory(Append(mem, blk))
    BY <1>0, <2>1, <2>6, AddKnown
  <2>8. Alloc(mem, size, byAlloc).mem = Append(mem, blk)
    BY <2>5 DEF Alloc, Outcome
  <2> QED
    BY <2>1, <2>4, <2>7, <2>8, DoKnown
<1>8. CASE ToMemrefOp
  <2>1. PICK size \in Sizes, v \in Value \ {Junk} :
          /\ HasRoom(mem) /\ Do(ToMemref(mem, [i \in Index |-> v], size))
          /\ regs' = Append(regs, NewRef(mem, size)) /\ reads' = reads
    BY <1>8 DEF ToMemrefOp
  <2>2. size \in Index /\ size # 0
    BY RunOK DEF NoEmptyRefs
  <2>3. NewRef(mem, size) \in MemRef /\ NewRef(mem, size).size = size
    <3>1. NewRef(mem, size) \in MemRef
      BY <1>0, <2>1, <2>2, NewRefType
    <3> QED
      BY <3>1 DEF NewRef
  <2>4. NonEmpty'
    BY <1>0, <2>1, <2>2, <2>3, AppendNonEmpty
  <2>5. PICK t \in [Index -> Value] : t = [i \in Index |-> v]
    OBVIOUS
  <2>6. KnownTensor(t, size)
    BY <2>5 DEF KnownTensor
  <2>7. ToMemref(mem, t, size).ok /\ KnownMemory(mem) => KnownMemory(ToMemref(mem, t, size).mem)
    BY <1>0, <2>1, <2>2, <2>6, ToMemrefKnown
  <2>8. Do(ToMemref(mem, t, size))
    BY <2>1, <2>5
  <2> QED
    BY <2>1, <2>4, <2>7, <2>8, DoKnown
<1>9. CASE CloneOp
  <2>1. PICK r \in Ref :
          /\ HasRoom(mem) /\ Do(Clone(mem, r))
          /\ regs' = Append(regs, NewRef(mem, r.size)) /\ reads' = reads
    BY <1>9 DEF CloneOp
  <2>2. r \in MemRef /\ r.bid \in DOMAIN mem /\ r.size \in Index /\ r.size # 0
    BY NonEmptyRef DEF MemRef
  <2>3. NewRef(mem, r.size) \in MemRef /\ NewRef(mem, r.size).size = r.size
    <3>1. NewRef(mem, r.size) \in MemRef
      BY <1>0, <2>1, <2>2, NewRefType
    <3> QED
      BY <3>1 DEF NewRef
  <2>4. NonEmpty'
    BY <1>0, <2>1, <2>2, <2>3, AppendNonEmpty
  <2>5. Clone(mem, r).ok /\ KnownMemory(mem) => KnownMemory(Clone(mem, r).mem)
    BY <1>0, <2>1, <2>2, CloneKnown
  <2> QED
    BY <2>1, <2>4, <2>5, DoKnown
<1>10. CASE ReshapeOp
  <2>1. PICK r \in Ref :
          /\ Do(Outcome(mem, TRUE)) /\ regs' = Append(regs, Reshape(r)) /\ reads' = reads
    BY <1>10 DEF ReshapeOp
  <2>2. r \in MemRef /\ r.size # 0
    BY NonEmptyRef
  <2>3. Reshape(r) \in MemRef /\ Reshape(r).size = r.size
    BY <2>2 DEF Reshape, MemRef
  <2>4. NonEmpty'
    BY <1>0, <2>1, <2>2, <2>3, AppendNonEmpty
  <2>5. Outcome(mem, TRUE).mem = mem
    BY DEF Outcome
  <2> QED
    BY <2>1, <2>4, <2>5, DoKnown
<1>11. CASE TooManyLocalBlocks
  BY <1>11 DEF TooManyLocalBlocks, KnownInv, NonEmpty, KnownMemory
<1>12. CASE UNCHANGED vars
  BY <1>12 DEF KnownInv, NonEmpty, KnownMemory, vars
<1> QED
  BY <1>1, <1>2, <1>3, <1>4, <1>5, <1>6, <1>7, <1>8, <1>9, <1>10, <1>11, <1>12 DEF Next

\* A function starts with known globals and nonempty arguments.
LEMMA InitKnown == ASSUME NoEmptyRefs PROVE Init => KnownInv
<1> SUFFICES ASSUME Init PROVE KnownInv
  OBVIOUS
<1>1. NonEmpty
  BY DEF Init, NoEmptyRefs, NonEmpty
<1>2. Known(mem)
  BY RunOK DEF Init
<1>3. KnownMemory(mem)
  BY <1>2 DEF Known, KnownMemory, KnownBlock
<1> QED
  BY <1>1, <1>3 DEF Init, KnownInv

\* No load and no tensor of a function without undefined behaviour contains an
\* element nobody has written (checkRead against store and storeArray).
THEOREM NoJunk == ASSUME NoEmptyRefs PROVE Spec => []NoJunkRead
<1>1. Init => KnownInv
  BY InitKnown
<1>2. TypeOK /\ KnownInv /\ [Next]_vars => KnownInv'
  BY NextKnown
<1>3. KnownInv => NoJunkRead
  BY DEF KnownInv, NoJunkRead
<1> QED
  BY <1>1, <1>2, <1>3, TypeCorrect, PTL DEF Spec
-----------------------------------------------------------------------------
(***************************************************************************)
(* Where a function without undefined behaviour writes.                    *)
(***************************************************************************)

ReferencedStep ==
  \A b \in DOMAIN mem, i \in Index :
    /\ wd' /\ i < mem[b].numelem
    /\ mem'[b].arr[i] # mem[b].arr[i]
    => \E r \in Ref : Reaches(r, b, i)

\* What a step stores through a reference, it may.
LEMMA WithinStep ==
  ASSUME NEW o, Do(o), NEW r \in Ref, o.ok => ChangesWithin(mem, o.mem, r)
  PROVE  ReferencedStep
BY DEF Do, ReferencedStep, ChangesWithin

\* So it may leave everything alone.
LEMMA SameStep ==
  ASSUME NEW o, Do(o), SameElements(mem, o.mem)
  PROVE  ReferencedStep
BY DEF Do, ReferencedStep, SameElements

\* Every step writes to elements of references only.
LEMMA NextReferenced ==
  TypeOK /\ KnownInv /\ [Next]_vars => [ReferencedStep]_vars
<1> SUFFICES ASSUME TypeOK, KnownInv, Next PROVE ReferencedStep
  OBVIOUS
<1>0. IsMemory(mem)
  BY DEF TypeOK
<1>1. CASE LoadOp
  <2>1. PICK r \in Ref, i \in Index : Do(Load(mem, r, i))
    BY <1>1 DEF LoadOp
  <2>2. SameElements(mem, Load(mem, r, i).mem)
    BY DEF Load, Outcome, SameElements
  <2> QED
    BY <2>1, <2>2, SameStep
<1>2. CASE StoreOp
  <2>1. PICK r \in Ref, i \in Index, v \in Value \ {Junk} : Do(Store(mem, r, i, v))
    BY <1>2 DEF StoreOp
  <2>2. Store(mem, r, i, v).ok => ChangesWithin(mem, Store(mem, r, i, v).mem, r)
    BY <1>0, RefType, StoreWithin
  <2> QED
    BY <2>1, <2>2, WithinStep
<1>3. CASE FillOp
  <2>1. PICK r \in Ref, v \in Value \ {Junk} : Do(Fill(mem, r, v))
    BY <1>3 DEF FillOp
  <2>2. PICK t \in [Index -> Value] : t = [i \in Index |-> v]
    OBVIOUS
  <2>3. /\ Fill(mem, r, v).ok <=> StoreTensorOk(mem, r, TRUE)
        /\ Fill(mem, r, v).mem = StoreTensor(mem, r, t)
    BY <2>2 DEF Fill, Outcome
  <2>4. StoreTensorOk(mem, r, TRUE) => ChangesWithin(mem, StoreTensor(mem, r, t), r)
    BY <1>0, NonEmptyRef, StoreTensorWithin
  <2> QED
    BY <2>1, <2>3, <2>4, WithinStep
<1>4. CASE CopyOp
  <2>1. PICK r \in Ref, s \in Ref : Do(Copy(mem, r, s))
    BY <1>4 DEF CopyOp
  <2>2. PICK t \in [Index -> Value] : t = LoadTensor(mem, r)
    BY <1>0, RefType, LoadTensorType
  <2>3. /\ Copy(mem, r, s).ok => StoreTensorOk(mem, s, TRUE)
        /\ Copy(mem, r, s).mem = StoreTensor(mem, s, t)
    BY <2>2 DEF Copy, Outcome
  <2>4. StoreTensorOk(mem, s, TRUE) => ChangesWithin(mem, StoreTensor(mem, s, t), s)
    BY <1>0, NonEmptyRef, StoreTensorWithin
  <2> QED
    BY <2>1, <2>3, <2>4, WithinStep
<1>5. CASE ToTensorOp
  <2>1. PICK r \in Ref : Do(ToTensor(mem, r))
    BY <1>5 DEF ToTensorOp
  <2>2. SameElements(mem, ToTensor(mem, r).mem)
    BY <1>0, RefType, ReadOnlySame DEF ToTensor, Outcome
  <2> QED
    BY <2>1, <2>2, SameStep
<1>6. CASE DeallocOp
  <2>1. PICK r \in Ref : Do(Dealloc(mem, r))
    BY <1>6 DEF DeallocOp
  <2>2. SameElements(mem, Dealloc(mem, r).mem)
    BY <1>0, RefType, DeallocSame
  <2> QED
    BY <2>1, <2>2, SameStep
<1>7. CASE AllocOp
  <2>1. PICK size \in Sizes, byAlloc \in BOOLEAN :
          HasRoom(mem) /\ Do(Alloc(mem, size, byAlloc))
    BY <1>7 DEF AllocOp
  <2>2. PICK blk \in Block : blk = LocalBlock(size, TRUE, byAlloc)
    BY RunOK, LocalBlockType
  <2>3. \A b \in DOMAIN mem : Append(mem, blk)[b] = mem[b]
    BY <1>0, <2>1, Add
  <2>4. SameElements(mem, Alloc(mem, size, byAlloc).mem)
    BY <2>2, <2>3 DEF Alloc, Outcome, SameElements
  <2> QED
    BY <2>1, <2>4, SameStep
<1>8. CASE ToMemrefOp
  <2>1. PICK size \in Sizes, v \in Value \ {Junk} :
          HasRoom(mem) /\ Do(ToMemref(mem, [i \in Index |-> v], size))
    BY <1>8 DEF ToMemrefOp
  <2>2. PICK t \in [Index -> Value] : t = [i \in Index |-> v]
    OBVIOUS
  <2>3. SameElements(mem, ToMemref(mem, t, size).mem)
    BY <1>0, <2>1, RunOK, ToMemrefAdds DEF SameElements
  <2>4. Do(ToMemref(mem, t, size))
    BY <2>1, <2>2
  <2> QED
    BY <2>3, <2>4, SameStep
<1>9. CASE CloneOp
  <2>1. PICK r \in Ref : HasRoom(mem) /\ Do(Clone(mem, r))
    BY <1>9 DEF CloneOp
  <2>2. SameElements(mem, Clone(mem, r).mem)
    BY <1>0, <2>1, RefType, CloneSame
  <2> QED
    BY <2>1, <2>2, SameStep
<1>10. CASE ReshapeOp
  <2>1. Do(Outcome(mem, TRUE))
    BY <1>10 DEF ReshapeOp
  <2>2. SameElements(mem, Outcome(mem, TRUE).mem)
    BY DEF Outcome, SameElements
  <2> QED
    BY <2>1, <2>2, SameStep
<1>11. CASE TooManyLocalBlocks
  BY <1>11 DEF TooManyLocalBlocks, ReferencedStep
<1> QED
  BY <1>1, <1>2, <1>3, <1>4, <1>5, <1>6, <1>7, <1>8, <1>9, <1>10, <1>11 DEF Next

\* If no reference is empty, a step without undefined behaviour changes
\* elements of references only ("If size = 0, it does not touch the block",
\* memory.cpp; storeArray and its wrapping last offset).
THEOREM ReferencedOnly == ASSUME NoEmptyRefs PROVE Spec => OnlyReferencedChanges
<1>1. Spec => [](TypeOK /\ KnownInv)
  <2>1. Init => KnownInv
    BY InitKnown
  <2>2. TypeOK /\ KnownInv /\ [Next]_vars => KnownInv'
    BY NextKnown
  <2> QED
    BY <2>1, <2>2, TypeCorrect, PTL DEF Spec
<1>2. OnlyReferencedChanges <=> [][ReferencedStep]_vars
  BY PTL DEF OnlyReferencedChanges, ReferencedStep
<1>3. TypeOK /\ KnownInv /\ [Next]_vars => [ReferencedStep]_vars
  BY NextReferenced
<1> QED
  BY <1>1, <1>2, <1>3, PTL DEF Spec

-----------------------------------------------------------------------------
\* memref.copy is memcpy, with references of any offset and size: where noalias
\* and the access checks let it pass, nothing overlaps.
THEOREM CopyCopies == Spec => CopyIsMemcpy
<1> DEFINE Step == \A r, s \in Ref :
                     /\ wd' /\ ops' = ops + 1
                     /\ mem' = Copy(mem, r, s).mem /\ Copy(mem, r, s).ok
                     => \A i \in Index : i < r.size =>
                          /\ mem'[s.bid].arr[At(s, i)] = mem[r.bid].arr[At(r, i)]
                          /\ mem'[r.bid].arr[At(r, i)] = mem[r.bid].arr[At(r, i)]
<1>1. TypeOK => Step
  BY RefType, CopyElements DEF TypeOK
<1>2. CopyIsMemcpy <=> [][Step]_vars
  BY PTL DEF CopyIsMemcpy
<1> QED
  BY <1>1, <1>2, TypeCorrect, PTL DEF Spec
=============================================================================
