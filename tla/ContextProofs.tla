---------------------------- MODULE ContextProofs ---------------------------
(***************************************************************************)
(* A function may be replaced by a verified one inside any program: what   *)
(* the program computes on the memory that either version left stays       *)
(* related, operation by operation.                                        *)
(*                                                                         *)
(* Memory::refines does not compare which elements are initialized, but    *)
(* the program may load them.  That the target initializes what the source *)
(* does follows from the solver's freedom to choose the contents of        *)
(* elements that are not: run on two contents, a target that leaves an     *)
(* element alone leaves two values, and the source has stored one.         *)
(***************************************************************************)
EXTENDS MemoryContext, SequenceTheorems, Numbers

-----------------------------------------------------------------------------
(***************************************************************************)
(* Indices and blocks, as MemoryRunProofs has them.                        *)
(***************************************************************************)

\* Sums and differences of indices wrap to indices.
LEMMA IndexArithmetic ==
  ASSUME NEW i \in Index, NEW j \in Index
  PROVE  Plus(i, j) \in Index /\ Minus(i, j) \in Index
BY MemoryOK, SMT DEF Plus, Minus, Index

\* A stored element changes one element of its block.
LEMMA StoreElemBlock ==
  ASSUME NEW blk \in Block, NEW i \in Index, NEW v \in Value
  PROVE  /\ StoreElem(blk, i, v) \in Block
         /\ StoreElem(blk, i, v).live = blk.live
         /\ StoreElem(blk, i, v).writable = blk.writable
         /\ StoreElem(blk, i, v).numelem = blk.numelem
         /\ StoreElem(blk, i, v).byAlloc = blk.byAlloc
         /\ \A j \in Index :
              /\ StoreElem(blk, i, v).arr[j] = IF j = i THEN v ELSE blk.arr[j]
              /\ StoreElem(blk, i, v).init[j] <=> j = i \/ blk.init[j]
BY DEF StoreElem, Block

\* The elements a stored array puts into a block.
StoredElems(blk, arr, off, size) ==
  IF off = 0 /\ size = blk.numelem THEN arr
  ELSE [i \in Index |-> IF i \in Covered(off, size)
                        THEN arr[Minus(i, off)] ELSE blk.arr[i]]

\* A stored array changes the elements of its block.
LEMMA StoreArrayBlock ==
  ASSUME NEW blk \in Block, NEW arr \in [Index -> Value],
         NEW off \in Index, NEW size \in Index
  PROVE  /\ StoreArray(blk, arr, off, size) \in Block
         /\ StoreArray(blk, arr, off, size).live = blk.live
         /\ StoreArray(blk, arr, off, size).writable = blk.writable
         /\ StoreArray(blk, arr, off, size).numelem = blk.numelem
         /\ StoreArray(blk, arr, off, size).byAlloc = blk.byAlloc
         /\ StoreArray(blk, arr, off, size).arr = StoredElems(blk, arr, off, size)
         /\ \A i \in Index : StoreArray(blk, arr, off, size).init[i]
                               <=> i \in Covered(off, size) \/ blk.init[i]
<1>1. \A i \in Index : Minus(i, off) \in Index
  BY IndexArithmetic
<1>2. StoredElems(blk, arr, off, size) \in [Index -> Value]
  BY <1>1 DEF StoredElems, Block
<1> DEFINE elems == StoredElems(blk, arr, off, size)
           inits == [i \in Index |-> i \in Covered(off, size) \/ blk.init[i]]
<1>3. StoreArray(blk, arr, off, size) = [blk EXCEPT !.arr = elems, !.init = inits]
  BY DEF StoreArray, StoredElems
<1>4. elems \in [Index -> Value] /\ inits \in [Index -> BOOLEAN]
  BY <1>2 DEF Block
<1> HIDE DEF elems, inits
<1> DEFINE new == [blk EXCEPT !.arr = elems, !.init = inits]
<1>5. /\ new \in Block
      /\ new.live = blk.live /\ new.writable = blk.writable
      /\ new.numelem = blk.numelem /\ new.byAlloc = blk.byAlloc
      /\ new.arr = elems /\ new.init = inits
  BY <1>4 DEF Block
<1>6. \A i \in Index : inits[i] <=> i \in Covered(off, size) \/ blk.init[i]
  BY DEF inits
<1> HIDE DEF new
<1>7. StoreArray(blk, arr, off, size) = new
  BY <1>3 DEF new
<1> QED
  BY <1>5, <1>6, <1>7 DEF elems

\* The same in one word.
StoredBlock(new, blk, arr, off, size) ==
  /\ new \in Block
  /\ new.live = blk.live /\ new.writable = blk.writable
  /\ new.numelem = blk.numelem /\ new.byAlloc = blk.byAlloc
  /\ new.arr = StoredElems(blk, arr, off, size)
  /\ \A i \in Index : new.init[i] <=> i \in Covered(off, size) \/ blk.init[i]

LEMMA StoreArrayIs ==
  ASSUME NEW blk \in Block, NEW arr \in [Index -> Value],
         NEW off \in Index, NEW size \in Index
  PROVE  StoredBlock(StoreArray(blk, arr, off, size), blk, arr, off, size)
BY StoreArrayBlock DEF StoredBlock

\* A fresh block is one.
LEMMA LocalBlockType ==
  ASSUME NEW size \in Index, NEW w \in BOOLEAN, NEW a \in BOOLEAN
  PROVE  LocalBlock(size, w, a) \in Block
BY MemoryOK DEF LocalBlock, Block

\* The last offset of a range that does not wrap.
LEMMA LastOffset ==
  ASSUME NEW off \in Index, NEW size \in Index, size # 0, off + (size - 1) < Modulus
  PROVE  Minus(Plus(off, size), 1) = off + (size - 1)
<1>1. Modulus \in Nat \ {0} /\ off \in Nat /\ size \in Nat
  BY MemoryOK DEF Index
<1>2. CASE off + size < Modulus
  <2>1. (off + size) % Modulus = off + size
    BY <1>1, <1>2
  <2>2. (off + size - 1) % Modulus = off + size - 1
    BY <1>1, <1>2
  <2> QED
    BY <1>1, <2>1, <2>2 DEF Plus, Minus
<1>3. CASE off + size = Modulus
  <2>1. (off + size) % Modulus = 0
    BY <1>1, <1>3
  <2>2. (0 - 1) % Modulus = Modulus - 1
    BY <1>1
  <2> QED
    BY <1>1, <1>3, <2>1, <2>2 DEF Plus, Minus
<1> QED
  BY <1>1, <1>2, <1>3

\* An offset that a stored range covers is one of its elements.
LEMMA CoveredElement ==
  ASSUME NEW off \in Index, NEW size \in Index, size # 0, off + (size - 1) < Modulus,
         NEW i \in Index
  PROVE  /\ i \in Covered(off, size) <=> off <= i /\ i <= off + (size - 1)
         /\ i \in Covered(off, size) => Minus(i, off) \in Index /\ Minus(i, off) < size
<1>1. Modulus \in Nat \ {0} /\ off \in Nat /\ size \in Nat /\ i \in Nat /\ i < Modulus
  BY MemoryOK DEF Index
<1>2. i \in Covered(off, size) <=> off <= i /\ i <= off + (size - 1)
  BY LastOffset DEF Covered
<1>3. ASSUME off <= i, i <= off + (size - 1) PROVE Minus(i, off) < size
  <2>1. (i - off) % Modulus = i - off
    BY <1>1, <1>3
  <2> QED
    BY <1>1, <1>3, <2>1 DEF Minus
<1>4. Minus(i, off) \in Index
  BY IndexArithmetic
<1> QED
  BY <1>2, <1>3, <1>4

\* An element of a range that lies within a block does.
LEMMA ElementOfRange ==
  ASSUME NEW off \in Index, NEW size \in Index, NEW k \in Index, k < size,
         off + (size - 1) < Modulus
  PROVE  Plus(k, off) \in Index /\ Plus(k, off) <= off + (size - 1)
<1>1. Modulus \in Nat \ {0} /\ off \in Nat /\ size \in Nat /\ k \in Nat
  BY MemoryOK DEF Index
<1>2. (k + off) % Modulus = k + off
  BY <1>1
<1> QED
  BY <1>1, <1>2, IndexArithmetic DEF Plus

-----------------------------------------------------------------------------
(***************************************************************************)
(* Blocks: what runs that started alike have in common.                    *)
(***************************************************************************)

\* Block t will do wherever s does.  all: for those, too, who look at elements
\* that are not initialized.
BlockLeq(t, s, all) ==
  /\ t.numelem = s.numelem /\ t.byAlloc = s.byAlloc
  /\ s.live =>
       /\ t.live
       /\ s.writable => t.writable
       /\ \A i \in Index : i < s.numelem =>
            /\ s.init[i] => t.init[i]
            /\ all \/ s.init[i] => t.arr[i] = s.arr[i]

\* What a block keeps: its size, and the elements nothing is stored to.
BlockKeeps(old, new) ==
  /\ new.numelem = old.numelem /\ new.byAlloc = old.byAlloc
  /\ \A i \in Index : i < old.numelem /\ ~new.init[i] =>
       ~old.init[i] /\ new.arr[i] = old.arr[i]

LEMMA LeqItself ==
  ASSUME NEW s \in Block, NEW all \in BOOLEAN
  PROVE  BlockLeq(s, s, all)
BY DEF BlockLeq

\* Storing one element.
LEMMA StoreElemLeq ==
  ASSUME NEW s \in Block, NEW t \in Block, NEW all \in BOOLEAN, BlockLeq(t, s, all),
         NEW i \in Index, NEW v \in Value
  PROVE  /\ BlockLeq(StoreElem(t, i, v), StoreElem(s, i, v), all)
         /\ BlockKeeps(s, StoreElem(s, i, v))
<1> DEFINE ns == StoreElem(s, i, v)
           nt == StoreElem(t, i, v)
<1>1. /\ ns.live = s.live /\ ns.writable = s.writable
      /\ ns.numelem = s.numelem /\ ns.byAlloc = s.byAlloc
      /\ \A j \in Index : /\ ns.arr[j] = IF j = i THEN v ELSE s.arr[j]
                          /\ ns.init[j] <=> j = i \/ s.init[j]
  BY StoreElemBlock
<1>2. /\ nt.live = t.live /\ nt.writable = t.writable
      /\ nt.numelem = t.numelem /\ nt.byAlloc = t.byAlloc
      /\ \A j \in Index : /\ nt.arr[j] = IF j = i THEN v ELSE t.arr[j]
                          /\ nt.init[j] <=> j = i \/ t.init[j]
  BY StoreElemBlock
<1> HIDE DEF ns, nt
<1>3. BlockLeq(nt, ns, all)
  BY <1>1, <1>2 DEF BlockLeq
<1>4. BlockKeeps(s, ns)
  BY <1>1 DEF BlockKeeps
<1> QED
  BY <1>3, <1>4 DEF ns, nt

\* Tensors with the same first elements.
SameUpTo(et, es, size) == \A k \in Index : k < size => et[k] = es[k]

\* Storing a range of elements that are equal as far as the range goes.
LEMMA StoreArrayLeq ==
  ASSUME NEW s \in Block, NEW t \in Block, NEW all \in BOOLEAN, BlockLeq(t, s, all),
         NEW off \in Index, NEW size \in Index, size # 0, RangeInBounds(s, off, size),
         NEW es \in [Index -> Value], NEW et \in [Index -> Value],
         SameUpTo(et, es, size)
  PROVE  BlockLeq(StoreArray(t, et, off, size), StoreArray(s, es, off, size), all)
<1> DEFINE ns == StoreArray(s, es, off, size)
           nt == StoreArray(t, et, off, size)
<1>1. StoredBlock(ns, s, es, off, size)
  BY StoreArrayIs
<1>2. StoredBlock(nt, t, et, off, size)
  BY StoreArrayIs
<1> HIDE DEF ns, nt
<1>3. t.numelem = s.numelem /\ Index \subseteq Nat /\ off + (size - 1) < Modulus
  BY MemoryOK DEF BlockLeq, RangeInBounds, Index
<1>4. ASSUME NEW i \in Index, i < s.numelem,
             i \in Covered(off, size) \/ t.arr[i] = s.arr[i]
      PROVE  nt.arr[i] = ns.arr[i]
  <2>1. CASE off = 0 /\ size = s.numelem
    <3>1. nt.arr = et /\ ns.arr = es /\ i < size
      BY <1>1, <1>2, <1>3, <1>4, <2>1 DEF StoredBlock, StoredElems
    <3> QED
      BY <3>1 DEF SameUpTo
  <2>2. CASE ~(off = 0 /\ size = s.numelem) /\ i \in Covered(off, size)
    <3>1. Minus(i, off) \in Index /\ Minus(i, off) < size
      BY <1>3, <2>2, CoveredElement
    <3>2. nt.arr[i] = et[Minus(i, off)] /\ ns.arr[i] = es[Minus(i, off)]
      BY <1>1, <1>2, <1>3, <2>2 DEF StoredBlock, StoredElems
    <3> QED
      BY <3>1, <3>2 DEF SameUpTo
  <2>3. CASE ~(off = 0 /\ size = s.numelem) /\ i \notin Covered(off, size)
    BY <1>1, <1>2, <1>3, <1>4, <2>3 DEF StoredBlock, StoredElems
  <2> QED
    BY <2>1, <2>2, <2>3
<1>5. BlockLeq(nt, ns, all)
  BY <1>1, <1>2, <1>4 DEF StoredBlock, BlockLeq
<1> QED
  BY <1>5 DEF ns, nt

\* Elements outside the range stay, even if the array replaces the contents.
LEMMA StoreArrayKeeps ==
  ASSUME NEW s \in Block, NEW off \in Index, NEW size \in Index, size # 0,
         NEW es \in [Index -> Value]
  PROVE  BlockKeeps(s, StoreArray(s, es, off, size))
<1> DEFINE ns == StoreArray(s, es, off, size)
<1>1. StoredBlock(ns, s, es, off, size)
  BY StoreArrayIs
<1> HIDE DEF ns
<1>2. ASSUME NEW i \in Index, i < s.numelem, i \notin Covered(off, size)
      PROVE  ns.arr[i] = s.arr[i]
  <2>1. CASE off = 0 /\ size = s.numelem
    <3>1. Modulus \in Nat /\ i \in Nat /\ size \in Nat /\ size < Modulus
      BY MemoryOK DEF Index
    <3>2. i \in Covered(off, size) <=> off <= i /\ i <= off + (size - 1)
      BY <2>1, <3>1, CoveredElement
    <3> QED
      BY <1>2, <2>1, <3>1, <3>2
  <2>2. CASE ~(off = 0 /\ size = s.numelem)
    BY <1>1, <1>2, <2>2 DEF StoredBlock, StoredElems
  <2> QED
    BY <2>1, <2>2
<1>3. BlockKeeps(s, ns)
  BY <1>1, <1>2 DEF StoredBlock, BlockKeeps
<1> QED
  BY <1>3 DEF ns

\* Blocks made alike.
LEMMA LocalBlockLeq ==
  ASSUME NEW size, NEW w, NEW a, NEW all \in BOOLEAN
  PROVE  BlockLeq(LocalBlock(size, w, a), LocalBlock(size, w, a), all)
BY DEF BlockLeq

\* A block that nobody may write to any more.
Sealed(blk) == [blk EXCEPT !.writable = FALSE]

LEMMA SealedLeq ==
  ASSUME NEW s \in Block, NEW t \in Block, NEW all \in BOOLEAN, BlockLeq(t, s, all)
  PROVE  /\ Sealed(s) \in Block /\ Sealed(t) \in Block
         /\ BlockLeq(Sealed(t), Sealed(s), all)
         /\ BlockKeeps(s, Sealed(s))
<1>1. \A b \in Block : /\ Sealed(b) \in Block /\ ~Sealed(b).writable
                       /\ Sealed(b).live = b.live /\ Sealed(b).numelem = b.numelem
                       /\ Sealed(b).byAlloc = b.byAlloc
                       /\ Sealed(b).arr = b.arr /\ Sealed(b).init = b.init
  BY DEF Sealed, Block
<1>2. BlockLeq(Sealed(t), Sealed(s), all)
  BY <1>1 DEF BlockLeq
<1>3. BlockKeeps(s, Sealed(s))
  BY <1>1 DEF BlockKeeps
<1> QED
  BY <1>1, <1>2, <1>3

\* A block that is gone.
Dead(blk) == [blk EXCEPT !.live = FALSE]

LEMMA DeadLeq ==
  ASSUME NEW s \in Block, NEW t \in Block, NEW all \in BOOLEAN, BlockLeq(t, s, all)
  PROVE  /\ Dead(s) \in Block /\ Dead(t) \in Block
         /\ BlockLeq(Dead(t), Dead(s), all)
         /\ BlockKeeps(s, Dead(s))
<1>1. \A b \in Block : /\ Dead(b) \in Block /\ ~Dead(b).live
                       /\ Dead(b).numelem = b.numelem /\ Dead(b).byAlloc = b.byAlloc
                       /\ Dead(b).arr = b.arr /\ Dead(b).init = b.init
  BY DEF Dead, Block
<1>2. BlockLeq(Dead(t), Dead(s), all)
  BY <1>1 DEF BlockLeq
<1>3. BlockKeeps(s, Dead(s))
  BY <1>1 DEF BlockKeeps
<1> QED
  BY <1>1, <1>2, <1>3

-----------------------------------------------------------------------------
(***************************************************************************)
(* Memories, block by block.  A program may create any number of blocks.   *)
(***************************************************************************)
Blocks(m) == m \in Seq(Block) /\ Len(m) \in Nat /\ DOMAIN m = 1..Len(m)

MemLeq(t, s, all) ==
  Len(t) = Len(s) /\ \A b \in DOMAIN s : BlockLeq(t[b], s[b], all)

MemKeeps(m, n) == Len(m) <= Len(n) /\ \A b \in DOMAIN m : BlockKeeps(m[b], n[b])

\* What an operation does to a memory: n is what it leaves.
Follows(m, n) == Blocks(n) /\ MemKeeps(m, n)

LEMMA BlockIn ==
  ASSUME NEW m, Blocks(m), NEW b \in DOMAIN m
  PROVE  m[b] \in Block
BY DEF Blocks

LEMMA BlockOfBoth ==
  ASSUME NEW t, Blocks(t), NEW s, Blocks(s), NEW all, MemLeq(t, s, all), NEW b \in DOMAIN s
  PROVE  b \in DOMAIN t /\ t[b] \in Block /\ s[b] \in Block /\ BlockLeq(t[b], s[b], all)
BY BlockIn DEF Blocks, MemLeq

LEMMA KeepsItself ==
  ASSUME NEW m, Blocks(m)
  PROVE  Follows(m, m)
BY DEF Follows, MemKeeps, BlockKeeps, Blocks

LEMMA KeepsLonger ==
  ASSUME NEW l, Blocks(l), NEW m, Follows(l, m), NEW n, Follows(m, n)
  PROVE  Follows(l, n)
<1>1. /\ Len(l) \in Nat /\ Len(m) \in Nat /\ Len(n) \in Nat
      /\ Len(l) <= Len(m) /\ Len(m) <= Len(n)
      /\ DOMAIN l = 1..Len(l) /\ DOMAIN m = 1..Len(m)
  BY DEF Follows, MemKeeps, Blocks
<1>2. ASSUME NEW b \in DOMAIN l PROVE BlockKeeps(l[b], n[b])
  <2>1. b \in DOMAIN m
    BY <1>1
  <2>2. BlockKeeps(l[b], m[b]) /\ BlockKeeps(m[b], n[b])
    BY <2>1 DEF Follows, MemKeeps
  <2> QED
    BY <2>2 DEF BlockKeeps
<1> QED
  BY <1>1, <1>2 DEF Follows, MemKeeps

\* Replacing a block.
Changed(n, m, b, blk) ==
  /\ Blocks(n) /\ Len(n) = Len(m) /\ DOMAIN n = DOMAIN m /\ n[b] = blk
  /\ \A c \in DOMAIN m : c # b => n[c] = m[c]

LEMMA ChangeBlock ==
  ASSUME NEW m, Blocks(m), NEW b \in DOMAIN m, NEW blk \in Block
  PROVE  Changed([m EXCEPT ![b] = blk], m, b, blk)
<1>1. [m EXCEPT ![b] = blk] \in Seq(Block) /\ Len([m EXCEPT ![b] = blk]) = Len(m)
  BY ExceptSeq DEF Blocks
<1> QED
  BY <1>1 DEF Changed, Blocks

LEMMA ChangeKeeps ==
  ASSUME NEW m, Blocks(m), NEW b \in DOMAIN m, NEW blk \in Block, BlockKeeps(m[b], blk)
  PROVE  Follows(m, [m EXCEPT ![b] = blk])
<1> DEFINE n == [m EXCEPT ![b] = blk]
<1>1. Changed(n, m, b, blk)
  BY ChangeBlock
<1> HIDE DEF n
<1>2. \A c \in DOMAIN m : BlockKeeps(m[c], n[c])
  BY <1>1 DEF Changed, BlockKeeps
<1>3. Follows(m, n)
  BY <1>1, <1>2 DEF Changed, Follows, MemKeeps, Blocks
<1> QED
  BY <1>3 DEF n

LEMMA ChangeLeq ==
  ASSUME NEW t, Blocks(t), NEW s, Blocks(s), NEW all, MemLeq(t, s, all),
         NEW b \in DOMAIN s, NEW bt \in Block, NEW bs \in Block, BlockLeq(bt, bs, all)
  PROVE  MemLeq([t EXCEPT ![b] = bt], [s EXCEPT ![b] = bs], all)
<1> DEFINE nt == [t EXCEPT ![b] = bt]
           ns == [s EXCEPT ![b] = bs]
<1>1. b \in DOMAIN t /\ DOMAIN t = DOMAIN s /\ Len(t) = Len(s)
  BY DEF MemLeq, Blocks
<1>2. Changed(ns, s, b, bs)
  BY ChangeBlock
<1>3. Changed(nt, t, b, bt)
  BY <1>1, ChangeBlock
<1> HIDE DEF nt, ns
<1>4. \A c \in DOMAIN s : BlockLeq(nt[c], ns[c], all)
  BY <1>1, <1>2, <1>3 DEF Changed, MemLeq
<1>5. MemLeq(nt, ns, all)
  BY <1>1, <1>2, <1>3, <1>4 DEF Changed, MemLeq
<1> QED
  BY <1>5 DEF nt, ns

\* Adding one.
Added(n, m, blk) ==
  /\ Blocks(n) /\ Len(n) = Len(m) + 1 /\ n[Len(m) + 1] = blk
  /\ \A c \in DOMAIN m : n[c] = m[c]

LEMMA AddBlock ==
  ASSUME NEW m, Blocks(m), NEW blk \in Block
  PROVE  Added(Append(m, blk), m, blk)
<1>1. /\ Append(m, blk) \in Seq(Block) /\ Len(Append(m, blk)) = Len(m) + 1
      /\ \A i \in 1..Len(m) : Append(m, blk)[i] = m[i]
      /\ Append(m, blk)[Len(m) + 1] = blk
  BY AppendProperties DEF Blocks
<1>2. DOMAIN Append(m, blk) = 1..Len(Append(m, blk)) /\ Len(Append(m, blk)) \in Nat
  BY <1>1, LenProperties
<1> QED
  BY <1>1, <1>2 DEF Added, Blocks

LEMMA AddKeeps ==
  ASSUME NEW m, Blocks(m), NEW blk \in Block
  PROVE  Follows(m, Append(m, blk))
<1> DEFINE n == Append(m, blk)
<1>1. Added(n, m, blk)
  BY AddBlock
<1> HIDE DEF n
<1>2. Len(m) \in Nat /\ Len(n) = Len(m) + 1 /\ Blocks(n)
  BY <1>1 DEF Added, Blocks
<1>3. \A c \in DOMAIN m : BlockKeeps(m[c], n[c])
  BY <1>1 DEF Added, BlockKeeps
<1>4. Follows(m, n)
  BY <1>2, <1>3 DEF Follows, MemKeeps
<1> QED
  BY <1>4 DEF n

LEMMA AddLeq ==
  ASSUME NEW t, Blocks(t), NEW s, Blocks(s), NEW all, MemLeq(t, s, all),
         NEW bt \in Block, NEW bs \in Block, BlockLeq(bt, bs, all)
  PROVE  MemLeq(Append(t, bt), Append(s, bs), all)
<1> DEFINE nt == Append(t, bt)
           ns == Append(s, bs)
<1>1. Added(nt, t, bt) /\ Added(ns, s, bs)
  BY AddBlock
<1> HIDE DEF nt, ns
<1>2. /\ Len(t) = Len(s) /\ Len(s) \in Nat /\ DOMAIN s = 1..Len(s) /\ DOMAIN t = DOMAIN s
      /\ \A c \in DOMAIN s : BlockLeq(t[c], s[c], all)
  BY DEF MemLeq, Blocks
<1>3. Len(nt) = Len(ns) /\ DOMAIN ns = 1..(Len(s) + 1)
  BY <1>1, <1>2 DEF Added, Blocks
<1>4. ASSUME NEW c \in DOMAIN ns PROVE BlockLeq(nt[c], ns[c], all)
  <2>1. CASE c \in DOMAIN s
    BY <1>1, <1>2, <2>1 DEF Added
  <2>2. CASE c = Len(s) + 1
    BY <1>1, <1>2, <2>2 DEF Added
  <2> QED
    BY <1>2, <1>3, <2>1, <2>2
<1>5. MemLeq(nt, ns, all)
  BY <1>3, <1>4 DEF MemLeq
<1> QED
  BY <1>5 DEF nt, ns

-----------------------------------------------------------------------------
(***************************************************************************)
(* Operations.  What one does is a memory that follows the old one, and if *)
(* it is defined in memory s, it is defined in t and does the same.        *)
(***************************************************************************)
RefTo(m) == [bid : 1..Len(m), offset : Index, size : Index \ {0}, view : BOOLEAN]

Pair(t, s, all) == Blocks(t) /\ Blocks(s) /\ all \in BOOLEAN /\ MemLeq(t, s, all)

Alike(ot, os, all) == os.ok => ot.ok /\ MemLeq(ot.mem, os.mem, all)

LEMMA PairItself ==
  ASSUME NEW m, Blocks(m)
  PROVE  Pair(m, m, TRUE)
<1>1. \A b \in DOMAIN m : BlockLeq(m[b], m[b], TRUE)
  BY BlockIn, LeqItself
<1> QED
  BY <1>1 DEF Pair, MemLeq

LEMMA RefParts ==
  ASSUME NEW m, Blocks(m), NEW r \in RefTo(m)
  PROVE  /\ r.bid \in DOMAIN m /\ m[r.bid] \in Block
         /\ r.offset \in Index /\ r.size \in Index /\ r.size # 0
BY BlockIn DEF RefTo, Blocks

\* The elements of a reference are the same in both.
LEMMA ReadsAlike ==
  ASSUME NEW t, NEW s, NEW all, Pair(t, s, all), NEW r \in RefTo(s), NEW i \in Index,
         LoadOk(s, r, i)
  PROVE  LoadOk(t, r, i) /\ Loaded(t, r, i) = Loaded(s, r, i)
<1>1. PICK j \in Index : j = At(r, i)
  BY RefParts, IndexArithmetic DEF At, Pair
<1>2. PICK b \in DOMAIN s : b = r.bid
  BY RefParts DEF Pair
<1>3. BlockLeq(t[b], s[b], all)
  BY DEF Pair, MemLeq
<1>4. i < r.size /\ j < s[b].numelem /\ s[b].live /\ s[b].init[j]
  BY <1>1, <1>2 DEF LoadOk, ElemInBounds, ElemInitialized
<1>5. j < t[b].numelem /\ t[b].live /\ t[b].init[j] /\ t[b].arr[j] = s[b].arr[j]
  BY <1>3, <1>4 DEF BlockLeq
<1> QED
  BY <1>1, <1>2, <1>4, <1>5 DEF LoadOk, Loaded, ElemInBounds, ElemInitialized

\* So are the tensors loaded from them.
LEMMA TensorsAlike ==
  ASSUME NEW t, NEW s, NEW all, Pair(t, s, all), NEW r \in RefTo(s), LoadTensorOk(s, r)
  PROVE  LoadTensorOk(t, r) /\ SameUpTo(LoadTensor(t, r), LoadTensor(s, r), r.size)
<1>1. PICK b \in DOMAIN s : b = r.bid
  BY RefParts DEF Pair
<1>2. PICK off \in Index, size \in Index : off = r.offset /\ size = r.size /\ size # 0
  BY RefParts DEF Pair
<1>3. BlockLeq(t[b], s[b], all) /\ s[b] \in Block /\ Index \subseteq Nat
  BY BlockIn, MemoryOK DEF Pair, MemLeq, Index
<1>4. /\ off + (size - 1) < Modulus /\ off + (size - 1) < s[b].numelem
      /\ s[b].live /\ \A k \in Index : k < size => s[b].init[Plus(k, off)]
  BY <1>1, <1>2, <1>3 DEF LoadTensorOk, RangeInBounds, RangeInitialized
<1>5. ASSUME NEW k \in Index, k < size
      PROVE  /\ Plus(k, off) \in Index
             /\ t[b].init[Plus(k, off)] /\ t[b].arr[Plus(k, off)] = s[b].arr[Plus(k, off)]
  <2>1. Plus(k, off) \in Index /\ Plus(k, off) <= off + (size - 1)
    BY <1>4, <1>5, ElementOfRange
  <2>2. Plus(k, off) < s[b].numelem
    <3>1. s[b].numelem \in Nat /\ off \in Nat /\ size \in Nat /\ Plus(k, off) \in Nat
      BY <1>3, <2>1 DEF Block
    <3> QED
      BY <1>4, <2>1, <3>1
  <2> QED
    BY <1>3, <1>4, <1>5, <2>1, <2>2 DEF BlockLeq
<1>6. RangeInBounds(t[b], off, size) /\ t[b].live /\ RangeInitialized(t[b], off, size)
  BY <1>3, <1>4, <1>5 DEF BlockLeq, RangeInBounds, RangeInitialized
<1>7. SameUpTo(LoadTensor(t, r), LoadTensor(s, r), size)
  BY <1>1, <1>2, <1>5 DEF LoadTensor, LoadArray, SameUpTo
<1> QED
  BY <1>1, <1>2, <1>6, <1>7 DEF LoadTensorOk

\* A tensor has values for elements.
LEMMA TensorType ==
  ASSUME NEW m, Blocks(m), NEW r \in RefTo(m)
  PROVE  LoadTensor(m, r) \in [Index -> Value]
<1>1. m[r.bid].arr \in [Index -> Value] /\ r.offset \in Index
  BY RefParts DEF Block
<1> QED
  BY <1>1, IndexArithmetic DEF LoadTensor, LoadArray

\* memref.load.
LEMMA LoadAlike ==
  ASSUME NEW t, NEW s, NEW all, Pair(t, s, all), NEW r \in RefTo(s), NEW i \in Index
  PROVE  Alike(Load(t, r, i), Load(s, r, i), all) /\ Follows(s, Load(s, r, i).mem)
BY ReadsAlike, KeepsItself DEF Alike, Load, Outcome, Pair

\* memref.store.
LEMMA StoreAlike ==
  ASSUME NEW t, NEW s, NEW all, Pair(t, s, all), NEW r \in RefTo(s),
         NEW i \in Index, NEW v \in Value
  PROVE  Alike(Store(t, r, i, v), Store(s, r, i, v), all) /\ Follows(s, Store(s, r, i, v).mem)
<1>1. PICK j \in Index : j = At(r, i)
  BY RefParts, IndexArithmetic DEF At, Pair
<1>2. PICK b \in DOMAIN s : b = r.bid
  BY RefParts DEF Pair
<1>3. b \in DOMAIN t /\ t[b] \in Block /\ s[b] \in Block /\ BlockLeq(t[b], s[b], all)
  BY BlockOfBoth DEF Pair
<1> DEFINE bs == StoreElem(s[b], j, v)
           bt == StoreElem(t[b], j, v)
<1>4. BlockLeq(bt, bs, all) /\ BlockKeeps(s[b], bs) /\ all \in BOOLEAN
  BY <1>3, StoreElemLeq DEF Pair
<1>5. bs \in Block /\ bt \in Block
  BY <1>3, StoreElemBlock
<1>6. /\ Store(s, r, i, v).mem = [s EXCEPT ![b] = bs]
      /\ Store(t, r, i, v).mem = [t EXCEPT ![b] = bt]
      /\ Store(s, r, i, v).ok <=>
           i < r.size /\ j < s[b].numelem /\ s[b].live /\ s[b].writable
      /\ Store(t, r, i, v).ok <=>
           i < r.size /\ j < t[b].numelem /\ t[b].live /\ t[b].writable
  BY <1>1, <1>2 DEF Store, Outcome, ElemInBounds
<1> HIDE DEF bs, bt
<1>7. MemLeq([t EXCEPT ![b] = bt], [s EXCEPT ![b] = bs], all)
  BY <1>4, <1>5, ChangeLeq DEF Pair
<1>8. Follows(s, [s EXCEPT ![b] = bs])
  BY <1>4, <1>5, ChangeKeeps DEF Pair
<1>9. Store(s, r, i, v).ok => Store(t, r, i, v).ok
  BY <1>3, <1>6 DEF BlockLeq
<1> QED
  BY <1>6, <1>7, <1>8, <1>9 DEF Alike

\* Storing a tensor.
LEMMA StoreTensorFollows ==
  ASSUME NEW m, Blocks(m), NEW r \in RefTo(m), NEW e \in [Index -> Value]
  PROVE  Follows(m, StoreTensor(m, r, e))
<1>1. PICK b \in DOMAIN m : b = r.bid /\ m[b] \in Block
  BY RefParts
<1>2. PICK off \in Index, size \in Index : off = r.offset /\ size = r.size /\ size # 0
  BY RefParts
<1> DEFINE blk == StoreArray(m[b], e, off, size)
<1>3. StoredBlock(blk, m[b], e, off, size)
  BY <1>1, StoreArrayIs
<1>4. BlockKeeps(m[b], blk)
  BY <1>1, <1>2, StoreArrayKeeps
<1>5. StoreTensor(m, r, e) = [m EXCEPT ![b] = blk]
  BY <1>1, <1>2 DEF StoreTensor
<1> HIDE DEF blk
<1>6. blk \in Block
  BY <1>3 DEF StoredBlock
<1>7. Follows(m, [m EXCEPT ![b] = blk])
  BY <1>4, <1>6, ChangeKeeps
<1> QED
  BY <1>5, <1>7

LEMMA StoreTensorAlike ==
  ASSUME NEW t, NEW s, NEW all, Pair(t, s, all), NEW r \in RefTo(s),
         NEW es \in [Index -> Value], NEW et \in [Index -> Value],
         SameUpTo(et, es, r.size), NEW strict, StoreTensorOk(s, r, strict)
  PROVE  /\ StoreTensorOk(t, r, strict)
         /\ MemLeq(StoreTensor(t, r, et), StoreTensor(s, r, es), all)
<1>1. PICK b \in DOMAIN s : b = r.bid
  BY RefParts DEF Pair
<1>2. PICK off \in Index, size \in Index : off = r.offset /\ size = r.size /\ size # 0
  BY RefParts DEF Pair
<1>3. b \in DOMAIN t /\ t[b] \in Block /\ s[b] \in Block /\ BlockLeq(t[b], s[b], all)
  BY BlockOfBoth DEF Pair
<1>4. RangeInBounds(s[b], off, size) /\ s[b].live /\ (strict => s[b].writable)
  BY <1>1, <1>2 DEF StoreTensorOk
<1>5. RangeInBounds(t[b], off, size) /\ t[b].live /\ (strict => t[b].writable)
  BY <1>3, <1>4 DEF BlockLeq, RangeInBounds
<1>6. StoreTensorOk(t, r, strict)
  BY <1>1, <1>2, <1>5 DEF StoreTensorOk
<1> DEFINE bs == StoreArray(s[b], es, off, size)
           bt == StoreArray(t[b], et, off, size)
<1>7. BlockLeq(bt, bs, all)
  <2>1. SameUpTo(et, es, size) /\ all \in BOOLEAN
    BY <1>2 DEF Pair
  <2> QED
    BY <1>2, <1>3, <1>4, <2>1, StoreArrayLeq
<1>8. StoredBlock(bs, s[b], es, off, size) /\ StoredBlock(bt, t[b], et, off, size)
  BY <1>3, StoreArrayIs
<1>9. /\ StoreTensor(s, r, es) = [s EXCEPT ![b] = bs]
      /\ StoreTensor(t, r, et) = [t EXCEPT ![b] = bt]
  BY <1>1, <1>2 DEF StoreTensor
<1> HIDE DEF bs, bt
<1>10. bs \in Block /\ bt \in Block
  BY <1>8 DEF StoredBlock
<1>11. MemLeq([t EXCEPT ![b] = bt], [s EXCEPT ![b] = bs], all)
  BY <1>7, <1>10, ChangeLeq DEF Pair
<1> QED
  BY <1>6, <1>9, <1>11

\* linalg.fill.
LEMMA FillAlike ==
  ASSUME NEW t, NEW s, NEW all, Pair(t, s, all), NEW r \in RefTo(s), NEW v \in Value
  PROVE  Alike(Fill(t, r, v), Fill(s, r, v), all) /\ Follows(s, Fill(s, r, v).mem)
<1> DEFINE e == [i \in Index |-> v]
<1>1. e \in [Index -> Value] /\ SameUpTo(e, e, r.size)
  BY DEF SameUpTo
<1>2. /\ Fill(s, r, v).mem = StoreTensor(s, r, e) /\ Fill(s, r, v).ok = StoreTensorOk(s, r, TRUE)
      /\ Fill(t, r, v).mem = StoreTensor(t, r, e) /\ Fill(t, r, v).ok = StoreTensorOk(t, r, TRUE)
  BY DEF Fill, Outcome
<1> HIDE DEF e
<1>3. StoreTensorOk(s, r, TRUE) =>
        StoreTensorOk(t, r, TRUE) /\ MemLeq(StoreTensor(t, r, e), StoreTensor(s, r, e), all)
  BY <1>1, StoreTensorAlike
<1>4. Follows(s, StoreTensor(s, r, e))
  BY <1>1, StoreTensorFollows DEF Pair
<1> QED
  BY <1>2, <1>3, <1>4 DEF Alike

\* memref.copy.
LEMMA CopyAlike ==
  ASSUME NEW t, NEW s, NEW all, Pair(t, s, all), NEW r \in RefTo(s), NEW q \in RefTo(s)
  PROVE  Alike(Copy(t, r, q), Copy(s, r, q), all) /\ Follows(s, Copy(s, r, q).mem)
<1> DEFINE es == LoadTensor(s, r)
           et == LoadTensor(t, r)
<1>1. r \in RefTo(t)
  BY DEF RefTo, Pair, MemLeq
<1>2. es \in [Index -> Value] /\ et \in [Index -> Value]
  BY <1>1, TensorType DEF Pair
<1>3. /\ Copy(s, r, q).mem = StoreTensor(s, q, es)
      /\ Copy(t, r, q).mem = StoreTensor(t, q, et)
      /\ Copy(s, r, q).ok <=> /\ r.size = q.size /\ NoAlias(r, q)
                              /\ LoadTensorOk(s, r) /\ StoreTensorOk(s, q, TRUE)
      /\ Copy(t, r, q).ok <=> /\ r.size = q.size /\ NoAlias(r, q)
                              /\ LoadTensorOk(t, r) /\ StoreTensorOk(t, q, TRUE)
  BY DEF Copy, Outcome
<1>4. LoadTensorOk(s, r) => LoadTensorOk(t, r) /\ SameUpTo(et, es, r.size)
  BY TensorsAlike
<1> HIDE DEF es, et
<1>5. r.size = q.size /\ LoadTensorOk(s, r) /\ StoreTensorOk(s, q, TRUE) =>
        StoreTensorOk(t, q, TRUE) /\ MemLeq(StoreTensor(t, q, et), StoreTensor(s, q, es), all)
  BY <1>2, <1>4, StoreTensorAlike
<1>6. Follows(s, StoreTensor(s, q, es))
  BY <1>2, StoreTensorFollows DEF Pair
<1> QED
  BY <1>3, <1>4, <1>5, <1>6 DEF Alike

\* A block that becomes read-only.
LEMMA SealAlike ==
  ASSUME NEW t, NEW s, NEW all, Pair(t, s, all), NEW b \in DOMAIN s
  PROVE  /\ MemLeq(SetWritable(t, b, FALSE), SetWritable(s, b, FALSE), all)
         /\ Follows(s, SetWritable(s, b, FALSE))
<1>1. b \in DOMAIN t /\ t[b] \in Block /\ s[b] \in Block /\ BlockLeq(t[b], s[b], all)
  BY BlockOfBoth DEF Pair
<1> DEFINE bs == Sealed(s[b])
           bt == Sealed(t[b])
<1>2. bs \in Block /\ bt \in Block /\ BlockLeq(bt, bs, all) /\ BlockKeeps(s[b], bs)
  BY <1>1, SealedLeq DEF Pair
<1>3. /\ SetWritable(s, b, FALSE) = [s EXCEPT ![b] = bs]
      /\ SetWritable(t, b, FALSE) = [t EXCEPT ![b] = bt]
  BY DEF SetWritable, Sealed
<1> HIDE DEF bs, bt
<1>4. MemLeq([t EXCEPT ![b] = bt], [s EXCEPT ![b] = bs], all)
  BY <1>2, ChangeLeq DEF Pair
<1>5. Follows(s, [s EXCEPT ![b] = bs])
  BY <1>2, ChangeKeeps DEF Pair
<1> QED
  BY <1>3, <1>4, <1>5

\* bufferization.to_tensor.
LEMMA ToTensorAlike ==
  ASSUME NEW t, NEW s, NEW all, Pair(t, s, all), NEW r \in RefTo(s)
  PROVE  Alike(ToTensor(t, r), ToTensor(s, r), all) /\ Follows(s, ToTensor(s, r).mem)
<1>1. PICK b \in DOMAIN s : b = r.bid
  BY RefParts DEF Pair
<1>2. /\ ToTensor(s, r).mem = SetWritable(s, b, FALSE) /\ ToTensor(s, r).ok = LoadTensorOk(s, r)
      /\ ToTensor(t, r).mem = SetWritable(t, b, FALSE) /\ ToTensor(t, r).ok = LoadTensorOk(t, r)
  BY <1>1 DEF ToTensor, Outcome
<1> QED
  BY <1>2, SealAlike, TensorsAlike DEF Alike

\* memref.dealloc.
LEMMA DeallocAlike ==
  ASSUME NEW t, NEW s, NEW all, Pair(t, s, all), NEW r \in RefTo(s)
  PROVE  Alike(Dealloc(t, r), Dealloc(s, r), all) /\ Follows(s, Dealloc(s, r).mem)
<1>1. PICK b \in DOMAIN s : b = r.bid
  BY RefParts DEF Pair
<1>2. b \in DOMAIN t /\ t[b] \in Block /\ s[b] \in Block /\ BlockLeq(t[b], s[b], all)
  BY BlockOfBoth DEF Pair
<1> DEFINE bs == Dead(s[b])
           bt == Dead(t[b])
<1>3. bs \in Block /\ bt \in Block /\ BlockLeq(bt, bs, all) /\ BlockKeeps(s[b], bs)
  BY <1>2, DeadLeq DEF Pair
<1>4. /\ Dealloc(s, r).mem = [s EXCEPT ![b] = bs]
      /\ Dealloc(t, r).mem = [t EXCEPT ![b] = bt]
      /\ Dealloc(s, r).ok <=> s[b].live /\ ~r.view /\ s[b].byAlloc
      /\ Dealloc(t, r).ok <=> t[b].live /\ ~r.view /\ t[b].byAlloc
  BY <1>1 DEF Dealloc, Outcome, Dead
<1> HIDE DEF bs, bt
<1>5. MemLeq([t EXCEPT ![b] = bt], [s EXCEPT ![b] = bs], all)
  BY <1>3, ChangeLeq DEF Pair
<1>6. Follows(s, [s EXCEPT ![b] = bs])
  BY <1>3, ChangeKeeps DEF Pair
<1>7. Dealloc(s, r).ok => Dealloc(t, r).ok
  BY <1>2, <1>4 DEF BlockLeq
<1> QED
  BY <1>4, <1>5, <1>6, <1>7 DEF Alike

\* memref.alloc.
LEMMA AllocAlike ==
  ASSUME NEW t, NEW s, NEW all, Pair(t, s, all), NEW size \in Index, NEW byAlloc \in BOOLEAN
  PROVE  /\ Alike(Alloc(t, size, byAlloc), Alloc(s, size, byAlloc), all)
         /\ Follows(s, Alloc(s, size, byAlloc).mem)
         /\ Len(Alloc(s, size, byAlloc).mem) >= Len(s) + 1
<1>1. PICK blk \in Block : blk = LocalBlock(size, TRUE, byAlloc)
  BY LocalBlockType
<1>2. BlockLeq(blk, blk, all)
  BY LeqItself DEF Pair
<1>3. MemLeq(Append(t, blk), Append(s, blk), all)
  BY <1>2, AddLeq DEF Pair
<1>4. Follows(s, Append(s, blk)) /\ Len(Append(s, blk)) >= Len(s) + 1
  <2>1. PICK k, n : k = Len(s) /\ k \in Nat /\ n = Append(s, blk)
    BY DEF Pair, Blocks
  <2>2. Follows(s, n) /\ Len(n) = k + 1
    BY <2>1, AddKeeps, AddBlock DEF Pair, Added
  <2>3. Len(n) >= k + 1
    BY <2>2
  <2> QED
    BY <2>1, <2>2, <2>3
<1>5. /\ Alloc(s, size, byAlloc).mem = Append(s, blk) /\ Alloc(s, size, byAlloc).ok
      /\ Alloc(t, size, byAlloc).mem = Append(t, blk) /\ Alloc(t, size, byAlloc).ok
  BY <1>1 DEF Alloc, Outcome
<1> QED
  BY <1>3, <1>4, <1>5 DEF Alike

\* bufferization.clone: the new block has room for what is stored to it.
LEMMA NewBlockTakes ==
  ASSUME NEW m, Blocks(m), NEW size \in Index, size # 0,
         NEW n, n = Append(m, LocalBlock(size, FALSE, FALSE)),
         NEW r, r = NewRef(m, size)
  PROVE  Follows(m, n) /\ Len(n) = Len(m) + 1 /\ r \in RefTo(n) /\ StoreTensorOk(n, r, FALSE)
<1>1. PICK blk \in Block : blk = LocalBlock(size, FALSE, FALSE)
  BY LocalBlockType
<1>2. blk.live /\ blk.numelem = size
  BY <1>1 DEF LocalBlock
<1>3. Follows(m, n) /\ Added(n, m, blk)
  BY <1>1, AddBlock, AddKeeps
<1>4. Len(m) \in Nat /\ Len(n) = Len(m) + 1 /\ n[Len(m) + 1] = blk
  BY <1>3 DEF Added, Blocks
<1>5. 0 \in Index /\ Modulus \in Nat /\ size \in Nat /\ size < Modulus
  BY MemoryOK DEF Index
<1>6. r \in RefTo(n) /\ r.bid = Len(m) + 1 /\ r.offset = 0 /\ r.size = size
  BY <1>4, <1>5 DEF NewRef, RefTo
<1>7. RangeInBounds(blk, 0, size)
  <2>1. 0 + (size - 1) < Modulus /\ 0 + (size - 1) < size
    BY <1>5
  <2> QED
    BY <1>2, <2>1 DEF RangeInBounds
<1>8. StoreTensorOk(n, r, FALSE)
  BY <1>2, <1>4, <1>6, <1>7 DEF StoreTensorOk
<1> QED
  BY <1>3, <1>4, <1>6, <1>8

LEMMA CloneAlike ==
  ASSUME NEW t, NEW s, NEW all, Pair(t, s, all), NEW r \in RefTo(s)
  PROVE  /\ Alike(Clone(t, r), Clone(s, r), all)
         /\ Follows(s, Clone(s, r).mem)
         /\ Len(Clone(s, r).mem) >= Len(s) + 1
<1>1. PICK b \in DOMAIN s, size \in Index : b = r.bid /\ size = r.size /\ size # 0
  BY RefParts DEF Pair
<1>2. PICK es \in [Index -> Value], et \in [Index -> Value] :
        es = LoadTensor(s, r) /\ et = LoadTensor(t, r)
  <2>1. r \in RefTo(t)
    BY DEF RefTo, Pair, MemLeq
  <2> QED
    BY <2>1, TensorType DEF Pair
<1>3. PICK ns, nt : /\ ns = Append(s, LocalBlock(size, FALSE, FALSE))
                    /\ nt = Append(t, LocalBlock(size, FALSE, FALSE))
  OBVIOUS
<1>4. PICK q : q = NewRef(s, size)
  OBVIOUS
<1>5. q = NewRef(t, size)
  BY <1>4 DEF NewRef, Pair, MemLeq
<1>6. /\ Follows(s, ns) /\ Len(ns) = Len(s) + 1 /\ q \in RefTo(ns)
      /\ StoreTensorOk(ns, q, FALSE)
  BY <1>1, <1>3, <1>4, NewBlockTakes DEF Pair
<1>7. Follows(t, nt) /\ q \in RefTo(nt) /\ StoreTensorOk(nt, q, FALSE)
  BY <1>1, <1>3, <1>5, NewBlockTakes DEF Pair
<1>8. MemLeq(nt, ns, all)
  <2>1. PICK blk \in Block : blk = LocalBlock(size, FALSE, FALSE)
    BY LocalBlockType
  <2>2. BlockLeq(blk, blk, all)
    BY LeqItself DEF Pair
  <2> QED
    BY <1>3, <2>1, <2>2, AddLeq DEF Pair
<1>9. PICK ss, st : ss = StoreTensor(ns, q, es) /\ st = StoreTensor(nt, q, et)
  OBVIOUS
<1>10. Blocks(ns) /\ Blocks(nt) /\ Follows(ns, ss) /\ Follows(nt, st)
  BY <1>6, <1>7, <1>9, StoreTensorFollows DEF Follows
<1>11. ASSUME LoadTensorOk(s, r) PROVE LoadTensorOk(t, r) /\ MemLeq(st, ss, all)
  <2>1. LoadTensorOk(t, r) /\ SameUpTo(et, es, size)
    BY <1>1, <1>2, <1>11, TensorsAlike
  <2>2. q.size = size /\ Pair(nt, ns, all)
    BY <1>4, <1>8, <1>10 DEF NewRef, Pair
  <2> QED
    BY <1>6, <1>9, <2>1, <2>2, StoreTensorAlike
<1>12. b \in DOMAIN ss
  BY <1>1, <1>6, <1>10 DEF Follows, MemKeeps, Blocks, Pair
<1>13. Follows(ss, SetWritable(ss, b, FALSE))
  <2>1. Pair(ss, ss, TRUE)
    BY <1>10, PairItself DEF Follows
  <2> QED
    BY <1>12, <2>1, SealAlike
<1>14. /\ Clone(s, r).mem = SetWritable(ss, b, FALSE)
       /\ Clone(s, r).ok <=> LoadTensorOk(s, r)
       /\ Clone(t, r).mem = SetWritable(st, b, FALSE)
       /\ Clone(t, r).ok <=> LoadTensorOk(t, r)
  <2>1. /\ ToMemref(s, es, size).mem = ss /\ ToMemref(s, es, size).ok
        /\ ToMemref(t, et, size).mem = st /\ ToMemref(t, et, size).ok
    BY <1>3, <1>4, <1>5, <1>6, <1>7, <1>9 DEF ToMemref, Outcome
  <2> QED
    BY <1>1, <1>2, <2>1 DEF Clone, Outcome
<1>15. LoadTensorOk(s, r) => MemLeq(SetWritable(st, b, FALSE), SetWritable(ss, b, FALSE), all)
  BY <1>10, <1>11, <1>12, SealAlike DEF Pair, Follows
<1>16. Follows(ns, SetWritable(ss, b, FALSE))
  BY <1>10, <1>13, KeepsLonger DEF Follows
<1>17. Follows(s, SetWritable(ss, b, FALSE))
  BY <1>6, <1>16, KeepsLonger DEF Pair
<1>18. Len(SetWritable(ss, b, FALSE)) >= Len(s) + 1
  BY <1>6, <1>16 DEF Follows, MemKeeps
<1> QED
  BY <1>11, <1>14, <1>15, <1>17, <1>18 DEF Alike

-----------------------------------------------------------------------------
(***************************************************************************)
(* Steps.                                                                  *)
(***************************************************************************)

LEMMA LongerSeq ==
  ASSUME NEW S, NEW T, S \subseteq T, NEW q \in Seq(S)
  PROVE  q \in Seq(T)
BY SeqDef

LEMMA RefToLonger ==
  ASSUME NEW m, NEW n, Blocks(m), Follows(m, n), NEW q \in Seq(RefTo(m))
  PROVE  q \in Seq(RefTo(n))
<1>1. 1..Len(m) \subseteq 1..Len(n)
  BY DEF Follows, MemKeeps, Blocks
<1>2. RefTo(m) \subseteq RefTo(n)
  BY <1>1 DEF RefTo
<1> QED
  BY <1>2, LongerSeq

\* Any command, on references of its registers.
LEMMA CommandAlike ==
  ASSUME NEW t, NEW s, NEW all, Pair(t, s, all), NEW regs \in Seq(RefTo(s)),
         NEW c \in Command, c.r \in DOMAIN regs, c.s \in DOMAIN regs, NotEmpty(c)
  PROVE  /\ Alike(Outcomes(t, regs, c), Outcomes(s, regs, c), all)
         /\ Follows(s, Outcomes(s, regs, c).mem)
         /\ c.op \in {"alloc", "clone"} => Len(Outcomes(s, regs, c).mem) >= Len(s) + 1
<1>1. PICK r \in RefTo(s), q \in RefTo(s) : r = regs[c.r] /\ q = regs[c.s]
  BY ElementOfSeq
<1>2. PICK i \in Index, v \in Value : i = c.i /\ v = c.v
  BY DEF Command
<1>3. CASE c.op = "load"
  <2>1. Outcomes(s, regs, c) = Load(s, r, i) /\ Outcomes(t, regs, c) = Load(t, r, i)
    BY <1>1, <1>2, <1>3 DEF Outcomes
  <2> QED
    BY <1>3, <2>1, LoadAlike
<1>4. CASE c.op = "store"
  <2>1. Outcomes(s, regs, c) = Store(s, r, i, v) /\ Outcomes(t, regs, c) = Store(t, r, i, v)
    BY <1>1, <1>2, <1>4 DEF Outcomes
  <2> QED
    BY <1>4, <2>1, StoreAlike
<1>5. CASE c.op = "fill"
  <2>1. Outcomes(s, regs, c) = Fill(s, r, v) /\ Outcomes(t, regs, c) = Fill(t, r, v)
    BY <1>1, <1>2, <1>5 DEF Outcomes
  <2> QED
    BY <1>5, <2>1, FillAlike
<1>6. CASE c.op = "copy"
  <2>1. Outcomes(s, regs, c) = Copy(s, r, q) /\ Outcomes(t, regs, c) = Copy(t, r, q)
    BY <1>1, <1>6 DEF Outcomes
  <2> QED
    BY <1>6, <2>1, CopyAlike
<1>7. CASE c.op = "to_tensor"
  <2>1. Outcomes(s, regs, c) = ToTensor(s, r) /\ Outcomes(t, regs, c) = ToTensor(t, r)
    BY <1>1, <1>7 DEF Outcomes
  <2> QED
    BY <1>7, <2>1, ToTensorAlike
<1>8. CASE c.op = "dealloc"
  <2>1. Outcomes(s, regs, c) = Dealloc(s, r) /\ Outcomes(t, regs, c) = Dealloc(t, r)
    BY <1>1, <1>8 DEF Outcomes
  <2> QED
    BY <1>8, <2>1, DeallocAlike
<1>9. CASE c.op = "alloc"
  <2>1. /\ Outcomes(s, regs, c) = Alloc(s, i, TRUE)
        /\ Outcomes(t, regs, c) = Alloc(t, i, TRUE)
    BY <1>2, <1>9 DEF Outcomes
  <2> QED
    BY <2>1, AllocAlike
<1>10. CASE c.op = "clone"
  <2>1. Outcomes(s, regs, c) = Clone(s, r) /\ Outcomes(t, regs, c) = Clone(t, r)
    BY <1>1, <1>10 DEF Outcomes
  <2> QED
    BY <2>1, CloneAlike
<1> QED
  BY <1>3, <1>4, <1>5, <1>6, <1>7, <1>8, <1>9, <1>10 DEF Command, CommandKinds

\* Both see the same.
LEMMA SeenAlike ==
  ASSUME NEW t, NEW s, NEW all, Pair(t, s, all), NEW regs \in Seq(RefTo(s)),
         NEW c \in Command, c.r \in DOMAIN regs, Outcomes(s, regs, c).ok
  PROVE  Seen(t, regs, c) = Seen(s, regs, c)
<1>1. CASE c.op = "load"
  <2>1. PICK r \in RefTo(s), i \in Index : r = regs[c.r] /\ i = c.i
    BY ElementOfSeq DEF Command
  <2>2. LoadOk(s, r, i)
    BY <1>1, <2>1 DEF Outcomes, Load, Outcome
  <2>3. Loaded(t, r, i) = Loaded(s, r, i)
    BY <2>2, ReadsAlike
  <2> QED
    BY <1>1, <2>1, <2>3 DEF Seen
<1>2. CASE c.op # "load"
  BY <1>2 DEF Seen
<1> QED
  BY <1>1, <1>2

\* A command leaves references to what is there.
LEMMA RegistersStay ==
  ASSUME NEW m, Blocks(m), NEW n, Follows(m, n), NEW regs \in Seq(RefTo(m)),
         NEW c \in Command, c.r \in DOMAIN regs, NotEmpty(c),
         c.op \in {"alloc", "clone"} => Len(n) >= Len(m) + 1
  PROVE  NewRegs(m, regs, c) \in Seq(RefTo(n))
<1>1. regs \in Seq(RefTo(n))
  BY RefToLonger
<1>2. ASSUME NEW size \in Index, size # 0, Len(n) >= Len(m) + 1
      PROVE  Append(regs, NewRef(m, size)) \in Seq(RefTo(n))
  <2>1. 0 \in Index /\ Len(m) \in Nat /\ Len(n) \in Nat
    BY MemoryOK DEF Index, Follows, Blocks
  <2>2. NewRef(m, size) \in RefTo(n)
    BY <1>2, <2>1 DEF NewRef, RefTo
  <2> QED
    BY <1>1, <2>2, AppendProperties
<1>3. CASE c.op = "alloc"
  <2>1. c.i \in Index /\ c.i # 0
    BY <1>3 DEF Command, NotEmpty
  <2> QED
    BY <1>2, <1>3, <2>1 DEF NewRegs
<1>4. CASE c.op = "clone"
  <2>1. regs[c.r] \in RefTo(m)
    BY ElementOfSeq
  <2>2. regs[c.r].size \in Index /\ regs[c.r].size # 0
    BY <2>1, RefParts
  <2> QED
    BY <1>2, <1>4, <2>2 DEF NewRegs
<1>5. CASE c.op \notin {"alloc", "clone"}
  BY <1>1, <1>5 DEF NewRegs
<1> QED
  BY <1>3, <1>4, <1>5

IsState(st) == Blocks(st.mem) /\ st.regs \in Seq(RefTo(st.mem))

LEMMA StepState ==
  ASSUME NEW st, IsState(st), NEW c \in Command, Names(st, c), NotEmpty(c)
  PROVE  IsState(Step(st, c)) /\ Follows(st.mem, Step(st, c).mem)
<1>1. PICK m, regs : m = st.mem /\ regs = st.regs
  OBVIOUS
<1>2. Blocks(m) /\ regs \in Seq(RefTo(m)) /\ c.r \in DOMAIN regs /\ c.s \in DOMAIN regs
  BY <1>1 DEF IsState, Names
<1>3. PICK n : n = Outcomes(m, regs, c).mem
  OBVIOUS
<1>4. Follows(m, n) /\ (c.op \in {"alloc", "clone"} => Len(n) >= Len(m) + 1)
  BY <1>2, <1>3, PairItself, CommandAlike
<1>5. NewRegs(m, regs, c) \in Seq(RefTo(n))
  BY <1>2, <1>4, RegistersStay
<1>6. Step(st, c).mem = n /\ Step(st, c).regs = NewRegs(m, regs, c)
  BY <1>1, <1>3 DEF Step
<1> QED
  BY <1>1, <1>4, <1>5, <1>6 DEF IsState, Follows

\* A run that is defined in s is defined in t, and comes as far.
StateLeq(t, s, all) ==
  s.wd => /\ t.wd /\ t.seen = s.seen /\ t.regs = s.regs
          /\ MemLeq(t.mem, s.mem, all)

LEMMA StepLeq ==
  ASSUME NEW t, IsState(t), NEW s, IsState(s), NEW all \in BOOLEAN, StateLeq(t, s, all),
         NEW c \in Command, Names(s, c), NotEmpty(c)
  PROVE  StateLeq(Step(t, c), Step(s, c), all)
<1> SUFFICES ASSUME Step(s, c).wd PROVE StateLeq(Step(t, c), Step(s, c), all)
  BY DEF StateLeq
<1>1. PICK m, n, regs : m = s.mem /\ n = t.mem /\ regs = s.regs
  OBVIOUS
<1>2. /\ s.wd /\ Outcomes(m, regs, c).ok
      /\ t.wd /\ t.seen = s.seen /\ t.regs = regs /\ MemLeq(n, m, all)
  BY <1>1 DEF Step, StateLeq
<1>3. /\ Pair(n, m, all) /\ regs \in Seq(RefTo(m))
      /\ c.r \in DOMAIN regs /\ c.s \in DOMAIN regs
  BY <1>1, <1>2 DEF Pair, IsState, Names
<1>4. Outcomes(n, regs, c).ok /\ MemLeq(Outcomes(n, regs, c).mem, Outcomes(m, regs, c).mem, all)
  BY <1>2, <1>3, CommandAlike DEF Alike
<1>5. Seen(n, regs, c) = Seen(m, regs, c)
  BY <1>2, <1>3, SeenAlike
<1>6. NewRegs(n, regs, c) = NewRegs(m, regs, c)
  BY <1>2 DEF NewRegs, NewRef, MemLeq
<1> QED
  BY <1>1, <1>2, <1>4, <1>5, <1>6 DEF Step, StateLeq

-----------------------------------------------------------------------------
(***************************************************************************)
(* Runs of a function, by induction over the operations.                   *)
(***************************************************************************)

\* The first n steps of a body.
Trace(st, body, n, mem, args) ==
  st = [k \in 0..n |-> IF k = 0 THEN Start(mem, args) ELSE Step(st[k - 1], body[k])]

LEMMA TraceExists ==
  ASSUME NEW body, NEW mem, NEW args, NEW len \in Nat
  PROVE  \E st : Trace(st, body, len, mem, args)
<1> DEFINE S == {n \in Nat : \E st : Trace(st, body, n, mem, args)}
<1>1. 0 \in S
  <2> DEFINE st == [k \in 0..0 |-> Start(mem, args)]
  <2>1. Trace(st, body, 0, mem, args)
    BY DEF Trace
  <2> QED
    BY <2>1
<1>2. ASSUME NEW n \in S PROVE n + 1 \in S
  <2>1. PICK st : Trace(st, body, n, mem, args)
    BY <1>2
  <2> DEFINE new == [k \in 0..(n + 1) |-> IF k = n + 1 THEN Step(st[n], body[k]) ELSE st[k]]
  <2>2. ASSUME NEW k \in 0..(n + 1)
        PROVE  new[k] = IF k = 0 THEN Start(mem, args) ELSE Step(new[k - 1], body[k])
    <3>1. CASE k = 0
      BY <2>1, <3>1 DEF Trace
    <3>2. CASE k # 0 /\ k # n + 1
      <4>1. k \in 0..n /\ k - 1 \in 0..n /\ k - 1 # n + 1 /\ k - 1 \in 0..(n + 1)
        BY <3>2
      <4>2. new[k] = st[k] /\ new[k - 1] = st[k - 1]
        BY <3>2, <4>1
      <4>3. st[k] = Step(st[k - 1], body[k])
        BY <2>1, <3>2, <4>1 DEF Trace
      <4> QED
        BY <3>2, <4>2, <4>3
    <3>3. CASE k = n + 1
      <4>1. k - 1 = n /\ n \in 0..(n + 1) /\ n # n + 1 /\ k # 0
        BY <3>3
      <4>2. new[k - 1] = st[n] /\ new[k] = Step(st[n], body[k])
        BY <3>3, <4>1
      <4> QED
        BY <4>1, <4>2
    <3> QED
      BY <3>1, <3>2, <3>3
  <2>3. new = [k \in 0..(n + 1) |-> new[k]]
    OBVIOUS
  <2> HIDE DEF new
  <2>4. Trace(new, body, n + 1, mem, args)
    BY <2>2, <2>3 DEF Trace
  <2> QED
    BY <2>4
<1> HIDE DEF S
<1>3. S = Nat
  <2>1. S \subseteq Nat
    BY DEF S
  <2> QED
    BY <1>1, <1>2, <2>1, Induction
<1> QED
  BY <1>3 DEF S

LEMMA StatesAreSteps ==
  ASSUME NEW fn, Len(fn.body) \in Nat, NEW mem, NEW args
  PROVE  /\ States(fn, mem, args)[0] = Start(mem, args)
         /\ \A k \in 1..Len(fn.body) :
              States(fn, mem, args)[k] = Step(States(fn, mem, args)[k - 1], fn.body[k])
<1> DEFINE st == States(fn, mem, args)
<1>1. st = CHOOSE g : Trace(g, fn.body, Len(fn.body), mem, args)
  BY DEF States, Trace
<1> HIDE DEF st
<1>2. Trace(st, fn.body, Len(fn.body), mem, args)
  BY <1>1, TraceExists
<1>3. \A k \in 0..Len(fn.body) :
        st[k] = IF k = 0 THEN Start(mem, args) ELSE Step(st[k - 1], fn.body[k])
  BY <1>2 DEF Trace
<1>4. st[0] = Start(mem, args) /\ \A k \in 1..Len(fn.body) : st[k] = Step(st[k - 1], fn.body[k])
  BY <1>3
<1> QED
  BY <1>4 DEF st

LEMMA MemoriesAreBlocks ==
  ASSUME NEW m \in Memories
  PROVE  Blocks(m) /\ Len(m) = NumGlobals /\ DOMAIN m = Globals
<1>1. m \in Seq(Block) /\ Len(m) = NumGlobals
  BY ContextOK DEF IsMemory
<1> QED
  BY <1>1, LenProperties DEF Blocks, Globals

LEMMA BodyParts ==
  ASSUME NEW fn \in Functions
  PROVE  /\ Len(fn.body) \in Nat /\ DOMAIN fn.body = 1..Len(fn.body)
         /\ \A k \in DOMAIN fn.body : fn.body[k] \in Command
<1>1. fn.body \in Seq(Command)
  BY ContextOK
<1> QED
  BY <1>1, LenProperties, ElementOfSeq

LEMMA StartState ==
  ASSUME NothingEmpty, NEW mem \in Memories, NEW args \in Args
  PROVE  IsState(Start(mem, args)) /\ Follows(mem, Start(mem, args).mem)
<1>1. Blocks(mem) /\ Len(mem) = NumGlobals
  BY MemoriesAreBlocks
<1>2. args \in Seq(MemRef) /\ Len(args) \in Nat /\ DOMAIN args = 1..Len(args)
  BY ContextOK, LenProperties
<1>3. ASSUME NEW j \in DOMAIN args PROVE args[j] \in RefTo(mem)
  <2>1. args[j] \in MemRef /\ args[j].bid \in 1..Len(mem) /\ args[j].size # 0
    BY <1>1, <1>2, <1>3, ContextOK, ElementOfSeq DEF NothingEmpty, Globals
  <2> QED
    BY <2>1 DEF MemRef, RefTo
<1>4. args \in Seq(RefTo(mem))
  BY <1>2, <1>3, SeqDef
<1> QED
  BY <1>1, <1>4, KeepsItself DEF Start, IsState

\* A run goes from state to state.
LEMMA RunState ==
  ASSUME NothingEmpty, NEW fn \in Functions, NEW mem \in Memories, NEW args \in Args,
         NEW k \in 0..Len(fn.body)
  PROVE  IsState(States(fn, mem, args)[k]) /\ Follows(mem, States(fn, mem, args)[k].mem)
<1>1. PICK st : st = States(fn, mem, args)
  OBVIOUS
<1>2. PICK len \in Nat : len = Len(fn.body) /\ DOMAIN fn.body = 1..len
  BY BodyParts
<1> DEFINE S == {n \in Nat : n <= len => IsState(st[n]) /\ Follows(mem, st[n].mem)}
<1>3. 0 \in S
  <2>1. st[0] = Start(mem, args)
    BY <1>1, <1>2, StatesAreSteps
  <2> QED
    BY <2>1, StartState
<1>4. ASSUME NEW n \in S PROVE n + 1 \in S
  <2> SUFFICES ASSUME n + 1 <= len
               PROVE  IsState(st[n + 1]) /\ Follows(mem, st[n + 1].mem)
    BY <1>4
  <2>1. n \in Nat /\ n + 1 \in 1..len /\ IsState(st[n]) /\ Follows(mem, st[n].mem)
    BY <1>4
  <2>2. PICK c : c = fn.body[n + 1]
    OBVIOUS
  <2>3. c \in Command /\ NotEmpty(c)
    BY <1>2, <2>1, <2>2, BodyParts DEF NothingEmpty
  <2>4. (n + 1) - 1 = n
    BY <2>1
  <2>5. Names(st[n], c)
    BY <1>1, <1>2, <2>1, <2>2, <2>4, FunctionsOK
  <2>6. st[n + 1] = Step(st[n], c)
    BY <1>1, <1>2, <2>1, <2>2, <2>4, StatesAreSteps
  <2>7. IsState(st[n + 1]) /\ Follows(st[n].mem, st[n + 1].mem)
    BY <2>1, <2>3, <2>5, <2>6, StepState
  <2>8. Follows(mem, st[n + 1].mem)
    BY <2>1, <2>7, MemoriesAreBlocks, KeepsLonger
  <2> QED
    BY <2>7, <2>8
<1> HIDE DEF S
<1>5. S = Nat
  <2>1. S \subseteq Nat
    BY DEF S
  <2> QED
    BY <1>3, <1>4, <2>1, Induction
<1>6. k \in Nat /\ k <= len
  BY <1>2
<1> QED
  BY <1>1, <1>5, <1>6 DEF S

\* Runs from memories that are alike are.
LEMMA RunLeq ==
  ASSUME NothingEmpty, NEW fn \in Functions, NEW m \in Memories, NEW n \in Memories,
         NEW args \in Args, NEW all \in BOOLEAN, MemLeq(n, m, all)
  PROVE  StateLeq(Run(fn, n, args), Run(fn, m, args), all)
<1>1. PICK st, su : st = States(fn, n, args) /\ su = States(fn, m, args)
  OBVIOUS
<1>2. PICK len \in Nat : len = Len(fn.body) /\ DOMAIN fn.body = 1..len
  BY BodyParts
<1> DEFINE S == {k \in Nat : k <= len => StateLeq(st[k], su[k], all)}
<1>3. 0 \in S
  <2>1. st[0] = Start(n, args) /\ su[0] = Start(m, args)
    BY <1>1, <1>2, StatesAreSteps
  <2> QED
    BY <2>1 DEF Start, StateLeq
<1>4. ASSUME NEW k \in S PROVE k + 1 \in S
  <2> SUFFICES ASSUME k + 1 <= len PROVE StateLeq(st[k + 1], su[k + 1], all)
    BY <1>4
  <2>1. k \in Nat /\ k \in 0..len /\ k + 1 \in 1..len /\ (k + 1) - 1 = k
    BY <1>4
  <2>2. PICK c : c = fn.body[k + 1]
    OBVIOUS
  <2>3. c \in Command /\ NotEmpty(c)
    BY <1>2, <2>1, <2>2, BodyParts DEF NothingEmpty
  <2>4. Names(su[k], c)
    BY <1>1, <1>2, <2>1, <2>2, FunctionsOK
  <2>5. st[k + 1] = Step(st[k], c) /\ su[k + 1] = Step(su[k], c)
    BY <1>1, <1>2, <2>1, <2>2, StatesAreSteps
  <2>6. IsState(st[k]) /\ IsState(su[k])
    BY <1>1, <1>2, <2>1, RunState
  <2>7. StateLeq(st[k], su[k], all)
    BY <1>4, <2>1
  <2> QED
    BY <2>3, <2>4, <2>5, <2>6, <2>7, StepLeq
<1> HIDE DEF S
<1>5. S = Nat
  <2>1. S \subseteq Nat
    BY DEF S
  <2> QED
    BY <1>3, <1>4, <2>1, Induction
<1>6. StateLeq(st[len], su[len], all)
  BY <1>5 DEF S
<1> QED
  BY <1>1, <1>2, <1>6 DEF Run

-----------------------------------------------------------------------------
(***************************************************************************)
(* What a verified pair leaves.                                            *)
(***************************************************************************)

\* The ends of a run are a memory that follows the one it began with.
LEMMA EndState ==
  ASSUME NothingEmpty, NEW fn \in Functions, NEW mem \in Memories, NEW args \in Args
  PROVE  /\ Ends[fn][<<mem, args>>] = Run(fn, mem, args)
         /\ IsState(Run(fn, mem, args)) /\ Follows(mem, Run(fn, mem, args).mem)
<1>1. Len(fn.body) \in 0..Len(fn.body)
  BY BodyParts
<1>2. <<mem, args>> \in Input /\ <<mem, args>>[1] = mem /\ <<mem, args>>[2] = args
  BY DEF Input
<1>3. Ends[fn][<<mem, args>>] = Run(fn, mem, args)
  BY <1>2 DEF Ends
<1> QED
  BY <1>1, <1>3, RunState DEF Run

\* A global block at the end of a run.
LEMMA EndBlock ==
  ASSUME NothingEmpty, NEW fn \in Functions, NEW mem \in Memories, NEW args \in Args,
         NEW b \in Globals
  PROVE  /\ b \in DOMAIN Run(fn, mem, args).mem
         /\ BlockKeeps(mem[b], Run(fn, mem, args).mem[b])
<1>1. PICK n : n = Run(fn, mem, args).mem
  OBVIOUS
<1>2. Blocks(mem) /\ DOMAIN mem = Globals /\ Len(mem) = NumGlobals /\ Follows(mem, n)
  BY <1>1, MemoriesAreBlocks, EndState
<1>3. b \in DOMAIN mem /\ b \in DOMAIN n
  BY <1>2, MemoryOK DEF Follows, MemKeeps, Blocks, Globals
<1> QED
  BY <1>1, <1>2, <1>3, BlockIn DEF Follows, MemKeeps

\* Memories that differ in one element which is not initialized.
Refilled(m, b, i, v) == [m EXCEPT ![b].arr[i] = v]

LEMMA OtherContents ==
  ASSUME NEW m \in Memories, NEW b \in Globals, NEW i \in Index, ~m[b].init[i],
         NEW v \in Value
  PROVE  /\ MemLeq(Refilled(m, b, i, v), m, FALSE) /\ MemLeq(m, Refilled(m, b, i, v), FALSE)
         /\ Refilled(m, b, i, v)[b].arr[i] = v
<1>0. PICK n : n = Refilled(m, b, i, v)
  OBVIOUS
<1>1. Blocks(m) /\ b \in DOMAIN m
  BY MemoriesAreBlocks
<1>2. PICK old \in Block : old = m[b]
  BY <1>1, BlockIn
<1>3. PICK new : new = [old EXCEPT !.arr[i] = v]
  OBVIOUS
<1>4. /\ new \in Block /\ new.init = old.init /\ new.live = old.live
      /\ new.writable = old.writable /\ new.numelem = old.numelem
      /\ new.byAlloc = old.byAlloc /\ new.arr[i] = v
      /\ \A j \in Index : j # i => new.arr[j] = old.arr[j]
  BY <1>3 DEF Block
<1>5. BlockLeq(new, old, FALSE) /\ BlockLeq(old, new, FALSE)
  BY <1>2, <1>4 DEF BlockLeq
<1>6. n = [m EXCEPT ![b] = new]
  BY <1>0, <1>2, <1>3 DEF Refilled
<1>7. Changed(n, m, b, new)
  <2>1. Changed([m EXCEPT ![b] = new], m, b, new)
    BY <1>1, <1>4, ChangeBlock
  <2> QED
    BY <1>6, <2>1
<1>8. \A c \in DOMAIN m : BlockLeq(m[c], m[c], FALSE)
  BY <1>1, BlockIn, LeqItself
<1> QED
  BY <1>0, <1>1, <1>2, <1>4, <1>5, <1>7, <1>8 DEF Changed, MemLeq

\* The target initializes what the source does.
LEMMA TargetInitializes ==
  ASSUME NothingEmpty, NEW f \in Functions, NEW g \in Functions, Verified(f, g),
         NEW m \in Memories, NEW args \in Args, Run(f, m, args).wd,
         NEW b \in Globals, NEW i \in Index,
         Run(f, m, args).mem[b].live, i < Run(f, m, args).mem[b].numelem,
         Run(f, m, args).mem[b].init[i]
  PROVE  Run(g, m, args).mem[b].init[i]
<1> SUFFICES ASSUME ~Run(g, m, args).mem[b].init[i] PROVE FALSE
  OBVIOUS
<1>1. PICK s, t : s = Run(f, m, args) /\ t = Run(g, m, args)
  OBVIOUS
<1>2. BlockKeeps(m[b], s.mem[b]) /\ BlockKeeps(m[b], t.mem[b])
  BY <1>1, EndBlock
<1>3. /\ i < m[b].numelem /\ ~m[b].init[i]
      /\ t.mem[b].arr[i] = m[b].arr[i]
  BY <1>1, <1>2 DEF BlockKeeps
<1>4. PICK v \in Value, n \in Memories :
        v # m[b].arr[i] /\ n = Refilled(m, b, i, v)
  BY <1>3, ContentsOK DEF ElemInBounds, ElemInitialized, Refilled
<1>5. MemLeq(n, m, FALSE) /\ MemLeq(m, n, FALSE) /\ n[b].arr[i] = v
  BY <1>3, <1>4, OtherContents
<1>6. PICK so, to : so = Run(f, n, args) /\ to = Run(g, n, args)
  OBVIOUS
<1>7. StateLeq(so, s, FALSE) /\ StateLeq(t, to, FALSE)
  BY <1>1, <1>5, <1>6, RunLeq
<1>8. b \in DOMAIN s.mem /\ b \in DOMAIN to.mem
  BY <1>1, <1>6, EndBlock
<1>9. so.wd /\ BlockLeq(so.mem[b], s.mem[b], FALSE)
  BY <1>1, <1>7, <1>8 DEF StateLeq, MemLeq
<1>10. /\ so.mem[b].live /\ so.mem[b].numelem = s.mem[b].numelem
       /\ so.mem[b].arr[i] = s.mem[b].arr[i]
  BY <1>1, <1>9 DEF BlockLeq
<1>11. EndRefines(t, s, f.returns) /\ EndRefines(to, so, f.returns)
  <2>1. <<m, args>> \in Input /\ <<n, args>> \in Input
    BY DEF Input
  <2> QED
    BY <1>1, <1>6, <2>1, EndState DEF Verified
<1>12. /\ RefinesElem(t.mem[b], s.mem[b], i) /\ RefinesElem(to.mem[b], so.mem[b], i)
       /\ to.wd
  BY <1>1, <1>9, <1>11 DEF EndRefines, Refines
<1>13. /\ t.mem[b].arr[i] = s.mem[b].arr[i]
       /\ to.mem[b].live /\ i < to.mem[b].numelem
       /\ to.mem[b].arr[i] = so.mem[b].arr[i]
  BY <1>1, <1>10, <1>12 DEF RefinesElem, ElemInBounds
<1>14. BlockLeq(t.mem[b], to.mem[b], FALSE)
  BY <1>7, <1>8, <1>12 DEF StateLeq, MemLeq
<1>15. ~to.mem[b].init[i]
  BY <1>1, <1>13, <1>14 DEF BlockLeq
<1>16. to.mem[b].arr[i] = n[b].arr[i]
  <2>1. BlockKeeps(n[b], to.mem[b])
    BY <1>6, EndBlock
  <2> QED
    BY <1>13, <1>15, <2>1 DEF BlockKeeps
<1> QED
  BY <1>3, <1>4, <1>5, <1>10, <1>13, <1>16

-----------------------------------------------------------------------------
(***************************************************************************)
(* The surrounding program.                                                *)
(***************************************************************************)

\* As long as the program with the source function is defined, the one with
\* the target function is, has seen the same, and its memory will do.
Inv ==
  src.wd => /\ IsState(src) /\ IsState(tgt) /\ Len(src.mem) >= NumGlobals
            /\ StateLeq(tgt, src, TRUE)

\* Only global blocks are left after the call.
LEMMA GlobalsLeft ==
  ASSUME NEW m, Blocks(m), Len(m) >= NumGlobals
  PROVE  /\ Blocks(SubSeq(m, 1, NumGlobals)) /\ Len(SubSeq(m, 1, NumGlobals)) = NumGlobals
         /\ \A b \in Globals : SubSeq(m, 1, NumGlobals)[b] = m[b]
<1>1. PICK n : n = SubSeq(m, 1, NumGlobals)
  OBVIOUS
<1>2. NumGlobals \in Nat /\ NumGlobals >= 1 /\ Len(m) \in Nat
  BY MemoryOK DEF Blocks
<1>3. \A j \in 1..NumGlobals : m[j] \in Block
  BY <1>2, BlockIn DEF Blocks
<1>4. n \in Seq(Block) /\ Len(n) = NumGlobals /\ \A j \in 1..NumGlobals : n[j] = m[j]
  BY <1>1, <1>2, <1>3, SubSeqProperties DEF Blocks
<1> QED
  BY <1>1, <1>2, <1>4, LenProperties DEF Blocks, Globals

\* Verified ends are related, initialized elements included.
LEMMA EndsAreRelated ==
  ASSUME NothingEmpty, NEW f \in Functions, NEW g \in Functions, Verified(f, g),
         NEW m \in Memories, NEW args \in Args, Run(f, m, args).wd,
         NEW b \in Globals
  PROVE  BlockLeq(Run(g, m, args).mem[b], Run(f, m, args).mem[b], TRUE)
<1>1. PICK s, t : s = Run(f, m, args).mem[b] /\ t = Run(g, m, args).mem[b]
  OBVIOUS
<1>2. /\ t.numelem = s.numelem /\ t.byAlloc = s.byAlloc
      /\ s.numelem = m[b].numelem
  BY <1>1, EndBlock DEF BlockKeeps
<1>3. \A i \in Index : RefinesElem(t, s, i)
  <2>1. EndRefines(Run(g, m, args), Run(f, m, args), f.returns)
    <3>1. <<m, args>> \in Input
      BY DEF Input
    <3> QED
      BY <3>1, EndState DEF Verified
  <2> QED
    BY <1>1, <2>1 DEF EndRefines, Refines
<1>4. 0 \in Index /\ 0 < s.numelem
  <2>1. m[b] \in Block /\ m[b].numelem # 0
    BY MemoriesAreBlocks, BlockIn DEF NothingEmpty
  <2> QED
    BY <1>2, <2>1, MemoryOK DEF Block, Index
<1>5. s.live => t.live /\ (s.writable => t.writable)
  BY <1>3, <1>4 DEF RefinesElem, ElemInBounds
<1>6. ASSUME s.live, NEW i \in Index, i < s.numelem
      PROVE  t.arr[i] = s.arr[i] /\ (s.init[i] => t.init[i])
  BY <1>1, <1>3, <1>6, TargetInitializes DEF RefinesElem, ElemInBounds
<1>7. BlockLeq(t, s, TRUE)
  BY <1>2, <1>5, <1>6 DEF BlockLeq
<1> QED
  BY <1>1, <1>7

\* Where a run ends, and what is left of it.
LEMMA RunRecord ==
  ASSUME NEW fn \in Functions, NEW m, NEW args
  PROVE  \E mem, regs, wd, seen :
           Run(fn, m, args) = [mem |-> mem, regs |-> regs, wd |-> wd, seen |-> seen]
<1>1. PICK st : st = States(fn, m, args)
  OBVIOUS
<1>2. PICK len \in Nat : len = Len(fn.body)
  BY BodyParts
<1>3. Run(fn, m, args) = st[len]
  BY <1>1, <1>2 DEF Run
<1>4. CASE len = 0
  <2>1. st[0] = Start(m, args)
    BY <1>1, <1>2, StatesAreSteps
  <2> QED
    BY <1>3, <1>4, <2>1 DEF Start
<1>5. CASE len # 0
  <2>1. len \in 1..len
    BY <1>5
  <2>2. st[len] = Step(st[len - 1], fn.body[len])
    BY <1>1, <1>2, <2>1, StatesAreSteps
  <2> QED
    BY <1>3, <2>2 DEF Step
<1> QED
  BY <1>4, <1>5

LEMMA AfterCallState ==
  ASSUME NothingEmpty, NEW fn \in Functions, NEW m \in Memories, NEW args \in Args,
         NEW st, st = AfterCall(Run(fn, m, args), args)
  PROVE  /\ IsState(st) /\ Len(st.mem) = NumGlobals
         /\ st.regs = args /\ st.seen = <<>> /\ st.wd = Run(fn, m, args).wd
         /\ \A b \in Globals : st.mem[b] = Run(fn, m, args).mem[b]
<1>1. PICK e : e = Run(fn, m, args)
  OBVIOUS
<1>2. /\ st.mem = SubSeq(e.mem, 1, NumGlobals) /\ st.regs = args
      /\ st.seen = <<>> /\ st.wd = e.wd
  <2>1. PICK mem, regs, wd, seen : e = [mem |-> mem, regs |-> regs, wd |-> wd, seen |-> seen]
    BY <1>1, RunRecord
  <2>2. PICK left, none : left = SubSeq(e.mem, 1, NumGlobals) /\ none = <<>>
    OBVIOUS
  <2>3. st = [e EXCEPT !.mem = left, !.regs = args, !.seen = none]
    BY <1>1, <2>2 DEF AfterCall
  <2>4. st = [mem |-> left, regs |-> args, wd |-> wd, seen |-> none]
    BY <2>1, <2>3
  <2>5. st.mem = left /\ st.regs = args /\ st.seen = none /\ st.wd = wd /\ e.wd = wd
    BY <2>1, <2>4
  <2> QED
    BY <2>2, <2>5
<1>3. Blocks(e.mem) /\ Len(e.mem) >= NumGlobals
  BY <1>1, EndState, MemoriesAreBlocks DEF Follows, MemKeeps
<1>4. /\ Blocks(st.mem) /\ Len(st.mem) = NumGlobals
      /\ \A b \in Globals : st.mem[b] = e.mem[b]
  BY <1>2, <1>3, GlobalsLeft
<1>5. st.regs \in Seq(RefTo(st.mem))
  <2>1. args \in Seq(RefTo(m)) /\ Len(m) = NumGlobals
    BY StartState, MemoriesAreBlocks DEF Start, IsState
  <2> QED
    BY <1>2, <1>4, <2>1 DEF RefTo
<1> QED
  BY <1>1, <1>2, <1>4, <1>5 DEF IsState

\* Init => Inv.
LEMMA InitInv ==
  ASSUME NothingEmpty, Init
  PROVE  Inv
<1>1. PICK p \in Replacements, x \in Input :
        /\ Ends[p[1]][x].wd
        /\ src = AfterCall(Ends[p[1]][x], x[2])
        /\ tgt = AfterCall(Ends[p[2]][x], x[2])
  BY DEF Init
<1>2. PICK f \in Functions, g \in Functions : f = p[1] /\ g = p[2] /\ Verified(f, g)
  BY DEF Replacements
<1>3. PICK m \in Memories, args \in Args : x = <<m, args>>
  BY DEF Input
<1>4. /\ Run(f, m, args).wd
      /\ src = AfterCall(Run(f, m, args), args)
      /\ tgt = AfterCall(Run(g, m, args), args)
  BY <1>1, <1>2, <1>3, EndState
<1>5. /\ IsState(src) /\ Len(src.mem) = NumGlobals
      /\ src.regs = args /\ src.seen = <<>>
      /\ \A b \in Globals : src.mem[b] = Run(f, m, args).mem[b]
  BY <1>4, AfterCallState
<1>6. /\ IsState(tgt) /\ Len(tgt.mem) = NumGlobals
      /\ tgt.regs = args /\ tgt.seen = <<>> /\ tgt.wd = Run(g, m, args).wd
      /\ \A b \in Globals : tgt.mem[b] = Run(g, m, args).mem[b]
  BY <1>4, AfterCallState
<1>7. tgt.wd
  <2>1. <<m, args>> \in Input
    BY DEF Input
  <2>2. EndRefines(Run(g, m, args), Run(f, m, args), f.returns)
    BY <1>2, <2>1, EndState DEF Verified
  <2> QED
    BY <1>4, <1>6, <2>2 DEF EndRefines
<1>8. MemLeq(tgt.mem, src.mem, TRUE)
  <2>1. DOMAIN src.mem = Globals
    BY <1>5 DEF IsState, Blocks, Globals
  <2>2. ASSUME NEW b \in Globals PROVE BlockLeq(tgt.mem[b], src.mem[b], TRUE)
    <3>1. BlockLeq(Run(g, m, args).mem[b], Run(f, m, args).mem[b], TRUE)
      BY <1>2, <1>4, EndsAreRelated
    <3> QED
      BY <1>5, <1>6, <3>1
  <2> QED
    BY <1>5, <1>6, <2>1, <2>2 DEF MemLeq
<1>9. Len(src.mem) >= NumGlobals
  BY <1>5, MemoryOK
<1> QED
  BY <1>5, <1>6, <1>7, <1>8, <1>9 DEF Inv, StateLeq

\* One more command.
LEMMA ContinueInv ==
  ASSUME NothingEmpty, Inv, Continue
  PROVE  Inv'
<1>1. PICK c \in Context : Names(src, c) /\ src' = Step(src, c) /\ tgt' = Step(tgt, c)
  BY DEF Continue
<1> SUFFICES ASSUME src'.wd PROVE Inv'
  BY DEF Inv
<1>2. c \in Command /\ NotEmpty(c)
  BY ContextOK DEF NothingEmpty
<1>3. src.wd
  BY <1>1 DEF Step
<1>4. /\ IsState(src) /\ IsState(tgt) /\ Len(src.mem) >= NumGlobals
      /\ StateLeq(tgt, src, TRUE)
  BY <1>3 DEF Inv
<1>5. StateLeq(tgt', src', TRUE)
  BY <1>1, <1>2, <1>4, StepLeq
<1>6. IsState(src') /\ Follows(src.mem, src'.mem)
  BY <1>1, <1>2, <1>4, StepState
<1>7. IsState(tgt')
  <2>1. Names(tgt, c)
    BY <1>1, <1>3, <1>4 DEF Names, StateLeq
  <2> QED
    BY <1>1, <1>2, <1>4, <2>1, StepState
<1>8. Len(src'.mem) >= NumGlobals
  BY <1>4, <1>6, MemoryOK DEF Follows, MemKeeps, IsState, Blocks
<1> QED
  BY <1>5, <1>6, <1>7, <1>8 DEF Inv, IsState, StateLeq

LEMMA Invariance ==
  ASSUME NothingEmpty
  PROVE  Spec => []Inv
<1>1. Init => Inv
  BY InitInv
<1>2. Inv /\ [Continue]_vars => Inv'
  <2>1. CASE Continue
    BY <2>1, ContinueInv
  <2>2. CASE UNCHANGED vars
    BY <2>2 DEF Inv, IsState, StateLeq, vars
  <2> QED
    BY <2>1, <2>2
<1> QED
  BY <1>1, <1>2, PTL DEF Spec

\* A verified function can be replaced in any program that goes on to work on
\* the same memory: as long as the program is defined with the source function,
\* it is defined with the target function and loads the same values.
THEOREM SafeReplacement ==
  ASSUME NothingEmpty
  PROVE  Spec => []SafeInContext
<1>1. Inv => SafeInContext
  BY DEF Inv, StateLeq, SafeInContext
<1> QED
  BY <1>1, Invariance, PTL

\* Memory::refines is kept by every operation that the source program is
\* defined for, so the next function may be replaced too.
THEOREM RefinementKept ==
  ASSUME NothingEmpty
  PROVE  Spec => []RefinementIsKept
<1>1. ASSUME Inv, src.wd PROVE Refines(tgt.mem, src.mem)
  <2>1. Blocks(src.mem) /\ Len(src.mem) >= NumGlobals /\ MemLeq(tgt.mem, src.mem, TRUE)
    BY <1>1 DEF Inv, IsState, StateLeq
  <2>2. Globals \subseteq DOMAIN src.mem
    BY <2>1, MemoryOK DEF Blocks, Globals
  <2>3. \A b \in Globals : BlockLeq(tgt.mem[b], src.mem[b], TRUE)
    BY <2>1, <2>2 DEF MemLeq
  <2> QED
    BY <2>3 DEF BlockLeq, Refines, RefinesElem, ElemInBounds
<1>2. Inv => RefinementIsKept
  BY <1>1 DEF RefinementIsKept
<1> QED
  BY <1>2, Invariance, PTL
=============================================================================
