----------------------------- MODULE MemoryRun ------------------------------
(***************************************************************************)
(* A function that works on memory: encode() goes over its operations in   *)
(* order, and each of them updates the memory and the well-definedness of  *)
(* the state (State, state.h).  Which operations the function consists of  *)
(* is not determined, and neither is the memory it starts from, nor its    *)
(* reference arguments.                                                    *)
(***************************************************************************)
EXTENDS Memory

CONSTANTS
  Memories,   \* initial memories: global blocks only
  Args,       \* sequences of reference arguments, all to global blocks
  Sizes,      \* sizes of local blocks
  MaxOps      \* operations of the function

\* Junk is what fresh local blocks hold, and no initialized element.
Known(m) ==
  \A b \in DOMAIN m, i \in Index :
    i < m[b].numelem /\ m[b].init[i] => m[b].arr[i] # Junk

ASSUME RunOK ==
  /\ \A m \in Memories : IsMemory(m) /\ Len(m) = NumGlobals /\ Known(m)
  /\ \A a \in Args : a \in Seq(MemRef) /\ \A i \in DOMAIN a : a[i].bid \in Globals
  /\ Sizes \subseteq Index
  /\ MaxOps \in Nat

VARIABLES
  mem,      \* State::m
  regs,     \* the references held by registers, arguments first
  wd,       \* State::isWellDefined
  reads,    \* values that loads have put into registers
  ops,      \* operations encoded
  thrown    \* an UnsupportedException ended the encoding

vars == <<mem, regs, wd, reads, ops, thrown>>

Ref == {regs[i] : i \in DOMAIN regs}

Init ==
  /\ mem \in Memories
  /\ regs \in Args
  /\ wd = TRUE
  /\ reads = {}
  /\ ops = 0
  /\ thrown = FALSE

-----------------------------------------------------------------------------
\* The next operation of the function.
NextOp == ~thrown /\ ops < MaxOps /\ ops' = ops + 1

Do(outcome) ==
  /\ NextOp
  /\ mem' = outcome.mem
  /\ wd' = (wd /\ outcome.ok)
  /\ UNCHANGED thrown

LoadOp ==
  \E r \in Ref, i \in Index :
    /\ Do(Load(mem, r, i))
    /\ reads' = reads \cup {Loaded(mem, r, i)}
    /\ UNCHANGED regs

StoreOp ==
  \E r \in Ref, i \in Index, v \in Value \ {Junk} :
    Do(Store(mem, r, i, v)) /\ UNCHANGED <<regs, reads>>

FillOp ==
  \E r \in Ref, v \in Value \ {Junk} : Do(Fill(mem, r, v)) /\ UNCHANGED <<regs, reads>>

CopyOp ==
  \E r, s \in Ref : Do(Copy(mem, r, s)) /\ UNCHANGED <<regs, reads>>

\* The elements of the tensor are values like any other.
ToTensorOp ==
  \E r \in Ref :
    /\ Do(ToTensor(mem, r))
    /\ reads' = reads \cup {LoadTensor(mem, r)[i] : i \in {j \in Index : j < r.size}}
    /\ UNCHANGED regs

DeallocOp ==
  \E r \in Ref : Do(Dealloc(mem, r)) /\ UNCHANGED <<regs, reads>>

AllocOp ==
  \E size \in Sizes, byAlloc \in BOOLEAN :
    /\ HasRoom(mem)
    /\ Do(Alloc(mem, size, byAlloc))
    /\ regs' = Append(regs, NewRef(mem, size))
    /\ UNCHANGED reads

ToMemrefOp ==
  \E size \in Sizes, v \in Value \ {Junk} :
    /\ HasRoom(mem)
    /\ Do(ToMemref(mem, [i \in Index |-> v], size))
    /\ regs' = Append(regs, NewRef(mem, size))
    /\ UNCHANGED reads

CloneOp ==
  \E r \in Ref :
    /\ HasRoom(mem)
    /\ Do(Clone(mem, r))
    /\ regs' = Append(regs, NewRef(mem, r.size))
    /\ UNCHANGED reads

ReshapeOp ==
  \E r \in Ref :
    /\ Do(Outcome(mem, TRUE))
    /\ regs' = Append(regs, Reshape(r))
    /\ UNCHANGED reads

\* alloc, to_memref or clone: "Too many local blocks".
TooManyLocalBlocks ==
  /\ NextOp
  /\ ~HasRoom(mem)
  /\ thrown' = TRUE
  /\ UNCHANGED <<mem, regs, wd, reads>>

Next ==
  \/ LoadOp \/ StoreOp \/ FillOp \/ CopyOp \/ ToTensorOp \/ DeallocOp
  \/ AllocOp \/ ToMemrefOp \/ CloneOp \/ ReshapeOp \/ TooManyLocalBlocks

Spec == Init /\ [][Next]_vars

-----------------------------------------------------------------------------
TypeOK ==
  /\ IsMemory(mem)
  /\ regs \in Seq(MemRef)
  /\ \A i \in DOMAIN regs : regs[i].bid \in DOMAIN mem
  /\ wd \in BOOLEAN
  /\ reads \subseteq Value
  /\ ops \in 0..MaxOps
  /\ thrown \in BOOLEAN

\* A function without undefined behaviour never gets to see the contents of an
\* element nobody has written: a load and a tensor are made of initialized
\* elements, and whatever marks an element as initialized stores to it
\* (checkRead against store and storeArray).
NoJunkRead == wd => Junk \notin reads

\* A step without undefined behaviour changes only blocks that are alive and
\* writable: constant globals, cloned buffers and buffers that became tensors
\* keep their contents for good, whatever reference they are reached by.
OnlyWritableChanges ==
  [][\A b \in DOMAIN mem, i \in Index :
       /\ wd' /\ i < mem[b].numelem
       /\ mem'[b].arr[i] # mem[b].arr[i]
       => mem[b].writable /\ mem[b].live]_vars

\* Only elements that are elements of a reference are changed by a step without
\* undefined behaviour ("If size = 0, it does not touch the block", memory.cpp).
OnlyReferencedChanges ==
  [][\A b \in DOMAIN mem, i \in Index :
       /\ wd' /\ i < mem[b].numelem
       /\ mem'[b].arr[i] # mem[b].arr[i]
       => \E r \in Ref : Reaches(r, b, i)]_vars

\* A well-defined memref.copy is memcpy: the destination holds what the source
\* held, and the source still does (noalias and storeArray, whose arithmetic
\* wraps).
CopyIsMemcpy ==
  [][\A r, s \in Ref :
       /\ wd' /\ ops' = ops + 1
       /\ mem' = Copy(mem, r, s).mem /\ Copy(mem, r, s).ok
       => \A i \in Index : i < r.size =>
            /\ mem'[s.bid].arr[At(s, i)] = mem[r.bid].arr[At(r, i)]
            /\ mem'[r.bid].arr[At(r, i)] = mem[r.bid].arr[At(r, i)]]_vars

\* No operation brings a block back to life or makes it writable again, or
\* forgets that an element is initialized.
BlocksFade ==
  [][\A b \in DOMAIN mem :
       /\ b \in DOMAIN mem'
       /\ mem'[b].live => mem[b].live
       /\ mem'[b].writable => mem[b].writable
       /\ \A i \in Index : mem[b].init[i] => mem'[b].init[i]]_vars
=============================================================================
