---------------------------- MODULE MCMemoryRun -----------------------------
(***************************************************************************)
(* Two global blocks, an argument's and a constant global's, indices of    *)
(* two bits and functions of a few operations.                             *)
(***************************************************************************)
EXTENDS MemoryRun

\* A block of n elements; those not in inits hold junk, as do the offsets
\* outside the block.
BlockOf(n, vals, inits, writable, live, byAlloc) ==
  [arr |-> [i \in Index |-> IF i \in inits THEN vals[i] ELSE Junk],
   init |-> [i \in Index |-> i \in inits],
   writable |-> writable, numelem |-> n, live |-> live, byAlloc |-> byAlloc]

OneAndTwo == [i \in Index |-> IF i = 0 THEN "one" ELSE "two"]

\* A constant global variable of two elements.
ConstGlobal == [BlockOf(2, OneAndTwo, 0..1, FALSE, TRUE, FALSE)
                  EXCEPT !.init = [i \in Index |-> TRUE]]

\* An argument's block: read-only or not, with or without an element that is
\* not initialized; and one that is dead.
ArgBlocks ==
  {BlockOf(3, OneAndTwo, inits, w, TRUE, TRUE) : inits \in {{0, 2}, {0, 1, 2}}, w \in BOOLEAN}
  \cup {BlockOf(3, OneAndTwo, {0, 1}, TRUE, TRUE, FALSE),
        BlockOf(3, OneAndTwo, {0, 1}, TRUE, FALSE, TRUE)}

AllMemories == {<<b, ConstGlobal>> : b \in ArgBlocks}

R(b, off, size) == [bid |-> b, offset |-> off, size |-> size, view |-> FALSE]

\* Two arguments: overlapping, disjoint, with an offset that wraps, or in
\* different blocks; and one that wraps alone.
AllArgs == {<<R(1, 0, 2), R(1, 1, 2)>>, <<R(1, 0, 1), R(1, 1, 1)>>,
            <<R(1, 0, 2), R(1, 3, 2)>>, <<R(1, 0, 2), R(2, 0, 2)>>, <<R(1, 3, 2)>>}

\* An empty reference beside one to the last element.
EmptyArgs == {<<R(1, 0, 0), R(1, 1, 1)>>, <<R(1, 1, 0), R(1, 1, 1)>>}

\* Once undefined, a function stays so, and its memory no longer matters.
StillDefined == wd
=============================================================================
