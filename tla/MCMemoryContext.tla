-------------------------- MODULE MCMemoryContext ---------------------------
(***************************************************************************)
(* All memories of one argument block of two elements beside a constant    *)
(* global, and the functions of at most one operation, with some of two.   *)
(***************************************************************************)
EXTENDS MemoryContext

ArrayOf(vals) == [i \in Index |-> IF i \in DOMAIN vals THEN vals[i] ELSE "one"]

ArgBlocks ==
  {[arr |-> ArrayOf(vals), init |-> [i \in Index |-> i \in inits],
    writable |-> w, numelem |-> 2, live |-> l, byAlloc |-> a] :
     vals \in [0..1 -> {"one", "two"}], inits \in SUBSET (0..1), w, l, a \in BOOLEAN}

ConstGlobal ==
  [arr |-> ArrayOf([i \in 0..1 |-> IF i = 0 THEN "one" ELSE "two"]),
   init |-> [i \in Index |-> TRUE],
   writable |-> FALSE, numelem |-> 2, live |-> TRUE, byAlloc |-> FALSE]

AllMemories == {<<b, ConstGlobal>> : b \in ArgBlocks}

R(b, off, size) == [bid |-> b, offset |-> off, size |-> size, view |-> FALSE]

\* The arguments overlap, are disjoint, or one is the constant global.
AllArgs == {<<R(1, 0, 2), R(1, 1, 1)>>, <<R(1, 0, 1), R(1, 1, 1)>>, <<R(1, 0, 2), R(2, 0, 2)>>}

Cmd(op, r) == [op |-> op, r |-> r, s |-> 1, i |-> 0, v |-> "one"]

Loads    == {[Cmd("load", r) EXCEPT !.i = i] : r \in 1..2, i \in 0..1}
Stores   == {[Cmd("store", 1) EXCEPT !.i = i, !.v = v] : i \in 0..1, v \in {"one", "two"}}
Fills    == {[Cmd("fill", 1) EXCEPT !.v = v] : v \in {"one", "two"}}
Copies   == {[Cmd("copy", 2) EXCEPT !.s = 1], [Cmd("copy", 1) EXCEPT !.s = 2]}
Others   == {Cmd("to_tensor", 1), Cmd("dealloc", 1), Cmd("clone", 1)}
Commands == Loads \cup Stores \cup Fills \cup Copies \cup Others

Alloc2     == [Cmd("alloc", 1) EXCEPT !.i = 2]
LocalStore == [Cmd("store", 3) EXCEPT !.v = "two"]
LocalLoad  == Cmd("load", 3)
StoreAt(i) == [Cmd("store", 1) EXCEPT !.i = i]
LoadAt(i)  == [Cmd("load", 1) EXCEPT !.i = i]

Bodies ==
  {<<>>} \cup {<<c>> : c \in Commands}
  \cup {<<StoreAt(0), StoreAt(1)>>, <<StoreAt(1), StoreAt(0)>>,
        <<StoreAt(0), LoadAt(0)>>,
        <<LoadAt(0), Cmd("dealloc", 1)>>,
        <<Cmd("fill", 1), Cmd("to_tensor", 1)>>,
        <<Alloc2>>, <<Alloc2, LocalStore, LocalLoad>>, <<Alloc2, LocalLoad>>}

HasLoad(body) == \E j \in DOMAIN body : body[j].op = "load"

AllFunctions ==
  {[body |-> b, returns |-> FALSE] : b \in Bodies}
  \cup {[body |-> b, returns |-> TRUE] : b \in {x \in Bodies : HasLoad(x)}}

ContextCommands == Commands \cup {Alloc2, LocalStore, LocalLoad}

ASSUME NothingEmpty
=============================================================================
