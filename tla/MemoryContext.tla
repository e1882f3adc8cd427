---------------------------- MODULE MemoryContext ---------------------------
(***************************************************************************)
(* What a verified transformation of memory is good for: the function is   *)
(* replaced by its transformed version inside a program that goes on to    *)
(* work on the same memory.  The validator compares source and target only *)
(* at their ends (checkRefinement, Memory::refines); here the surrounding  *)
(* program runs on, step by step, on what either version left.             *)
(***************************************************************************)
EXTENDS Memory, SequencesExt

CONSTANTS
  Memories,    \* memories a function may start from: global blocks only
  Args,        \* sequences of reference arguments, all to global blocks
  Functions,   \* records of a body, a sequence of commands, and of whether
               \* the function returns the value it loads last
  Context,     \* commands the surrounding program may go on with
  MaxSteps     \* commands of the surrounding program

(***************************************************************************)
(* A command names its references by their registers: the arguments, then  *)
(* one for every local block.                                              *)
(***************************************************************************)
CommandKinds == {"load", "store", "fill", "copy", "to_tensor", "dealloc", "alloc", "clone"}

Command == [op : CommandKinds, r : Nat, s : Nat, i : Index, v : Value]

ASSUME ContextOK ==
  /\ \A m \in Memories : IsMemory(m) /\ Len(m) = NumGlobals
  /\ \A a \in Args : a \in Seq(MemRef) /\ \A j \in DOMAIN a : a[j].bid \in Globals
  /\ Functions \subseteq [body : Seq(Command), returns : BOOLEAN]
  /\ Context \subseteq Command
  /\ MaxSteps \in Nat

\* What an element holds before anything is stored to it is left to the solver:
\* the contents of a block are an array of its own (Memory::Memory).
ASSUME ContentsOK ==
  \A m \in Memories, b \in Globals, i \in Index :
    ElemInBounds(m[b], i) /\ ~ElemInitialized(m[b], i) =>
      \E v \in Value \ {m[b].arr[i]} : [m EXCEPT ![b].arr[i] = v] \in Memories

Outcomes(mem, regs, c) ==
  LET r == regs[c.r]
  IN  CASE c.op = "load"      -> Load(mem, r, c.i)
        [] c.op = "store"     -> Store(mem, r, c.i, c.v)
        [] c.op = "fill"      -> Fill(mem, r, c.v)
        [] c.op = "copy"      -> Copy(mem, r, regs[c.s])
        [] c.op = "to_tensor" -> ToTensor(mem, r)
        [] c.op = "dealloc"   -> Dealloc(mem, r)
        [] c.op = "alloc"     -> Alloc(mem, c.i, TRUE)
        [] c.op = "clone"     -> Clone(mem, r)

NewRegs(mem, regs, c) ==
  CASE c.op = "alloc" -> Append(regs, NewRef(mem, c.i))
    [] c.op = "clone" -> Append(regs, NewRef(mem, regs[c.r].size))
    [] OTHER          -> regs

\* What a command lets the program see: the value it loads.
Seen(mem, regs, c) ==
  IF c.op = "load" THEN <<Loaded(mem, regs[c.r], c.i)>> ELSE <<>>

\* State: the memory, the registers, well-definedness, the values loaded.
Step(st, c) ==
  LET o == Outcomes(st.mem, st.regs, c)
  IN  [mem  |-> o.mem,
       regs |-> NewRegs(st.mem, st.regs, c),
       wd   |-> st.wd /\ o.ok,
       seen |-> st.seen \o Seen(st.mem, st.regs, c)]

Start(mem, args) == [mem |-> mem, regs |-> args, wd |-> TRUE, seen |-> <<>>]

\* The states encode() goes through, from before the first operation of a
\* function until after the last.
States(fn, mem, args) ==
  LET st[k \in 0..Len(fn.body)] ==
        IF k = 0 THEN Start(mem, args) ELSE Step(st[k - 1], fn.body[k])
  IN  st

Run(fn, mem, args) == States(fn, mem, args)[Len(fn.body)]

\* An operand is the result of an earlier operation, or an argument.
Names(st, c) == {c.r, c.s} \subseteq DOMAIN st.regs

ASSUME FunctionsOK ==
  \A fn \in Functions, mem \in Memories, args \in Args : \A k \in DOMAIN fn.body :
    Names(States(fn, mem, args)[k - 1], fn.body[k])

Input == Memories \X Args
Ends  == [fn \in Functions |-> [x \in Input |-> Run(fn, x[1], x[2])]]

\* checkRefinement for one input: undefined behaviour, returned value, memory.
EndRefines(t, s, returns) ==
  s.wd =>
    /\ t.wd
    /\ returns => Last(t.seen) = Last(s.seen)
    /\ Refines(t.mem, s.mem)

\* The signatures agree, and the solver finds no counterexample.
Verified(f, g) ==
  /\ f.returns = g.returns
  /\ \A x \in Input : EndRefines(Ends[g][x], Ends[f][x], f.returns)

\* What replacing a function in a program takes: blocks and references have
\* elements.  A block of no elements is nothing Memory::refines compares, not
\* even whether it is alive, and a store of no elements may cover a whole block.
NotEmpty(c) == c.op = "alloc" => c.i # 0

NothingEmpty ==
  /\ \A m \in Memories, b \in Globals : m[b].numelem # 0
  /\ \A a \in Args : \A j \in DOMAIN a : a[j].size # 0
  /\ \A c \in Context : NotEmpty(c)
  /\ \A fn \in Functions : \A k \in DOMAIN fn.body : NotEmpty(fn.body[k])

VARIABLES
  src, tgt,    \* how far the program has come, with the source function and
               \* with the target function
  steps

vars == <<src, tgt, steps>>

\* The surrounding program holds references to global blocks only.
AfterCall(st, args) == [st EXCEPT !.mem = SubSeq(@, 1, NumGlobals), !.regs = args, !.seen = <<>>]

Replacements == {p \in Functions \X Functions : Verified(p[1], p[2])}

Init ==
  \E p \in Replacements : \E x \in Input :
    LET s == Ends[p[1]][x]
        t == Ends[p[2]][x]
    IN  /\ s.wd
        /\ src = AfterCall(s, x[2])
        /\ tgt = AfterCall(t, x[2])
        /\ steps = 0

Continue ==
  /\ steps < MaxSteps
  /\ \E c \in Context : Names(src, c) /\ src' = Step(src, c) /\ tgt' = Step(tgt, c)
  /\ steps' = steps + 1

Spec == Init /\ [][Continue]_vars

-----------------------------------------------------------------------------
\* Whatever the surrounding program does, the transformed function makes it
\* neither undefined nor see another value ("Removing dealloc is always okay
\* because it makes the whole context more defined", remove_memref_dealloc).
SafeInContext == src.wd => tgt.wd /\ tgt.seen = src.seen

\* Memory::refines is kept by every operation that is defined in the source,
\* so functions that are verified one by one can be replaced one by one.
RefinementIsKept == src.wd => Refines(tgt.mem, src.mem)
=============================================================================
