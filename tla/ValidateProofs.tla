--------------------------- MODULE ValidateProofs ---------------------------
(***************************************************************************)
(* The validator, for every number of functions, every program, command    *)
(* line and set of solvers, and every record of operations that earlier    *)
(* functions have left behind.                                             *)
(*                                                                         *)
(* The abstraction loop: abstractions get strictly more concrete from      *)
(* round to round, and there are at most three rounds.                     *)
(*                                                                         *)
(* What verdicts are worth: with solvers that do not lie, no wrong         *)
(* function is ever reported correct, and no right one wrong as far as the *)
(* abstractions are refined.                                               *)
(*                                                                         *)
(* What is printed: the line for a function agrees with its code, the exit *)
(* code is the worst of the codes, and no obligation is asked with         *)
(* constants of an old counterexample.  Together this is the promise of    *)
(* Verdict, which the validator implements step by step.                   *)
(***************************************************************************)
EXTENDS ValidateProps, SequenceTheorems, TLAPS

-----------------------------------------------------------------------------
(***************************************************************************)
(* Types of the pure operators.                                            *)
(***************************************************************************)

\* The abstraction a function starts with is one.
LEMMA InitialAbsType ==
  ASSUME NEW o \in Option
  PROVE  InitialAbs(o) \in Abstraction
BY DEF InitialAbs, Abstraction

\* Refining an abstraction yields an abstraction.
LEMMA NextAbsType ==
  ASSUME NEW a \in Abstraction, NEW used, NEW o
  PROVE  NextAbs(a, used, o) \in Abstraction
BY DEF NextAbs, Abstraction

\* Encoding an operation records only flags.
LEMMA OpFlagsType ==
  ASSUME NEW op \in Op, NEW a, NEW o
  PROVE  OpFlags(op, a, o) \subseteq Flag
BY DEF OpFlags, Op, FpKinds, IntKinds, Flag, FpAddFlags, FpSumFlags, FpDotFlags,
       IntSumFlags, IntDotFlags

\* Encoding a body records only flags.
LEMMA EncodingFlagsType ==
  ASSUME NEW ops \in Seq(Op), NEW a, NEW o
  PROVE  EncodingFlags(ops, a, o) \subseteq Flag
BY OpFlagsType DEF EncodingFlags

\* The obligations of a program are needs, its bodies operations.
LEMMA ProgramTypes ==
  ASSUME NEW q \in Program
  PROVE  /\ q.ub \in Need
         /\ \A i \in DOMAIN q.rets : q.rets[i] \in Need
         /\ \A i \in DOMAIN q.mems : q.mems[i] \in Need
         /\ q.rets \in Seq(Need) /\ q.mems \in Seq(Need)
         /\ Body(q) \in Seq(Op) /\ q.src \in Seq(Op)
BY DEF Program, Body

-----------------------------------------------------------------------------
(***************************************************************************)
(* Control: where the process is tells what it may look at.                *)
(***************************************************************************)
Control ==
  /\ phase \notin {"functions", "exit"} => fn \in Fns
  /\ phase = "round" => queue # <<>>
  /\ phase = "ret" => idx \in DOMAIN p.rets
  /\ phase = "mem" => idx \in DOMAIN p.mems

TypeInv == TypeOK /\ Control

\* The process starts well-typed, before the first function.
LEMMA InitTypeInv == Init => TypeInv
<1> SUFFICES ASSUME Init PROVE TypeInv
  OBVIOUS
<1>1. /\ fn = 1 /\ phase = "functions" /\ queue = <<>> /\ rounds = 0 /\ idx = 0
      /\ asserted = {} /\ usedOps = {} /\ fpEnc = "none" /\ hasUnsupported = FALSE
      /\ result = TIMEOUT /\ merged = SUCCESS /\ exitCode = PENDING
      /\ contradicted = {}
  BY DEF Init
<1>2. opt \in Option /\ prog \in [Fns -> Program]
  BY ProgramsOK DEF Init, InitialInputs
<1>3. abs \in Abstraction
  BY <1>2, InitialAbsType DEF Init
<1>4. /\ verdict \in [Fns -> Code \cup {PENDING, SKIPPED, UNSUPPORTED}]
      /\ line \in [Fns -> Line]
  BY DEF Init, Line
<1>5. fn \in 1..(NumFns + 1) /\ queue \in Seq(Abstraction)
  BY <1>1, ProgramsOK, EmptySeq
<1>6. result \in Code /\ merged \in Code /\ exitCode \in Code \cup {PENDING, UNSUPPORTED}
  BY <1>1 DEF Code
<1>7. rounds \in 0..(ItrModulus - 1)
  BY <1>1, ItrOK
<1>8. asserted \subseteq Need /\ usedOps \subseteq Flag /\ contradicted \subseteq Fns
  BY <1>1
<1>9. TypeOK
  BY <1>1, <1>2, <1>3, <1>4, <1>5, <1>6, <1>7, <1>8 DEF TypeOK, Phase
<1> QED
  BY <1>1, <1>9 DEF TypeInv, Control

\* The type of the function the process is at.
LEMMA CurrentProgram ==
  ASSUME TypeOK, fn \in Fns
  PROVE  p \in Program
BY DEF TypeOK, p

\* Leaving a function keeps the types, whatever its verdict.
LEMMA NextFunctionType ==
  ASSUME TypeInv, fn \in Fns,
         NEW v \in Code \cup {PENDING, SKIPPED, UNSUPPORTED}, NextFunction(v),
         merged' \in Code, hasUnsupported' \in BOOLEAN, line' \in [Fns -> Line],
         usedOps' \subseteq Flag
  PROVE  TypeInv'
<1>1. fn' \in 1..(NumFns + 1)
  BY ProgramsOK DEF NextFunction, Fns
<1>2. verdict' \in [Fns -> Code \cup {PENDING, SKIPPED, UNSUPPORTED}]
  BY DEF TypeInv, TypeOK, NextFunction
<1> QED
  BY <1>1, <1>2, ItrOK DEF TypeInv, TypeOK, Control, NextFunction, Phase, inputs

\* An exception is a way to leave a function.
LEMMA UnsupportedType ==
  ASSUME TypeInv, fn \in Fns, Unsupported, usedOps' \subseteq Flag
  PROVE  TypeInv'
BY NextFunctionType DEF Unsupported, TypeInv, TypeOK

\* The merge of two codes is one of them.
LEMMA ReturnType ==
  ASSUME TypeInv, fn \in Fns, NEW code \in Code, Return(code),
         usedOps' \subseteq Flag, line' \in [Fns -> Line]
  PROVE  TypeInv'
<1>1. merged' \in Code /\ hasUnsupported' \in BOOLEAN
  BY DEF Return, TypeInv, TypeOK
<1> QED
  BY <1>1, NextFunctionType DEF Return

\* The obligation a check goes on to exists.
CheckFollows ==
  /\ phase' \in {"ret", "mem", "judge"}
  /\ result' \in Code
  /\ idx' \in Nat
  /\ phase' = "ret" => idx' \in DOMAIN p.rets
  /\ phase' = "mem" => idx' \in DOMAIN p.mems

\* A check that gives up leaves no obligation to look at.
LEMMA ConcludeFollows ==
  ASSUME NEW c \in Code, Conclude(c)
  PROVE  CheckFollows
BY DEF Conclude, CheckFollows

\* The first element type is looked at only if there is one.
LEMMA MemOrDoneFollows ==
  ASSUME TypeInv, fn \in Fns, MemOrDone
  PROVE  CheckFollows
<1>1. p.mems \in Seq(Need)
  BY CurrentProgram, ProgramTypes DEF TypeInv
<1>2. CASE p.mems = <<>>
  BY <1>2, ConcludeFollows DEF MemOrDone, Code
<1>3. CASE p.mems # <<>>
  <2>1. 1 \in DOMAIN p.mems
    BY <1>1, <1>3, EmptySeq, LenProperties
  <2> QED
    BY <1>3, <2>1 DEF MemOrDone, GoTo, CheckFollows, TypeInv, TypeOK
<1> QED
  BY <1>2, <1>3

\* So is the first returned value.
LEMMA RetOrMoreFollows ==
  ASSUME TypeInv, fn \in Fns, RetOrMore
  PROVE  CheckFollows
<1>1. p.rets \in Seq(Need)
  BY CurrentProgram, ProgramTypes DEF TypeInv
<1>2. CASE p.rets = <<>>
  BY <1>2, MemOrDoneFollows DEF RetOrMore
<1>3. CASE p.rets # <<>>
  <2>1. 1 \in DOMAIN p.rets
    BY <1>1, <1>3, EmptySeq, LenProperties
  <2> QED
    BY <1>3, <2>1 DEF RetOrMore, GoTo, CheckFollows, TypeInv, TypeOK
<1> QED
  BY <1>2, <1>3

\* A check that goes on to an existing obligation keeps the types.
LEMMA FollowsType ==
  ASSUME TypeInv, fn \in Fns, CheckFollows, asserted' \subseteq Need,
         line' \in [Fns -> Line], fpEnc' \in {"none", "fresh", "pinned"},
         contradicted' \subseteq Fns,
         UNCHANGED <<inputs, fn, loop, usedOps, summary>>
  PROVE  TypeInv'
BY DEF TypeInv, TypeOK, Control, CheckFollows, Phase, inputs, loop, summary, p

\* What an answer to an obligation does to the report and to the encodings.
LEMMA ConclusionType ==
  ASSUME TypeInv, NEW r, NEW bad \in Code, NEW ACTION passed,
         Conclusion(r, bad, passed)
  PROVE  /\ line' \in [Fns -> Line]
         /\ fpEnc' \in {"none", "fresh", "pinned"}
         /\ \/ passed
            \/ \E c \in Code : Conclude(c)
BY DEF Conclusion, TypeInv, TypeOK, Line, Code

\* One query keeps the types, if what comes after a positive answer exists.
LEMMA SolveType ==
  ASSUME TypeInv, fn \in Fns, NEW solver \in SUBSET Need, NEW need \in Need,
         NEW bad \in Code, NEW ACTION passed, passed => CheckFollows,
         Solve(solver, need, bad, passed)
  PROVE  TypeInv'
<1>1. PICK r \in Answers(Truth(solver \cup {need}, abs)) : Conclusion(r, bad, passed)
  BY DEF Solve
<1>2. /\ asserted' \subseteq Need
      /\ UNCHANGED <<inputs, fn, loop, usedOps, summary>>
  BY DEF Solve
<1>5. contradicted' \subseteq Fns
  BY DEF Solve, TypeInv, TypeOK
<1>3. /\ line' \in [Fns -> Line]
      /\ fpEnc' \in {"none", "fresh", "pinned"}
      /\ \/ passed
         \/ \E c \in Code : Conclude(c)
  BY <1>1, ConclusionType
<1>4. CheckFollows
  BY <1>3, ConcludeFollows
<1> QED
  BY <1>2, <1>3, <1>4, <1>5, FollowsType

-----------------------------------------------------------------------------
(***************************************************************************)
(* Type correctness, one step per action.                                  *)
(***************************************************************************)

\* Every action keeps the types and the facts about control.
LEMMA NextTypeInv == TypeInv /\ [Next]_vars => TypeInv'
<1> SUFFICES ASSUME TypeInv, [Next]_vars PROVE TypeInv'
  OBVIOUS
<1>0. /\ phase \notin {"functions", "exit"} => fn \in Fns
      /\ fn \in Fns => p \in Program
      /\ opt \in Option /\ abs \in Abstraction /\ usedOps \subseteq Flag
      /\ line \in [Fns -> Line] /\ result \in Code /\ asserted \subseteq Need
  BY CurrentProgram DEF TypeInv, TypeOK, Control
<1>1. CASE SkipFunction
  <2>1. /\ fn \in Fns /\ NextFunction(SKIPPED)
        /\ UNCHANGED <<usedOps, merged, hasUnsupported, line>>
    BY <1>1 DEF SkipFunction
  <2> QED
    BY <2>1, NextFunctionType DEF TypeInv, TypeOK
<1>2. CASE RejectFunction
  <2>1. fn \in Fns /\ Unsupported /\ UNCHANGED usedOps
    BY <1>2 DEF RejectFunction
  <2> QED
    BY <1>0, <2>1, UnsupportedType
<1>3. CASE StartFunction
  <2>1. /\ fn \in Fns /\ phase' = "round" /\ queue' = <<InitialAbs(opt)>>
        /\ result' = TIMEOUT
        /\ UNCHANGED <<inputs, fn, abs, rounds, idx, asserted, global, summary, line,
                       contradicted>>
    BY <1>3 DEF StartFunction
  <2>2. queue' \in Seq(Abstraction) /\ queue' # <<>>
    BY <1>0, <2>1, InitialAbsType
  <2>3. result' \in Code
    BY <2>1 DEF Code
  <2> QED
    BY <2>1, <2>2, <2>3
    DEF TypeInv, TypeOK, Control, Phase, inputs, global, summary
<1>4. CASE Exit
  <2>1. /\ phase' = "exit"
        /\ exitCode' = IF hasUnsupported THEN UNSUPPORTED ELSE merged
        /\ UNCHANGED <<inputs, fn, loop, result, idx, asserted, global, merged,
                       hasUnsupported, verdict, line, contradicted>>
    BY <1>4 DEF Exit
  <2>2. exitCode' \in Code \cup {PENDING, UNSUPPORTED}
    BY <2>1 DEF TypeInv, TypeOK
  <2> QED
    BY <2>1, <2>2 DEF TypeInv, TypeOK, Control, Phase, inputs, loop, global
<1>5. CASE EncodeRound
  <2>1. /\ phase = "round" /\ abs' = Head(queue) /\ queue' = Tail(queue)
        /\ rounds' = (rounds + 1) % ItrModulus
        /\ usedOps' = usedOps \cup EncodingFlags(Body(p), Head(queue), opt)
        /\ fpEnc' = EncAfterSet /\ phase' = "ub" /\ idx' = 0 /\ asserted' = {}
        /\ UNCHANGED <<inputs, fn, result, summary, line, contradicted>>
    BY <1>5 DEF EncodeRound
  <2>2. abs' \in Abstraction /\ queue' \in Seq(Abstraction)
    BY <2>1, HeadTailProperties DEF TypeInv, TypeOK, Control
  <2>3. usedOps' \subseteq Flag
    BY <1>0, <2>1, ProgramTypes, EncodingFlagsType
  <2>4. fpEnc' \in {"none", "fresh", "pinned"}
    BY <2>1 DEF EncAfterSet
  <2>5. rounds' \in 0..(ItrModulus - 1)
    BY <2>1, ItrOK DEF TypeInv, TypeOK
  <2> QED
    BY <1>0, <2>1, <2>2, <2>3, <2>4, <2>5
    DEF TypeInv, TypeOK, Control, Phase, inputs, summary
<1>6. CASE EncodeRoundThrows
  <2>1. /\ phase = "round" /\ Unsupported
        /\ usedOps' = IF p.sig = "argtype" THEN usedOps
                      ELSE usedOps \cup EncodingFlags(Body(p), Head(queue), opt)
    BY <1>6 DEF EncodeRoundThrows
  <2>2. usedOps' \subseteq Flag
    BY <1>0, <2>1, ProgramTypes, EncodingFlagsType
  <2> QED
    BY <1>0, <2>1, <2>2, UnsupportedType
<1>7. CASE CheckUB
  <2>1. phase = "ub" /\ Solve({}, p.ub, UB, RetOrMore)
    BY <1>7 DEF CheckUB
  <2>2. fn \in Fns /\ p.ub \in Need /\ UB \in Code
    BY <1>0, <2>1, ProgramTypes DEF Code
  <2>3. RetOrMore => CheckFollows
    BY <2>2, RetOrMoreFollows
  <2> QED
    BY <2>1, <2>2, <2>3, SolveType
<1>8. CASE CheckRet
  <2> DEFINE passed == IF idx < Len(p.rets) THEN GoTo("ret", idx + 1) ELSE MemOrDone
  <2>1. phase = "ret" /\ Solve({}, p.rets[idx], RETVALUE, passed)
    BY <1>8 DEF CheckRet
  <2>2. /\ fn \in Fns /\ idx \in DOMAIN p.rets /\ p.rets \in Seq(Need)
        /\ p.rets[idx] \in Need /\ RETVALUE \in Code
    BY <1>0, <2>1, ProgramTypes DEF Code, TypeInv, Control
  <2>3. passed => CheckFollows
    <3>1. ASSUME idx < Len(p.rets), GoTo("ret", idx + 1) PROVE CheckFollows
      <4>1. idx + 1 \in DOMAIN p.rets /\ idx + 1 \in Nat
        BY <2>2, <3>1, LenProperties
      <4> QED
        BY <3>1, <4>1, <1>0 DEF GoTo, CheckFollows
    <3> QED
      BY <2>2, <3>1, MemOrDoneFollows
  <2> HIDE DEF passed
  <2> QED
    BY <2>1, <2>2, <2>3, SolveType
<1>9. CASE CheckMem
  <2> DEFINE passed == IF idx < Len(p.mems) THEN GoTo("mem", idx + 1)
                       ELSE Conclude(SUCCESS)
  <2>1. phase = "mem" /\ Solve(MemSolver, p.mems[idx], RETVALUE, passed)
    BY <1>9 DEF CheckMem
  <2>2. /\ fn \in Fns /\ idx \in DOMAIN p.mems /\ p.mems \in Seq(Need)
        /\ p.mems[idx] \in Need /\ RETVALUE \in Code /\ SUCCESS \in Code
    BY <1>0, <2>1, ProgramTypes DEF Code, TypeInv, Control
  <2>3. passed => CheckFollows
    <3>1. ASSUME idx < Len(p.mems), GoTo("mem", idx + 1) PROVE CheckFollows
      <4>1. idx + 1 \in DOMAIN p.mems /\ idx + 1 \in Nat
        BY <2>2, <3>1, LenProperties
      <4> QED
        BY <3>1, <4>1, <1>0 DEF GoTo, CheckFollows
    <3> QED
      BY <2>2, <3>1, ConcludeFollows
  <2>4. MemSolver \in SUBSET Need
    BY <1>0 DEF MemSolver
  <2> HIDE DEF passed
  <2> QED
    BY <2>1, <2>2, <2>3, <2>4, SolveType
<1>10. CASE ReturnInconsistent
  <2>1. /\ phase = "judge" /\ Return(INCONSISTENT)
        /\ UNCHANGED <<usedOps, line>>
    BY <1>10 DEF ReturnInconsistent
  <2>2. INCONSISTENT \in Code
    BY DEF Code
  <2> QED
    BY <1>0, <2>1, <2>2, ReturnType
<1>11. CASE RefineAbs
  <2>1. /\ phase = "judge" /\ phase' = "round"
        /\ queue' = Append(queue, NextAbs(abs, usedOps, opt))
        /\ UNCHANGED <<inputs, fn, abs, rounds, result, idx, asserted, global,
                       summary, line, contradicted>>
    BY <1>11 DEF RefineAbs
  <2>2. queue' \in Seq(Abstraction) /\ queue' # <<>>
    BY <1>0, <2>1, NextAbsType, AppendProperties DEF TypeInv, TypeOK
  <2> QED
    BY <1>0, <2>1, <2>2
    DEF TypeInv, TypeOK, Control, Phase, inputs, global, summary
<1>12. CASE GiveUp
  <2>1. phase = "judge" /\ Return(result) /\ UNCHANGED <<usedOps, line>>
    BY <1>12 DEF GiveUp
  <2> QED
    BY <1>0, <2>1, ReturnType
<1>13. CASE EncodeSrc
  <2>1. /\ phase = "judge" /\ phase' = "alwaysub" /\ asserted' = {}
        /\ usedOps' = usedOps \cup EncodingFlags(p.src, ConcreteAbs(opt), opt)
        /\ fpEnc' = EncAfterSet
        /\ UNCHANGED <<inputs, fn, loop, result, idx, summary, line, contradicted>>
    BY <1>13 DEF EncodeSrc
  <2>2. usedOps' \subseteq Flag
    BY <1>0, <2>1, ProgramTypes, EncodingFlagsType
  <2>3. fpEnc' \in {"none", "fresh", "pinned"}
    BY <2>1 DEF EncAfterSet
  <2> QED
    BY <1>0, <2>1, <2>2, <2>3
    DEF TypeInv, TypeOK, Control, Phase, inputs, loop, summary
<1>14. CASE EncodeSrcThrows
  <2>1. /\ phase = "judge" /\ Unsupported
        /\ usedOps' = usedOps \cup EncodingFlags(p.src, ConcreteAbs(opt), opt)
    BY <1>14 DEF EncodeSrcThrows
  <2>2. usedOps' \subseteq Flag
    BY <1>0, <2>1, ProgramTypes, EncodingFlagsType
  <2> QED
    BY <1>0, <2>1, <2>2, UnsupportedType
<1>15. CASE CheckAlwaysUB
  <2>1. /\ phase = "alwaysub" /\ Return(result) /\ UNCHANGED usedOps
    BY <1>15 DEF CheckAlwaysUB
  <2>2. line' \in [Fns -> Line]
    BY <1>0, <1>15, <2>1 DEF CheckAlwaysUB, Line, HasSat, HasUnsat, IsInconsistent
  <2> QED
    BY <1>0, <2>1, <2>2, ReturnType
<1>16. CASE UNCHANGED vars
  BY <1>16 DEF TypeInv, TypeOK, Control, vars, inputs, loop, global, summary, p
<1> QED
  BY <1>1, <1>2, <1>3, <1>4, <1>5, <1>6, <1>7, <1>8, <1>9, <1>10, <1>11, <1>12,
     <1>13, <1>14, <1>15, <1>16 DEF Next

\* The state of the validator always has its type, and control only ever
\* looks at a function, a queued abstraction and an obligation that exist.
THEOREM TypeCorrect == Spec => []TypeOK
<1>1. TypeInv => TypeOK
  BY DEF TypeInv
<1> QED
  BY <1>1, InitTypeInv, NextTypeInv, PTL DEF Spec

-----------------------------------------------------------------------------
(***************************************************************************)
(* The refinement of levels.                                               *)
(***************************************************************************)
MoreConcrete(a, b) == Refined(a) \subseteq Refined(b) /\ Refined(a) # Refined(b)

\* What comes next is strictly more concrete.
LEMMA NextMoreConcrete ==
  ASSUME NEW a \in Abstraction, NEW used, NEW o, HasNextAbs(a, used, o)
  PROVE  MoreConcrete(a, NextAbs(a, used, o))
<1> DEFINE b == NextAbs(a, used, o)
<1>1. /\ a.fpDot = "SUM_MUL" => b.fpDot = "SUM_MUL"
      /\ a.fpCast = "PRECISE" => b.fpCast = "PRECISE"
      /\ a.intDot = "SUM_MUL" => b.intDot = "SUM_MUL"
      /\ a.fpAddSum = "UNROLL_TO_ADD" => b.fpAddSum = "UNROLL_TO_ADD"
  BY DEF NextAbs, Abstraction
<1>2. \/ a.fpDot # "SUM_MUL" /\ b.fpDot = "SUM_MUL"
      \/ a.fpCast # "PRECISE" /\ b.fpCast = "PRECISE"
      \/ a.intDot # "SUM_MUL" /\ b.intDot = "SUM_MUL"
      \/ a.fpAddSum # "UNROLL_TO_ADD" /\ b.fpAddSum = "UNROLL_TO_ADD"
  BY DEF HasNextAbs, IsChanged, RefinesFpDot, RefinesFpCast, RefinesIntDot,
     RefinesAddSum, NextAbs, Abstraction
<1> HIDE DEF b
<1>3. \A c : /\ "fpDot" \in Refined(c) <=> c.fpDot = "SUM_MUL"
             /\ "fpCast" \in Refined(c) <=> c.fpCast = "PRECISE"
             /\ "intDot" \in Refined(c) <=> c.intDot = "SUM_MUL"
             /\ "fpAddSum" \in Refined(c) <=> c.fpAddSum = "UNROLL_TO_ADD"
             /\ Refined(c) \subseteq {"fpDot", "fpCast", "intDot", "fpAddSum"}
  BY DEF Refined, Knob
<1>4. Refined(a) \subseteq Refined(b)
  BY <1>1, <1>3
<1>5. Refined(a) # Refined(b)
  BY <1>2, <1>3
<1> QED
  BY <1>4, <1>5 DEF b, MoreConcrete

\* All dot and cast levels that apply are refined at once, so none is left.
LEMMA NextSettles ==
  ASSUME NEW a \in Abstraction, NEW used, NEW o
  PROVE  ~IsChanged(NextAbs(a, used, o), used, o)
BY DEF IsChanged, RefinesFpDot, RefinesFpCast, RefinesIntDot, NextAbs, Abstraction

\* Every operation has been recorded as an encoding without any refinement
\* records it.
Recorded(ops, used, o) ==
  \A i \in DOMAIN ops : OpFlags(ops[i], InitialAbs(o), o) \subseteq used

\* An encoding that goes through records every operation.
LEMMA EncodingRecords ==
  ASSUME NEW ops \in Seq(Op), NEW o, ~EncodingThrows(ops, InitialAbs(o), o)
  PROVE  Recorded(ops, EncodingFlags(ops, InitialAbs(o), o), o)
<1> SUFFICES ASSUME NEW i \in DOMAIN ops
             PROVE  OpFlags(ops[i], InitialAbs(o), o)
                      \subseteq EncodingFlags(ops, InitialAbs(o), o)
  BY DEF Recorded
<1>1. \A k \in 1..i : k \in DOMAIN ops
  BY LenProperties
<1>2. \A k \in 1..i : ~Throws(ops[k], InitialAbs(o), o)
  BY <1>1 DEF EncodingThrows
<1> QED
  BY <1>2 DEF EncodingFlags

\* A flag that an operation records although its level is not refined is
\* recorded by the first round already.
LEMMA FlagsOfAbstractLevels ==
  ASSUME NEW op \in Op, NEW a \in Abstraction, NEW o
  PROVE  /\ a.fpDot = "FULLY_ABS" /\ "fpDot" \in OpFlags(op, a, o)
              => "fpDot" \in OpFlags(op, InitialAbs(o), o)
         /\ "fpCastRound" \in OpFlags(op, a, o)
              => "fpCastRound" \in OpFlags(op, InitialAbs(o), o)
         /\ a.intDot = "FULLY_ABS" /\ "intDot" \in OpFlags(op, a, o)
              => "intDot" \in OpFlags(op, InitialAbs(o), o)
         /\ a.intDot = "FULLY_ABS" /\ "intSum" \in OpFlags(op, a, o)
              => "intSum" \in OpFlags(op, InitialAbs(o), o)
<1> DEFINE i == InitialAbs(o)
<1>0. op.kind \in FpKinds \cup IntKinds \cup {"unknown"}
  BY DEF Op
<1>i. i.fpDot = "FULLY_ABS" /\ i.intDot = "FULLY_ABS"
  BY DEF InitialAbs
<1> HIDE DEF i
<1>1. CASE op.kind = "fpAdd"
  BY <1>1 DEF OpFlags, FpAddFlags
<1>2. CASE op.kind = "fpSum"
  BY <1>2 DEF OpFlags, FpSumFlags
<1>3. CASE op.kind = "fpDot"
  BY <1>3, <1>i DEF OpFlags, FpDotFlags, FpSumFlags, i
<1>4. CASE op.kind = "fpCast"
  BY <1>4 DEF OpFlags
<1>5. CASE op.kind = "intSum"
  BY <1>5 DEF OpFlags, IntSumFlags
<1>6. CASE op.kind = "intDot"
  BY <1>6, <1>i DEF OpFlags, IntDotFlags, IntSumFlags, i
<1>7. CASE op.kind = "unknown"
  BY <1>7 DEF OpFlags
<1> QED
  BY <1>0, <1>1, <1>2, <1>3, <1>4, <1>5, <1>6, <1>7 DEF FpKinds, IntKinds

\* Once no dot or cast level is left to refine, encoding again records
\* nothing that would change this.
LEMMA SettledStays ==
  ASSUME NEW ops \in Seq(Op), NEW a \in Abstraction, NEW used, NEW o,
         Recorded(ops, used, o), ~IsChanged(a, used, o)
  PROVE  ~IsChanged(a, used \cup EncodingFlags(ops, a, o), o)
<1> DEFINE new == EncodingFlags(ops, a, o)
<1>1. \A f \in new : \E i \in DOMAIN ops : f \in OpFlags(ops[i], a, o)
  BY DEF EncodingFlags
<1>2. \A i \in DOMAIN ops : ops[i] \in Op
  OBVIOUS
<1> HIDE DEF new
<1>3. a.fpDot = "FULLY_ABS" /\ "fpDot" \in new => "fpDot" \in used
  BY <1>1, <1>2, FlagsOfAbstractLevels DEF Recorded
<1>4. "fpCastRound" \in new => "fpCastRound" \in used
  BY <1>1, <1>2, FlagsOfAbstractLevels DEF Recorded
<1>5. a.intDot = "FULLY_ABS" =>
        /\ "intDot" \in new => "intDot" \in used
        /\ "intSum" \in new => "intSum" \in used
  BY <1>1, <1>2, FlagsOfAbstractLevels DEF Recorded
<1>6. ~IsChanged(a, used \cup new, o)
  BY <1>3, <1>4, <1>5 DEF IsChanged, RefinesFpDot, RefinesFpCast, RefinesIntDot
<1> QED
  BY <1>6 DEF new

-----------------------------------------------------------------------------
(***************************************************************************)
(* The strengthening: the queue holds one abstraction while a round is due *)
(* and none otherwise; a second round has every dot and cast level that    *)
(* matters, a third one unrolls sums too.                                  *)
(***************************************************************************)
Settled(a) == ~IsChanged(a, usedOps, opt)

Due(a) ==
  \/ rounds = 0 /\ a = InitialAbs(opt)
  \/ /\ rounds \in {1, 2}
     /\ Recorded(Body(p), usedOps, opt)
     /\ Settled(a)
     /\ rounds = 2 => a.fpAddSum = "UNROLL_TO_ADD"
     /\ MoreConcrete(abs, a)

Tried ==
  /\ rounds \in 1..3
  /\ Recorded(Body(p), usedOps, opt)
  /\ rounds >= 2 => Settled(abs)
  /\ rounds = 3 => abs.fpAddSum = "UNROLL_TO_ADD"

LoopInv ==
  /\ phase # "round" => queue = <<>>
  /\ phase \in {"functions", "exit"} => rounds = 0
  /\ phase = "round" => \E a \in Abstraction : queue = <<a>> /\ Due(a)
  /\ phase \in {"ub", "ret", "mem", "judge"} => Tried
  /\ phase = "alwaysub" => rounds \in 1..3

\* The queue is empty at first, and no round was started.
LEMMA InitLoop == Init => LoopInv
BY DEF Init, LoopInv

\* Leaving a function empties the queue.
LEMMA NextFunctionLoop ==
  ASSUME NEW v, NextFunction(v)
  PROVE  LoopInv'
BY DEF NextFunction, LoopInv

\* The abstraction refined after a round is due.
LEMMA RefinedIsDue ==
  ASSUME TypeInv, phase = "judge", Tried, HasNextAbs(abs, usedOps, opt)
  PROVE  Due(NextAbs(abs, usedOps, opt))
<1> DEFINE a == NextAbs(abs, usedOps, opt)
<1>1. abs \in Abstraction
  BY DEF TypeInv, TypeOK
<1>2. Settled(a) /\ MoreConcrete(abs, a)
  BY <1>1, NextSettles, NextMoreConcrete DEF Settled
<1>3. rounds >= 2 => RefinesAddSum(abs, usedOps, opt)
  BY DEF Tried, Settled, HasNextAbs
<1>4. rounds >= 2 => a.fpAddSum = "UNROLL_TO_ADD"
  BY <1>3 DEF NextAbs
<1>5. rounds # 3
  BY <1>3 DEF Tried, RefinesAddSum
<1> HIDE DEF a
<1>6. Due(a)
  BY <1>2, <1>4, <1>5 DEF Due, Tried
<1> QED
  BY <1>6 DEF a

\* A round that starts tries the abstraction that was due.
LEMMA RoundTries ==
  ASSUME TypeInv, LoopInv, EncodeRound
  PROVE  /\ Tried' /\ queue' = <<>>
         /\ rounds > 0 => MoreConcrete(abs, abs')
<1>1. PICK a \in Abstraction : queue = <<a>> /\ Due(a)
  BY DEF EncodeRound, LoopInv
<1>2. /\ abs' = a /\ queue' = <<>> /\ rounds' = rounds + 1
      /\ usedOps' = usedOps \cup EncodingFlags(Body(p), a, opt)
      /\ ~EncodingThrows(Body(p), a, opt)
      /\ p' = p /\ opt' = opt
  <2>1. rounds \in 0..2
    BY <1>1 DEF Due
  <2>2. (rounds + 1) % ItrModulus = rounds + 1
    BY <2>1, ItrOK
  <2> QED BY <1>1, <2>2 DEF EncodeRound, Encodes, inputs, p
<1>3. Body(p) \in Seq(Op)
  BY CurrentProgram, ProgramTypes DEF TypeInv, Control, EncodeRound
<1>4. CASE rounds = 0
  <2>1. a = InitialAbs(opt)
    BY <1>1, <1>4 DEF Due
  <2>2. Recorded(Body(p), EncodingFlags(Body(p), a, opt), opt)
    BY <1>2, <1>3, <2>1, EncodingRecords
  <2>3. Recorded(Body(p), usedOps', opt)
    BY <1>2, <2>2 DEF Recorded
  <2>4. Recorded(Body(p'), usedOps', opt')
    BY <1>2, <2>3
  <2> QED
    BY <1>2, <1>4, <2>4 DEF Tried
<1>5. CASE rounds # 0
  <2>1. /\ rounds \in {1, 2} /\ Recorded(Body(p), usedOps, opt) /\ Settled(a)
        /\ rounds = 2 => a.fpAddSum = "UNROLL_TO_ADD"
        /\ MoreConcrete(abs, a)
    BY <1>1, <1>5 DEF Due
  <2>2. ~IsChanged(a, usedOps', opt)
    BY <1>2, <1>3, <2>1, SettledStays DEF Settled
  <2>3. Recorded(Body(p), usedOps', opt)
    BY <1>2, <2>1 DEF Recorded
  <2>4. Recorded(Body(p'), usedOps', opt') /\ ~IsChanged(abs', usedOps', opt')
    BY <1>2, <2>2, <2>3
  <2> QED
    BY <1>2, <2>1, <2>4 DEF Tried, Settled
<1> QED
  BY <1>4, <1>5

\* A query leaves the loop as it is.
LEMMA SolveLoop ==
  ASSUME TypeInv, LoopInv, phase \in {"ub", "ret", "mem"},
         NEW solver, NEW need, NEW bad, NEW ACTION passed,
         passed => phase' \in {"ret", "mem", "judge"},
         Solve(solver, need, bad, passed)
  PROVE  LoopInv'
<1>1. phase' \in {"ret", "mem", "judge"}
  BY DEF Solve, Conclusion, Conclude
<1>2. UNCHANGED <<opt, queue, abs, rounds, usedOps>> /\ p' = p
  BY DEF Solve, inputs, loop, p
<1>3. Tried
  BY DEF LoopInv
<1>4. Tried'
  BY <1>2, <1>3 DEF Tried, Settled
<1> QED
  BY <1>1, <1>2, <1>4 DEF LoopInv

-----------------------------------------------------------------------------
\* What OnlyMoreConcrete says of a step.
MoreConcreteStep ==
  rounds' = rounds + 1 /\ rounds > 0
    => Refined(abs) \subseteq Refined(abs') /\ Refined(abs) # Refined(abs')

\* Every action keeps the strengthening, and only a round changes what is
\* tried.
LEMMA NextLoop == TypeInv /\ LoopInv /\ [Next]_vars => LoopInv' /\ MoreConcreteStep
<1> SUFFICES ASSUME TypeInv, LoopInv, [Next]_vars PROVE LoopInv' /\ MoreConcreteStep
  OBVIOUS
<1>0. /\ rounds \in Nat /\ abs \in Abstraction /\ opt \in Option
      /\ phase = "judge" => queue = <<>> /\ Tried
  BY ItrOK DEF TypeInv, TypeOK, LoopInv
<1>a. ASSUME NEW v, NextFunction(v) PROVE LoopInv' /\ MoreConcreteStep
  <2>1. rounds' = 0
    BY <1>a DEF NextFunction
  <2> QED
    BY <1>0, <1>a, <2>1, NextFunctionLoop DEF MoreConcreteStep
<1>b. ASSUME rounds' = rounds PROVE MoreConcreteStep
  BY <1>0, <1>b DEF MoreConcreteStep
<1>1. CASE SkipFunction
  BY <1>1, <1>a DEF SkipFunction
<1>2. CASE RejectFunction
  BY <1>2, <1>a DEF RejectFunction, Unsupported
<1>3. CASE StartFunction
  <2>1. /\ phase' = "round" /\ queue' = <<InitialAbs(opt)>> /\ rounds' = 0
        /\ rounds = 0 /\ opt' = opt
    BY <1>3 DEF StartFunction, LoopInv, inputs
  <2>2. InitialAbs(opt) \in Abstraction /\ Due(InitialAbs(opt))'
    BY <1>0, <2>1, InitialAbsType DEF Due
  <2> QED
    BY <1>b, <2>1, <2>2 DEF LoopInv
<1>4. CASE Exit
  <2>1. phase = "functions" /\ phase' = "exit" /\ UNCHANGED <<queue, rounds>>
    BY <1>4 DEF Exit, loop
  <2> QED
    BY <1>b, <2>1 DEF LoopInv
<1>5. CASE EncodeRound
  <2>1. /\ Tried' /\ queue' = <<>> /\ phase' = "ub"
        /\ rounds > 0 => MoreConcrete(abs, abs')
    BY <1>5, RoundTries DEF EncodeRound
  <2> QED
    BY <2>1 DEF LoopInv, MoreConcreteStep, MoreConcrete
<1>6. CASE EncodeRoundThrows
  BY <1>6, <1>a DEF EncodeRoundThrows, Unsupported
<1>7. CASE CheckUB
  <2>1. phase = "ub" /\ Solve({}, p.ub, UB, RetOrMore)
    BY <1>7 DEF CheckUB
  <2>2. RetOrMore => phase' \in {"ret", "mem", "judge"}
    BY DEF RetOrMore, MemOrDone, GoTo, Conclude
  <2>3. rounds' = rounds
    BY <2>1 DEF Solve, loop
  <2> QED
    BY <1>b, <2>1, <2>2, <2>3, SolveLoop
<1>8. CASE CheckRet
  <2> DEFINE passed == IF idx < Len(p.rets) THEN GoTo("ret", idx + 1) ELSE MemOrDone
  <2>1. phase = "ret" /\ Solve({}, p.rets[idx], RETVALUE, passed)
    BY <1>8 DEF CheckRet
  <2>2. passed => phase' \in {"ret", "mem", "judge"}
    BY DEF MemOrDone, GoTo, Conclude
  <2> HIDE DEF passed
  <2>3. rounds' = rounds
    BY <2>1 DEF Solve, loop
  <2> QED
    BY <1>b, <2>1, <2>2, <2>3, SolveLoop
<1>9. CASE CheckMem
  <2> DEFINE passed == IF idx < Len(p.mems) THEN GoTo("mem", idx + 1)
                       ELSE Conclude(SUCCESS)
  <2>1. phase = "mem" /\ Solve(MemSolver, p.mems[idx], RETVALUE, passed)
    BY <1>9 DEF CheckMem
  <2>2. passed => phase' \in {"ret", "mem", "judge"}
    BY DEF GoTo, Conclude
  <2> HIDE DEF passed
  <2>3. rounds' = rounds
    BY <2>1 DEF Solve, loop
  <2> QED
    BY <1>b, <2>1, <2>2, <2>3, SolveLoop
<1>10. CASE ReturnInconsistent
  BY <1>10, <1>a DEF ReturnInconsistent, Return
<1>11. CASE RefineAbs
  <2>1. PICK a \in Abstraction : a = NextAbs(abs, usedOps, opt)
    BY <1>0, NextAbsType
  <2>2. /\ phase = "judge" /\ HasNextAbs(abs, usedOps, opt)
        /\ queue' = Append(queue, a) /\ phase' = "round"
        /\ UNCHANGED <<opt, abs, rounds, usedOps>> /\ p' = p
    BY <1>11, <2>1 DEF RefineAbs, inputs, global, p
  <2>3. Due(a)
    BY <1>0, <2>1, <2>2, RefinedIsDue
  <2>4. queue' = <<a>>
    BY <1>0, <2>2
  <2>5. Due(a)'
    BY <2>2, <2>3 DEF Due, Settled
  <2>6. LoopInv'
    BY <2>2, <2>4, <2>5 DEF LoopInv
  <2> QED
    BY <1>b, <2>2, <2>6
<1>12. CASE GiveUp
  BY <1>12, <1>a DEF GiveUp, Return
<1>13. CASE EncodeSrc
  <2>1. phase = "judge" /\ phase' = "alwaysub" /\ UNCHANGED <<queue, rounds>>
    BY <1>13 DEF EncodeSrc, loop
  <2>2. LoopInv'
    BY <1>0, <2>1 DEF LoopInv, Tried
  <2> QED
    BY <1>b, <2>1, <2>2
<1>14. CASE EncodeSrcThrows
  BY <1>14, <1>a DEF EncodeSrcThrows, Unsupported
<1>15. CASE CheckAlwaysUB
  BY <1>15, <1>a DEF CheckAlwaysUB, Return
<1>16. CASE UNCHANGED vars
  <2>1. UNCHANGED <<opt, phase, queue, abs, rounds, usedOps>> /\ p' = p
    BY <1>16 DEF vars, inputs, loop, global, p
  <2>2. \A a : Due(a)' <=> Due(a)
    BY <2>1 DEF Due, Settled
  <2>3. Tried' <=> Tried
    BY <2>1 DEF Tried, Settled
  <2> QED
    BY <1>b, <2>1, <2>2, <2>3 DEF LoopInv
<1> QED
  BY <1>1, <1>2, <1>3, <1>4, <1>5, <1>6, <1>7, <1>8, <1>9, <1>10, <1>11, <1>12,
     <1>13, <1>14, <1>15, <1>16 DEF Next

\* The invariant both theorems rest on.
LEMMA LoopHolds == Spec => [](TypeInv /\ LoopInv)
<1>1. Init => TypeInv /\ LoopInv
  BY InitTypeInv, InitLoop
<1>2. TypeInv /\ LoopInv /\ [Next]_vars => TypeInv' /\ LoopInv'
  BY NextTypeInv, NextLoop
<1> QED
  BY <1>1, <1>2, PTL DEF Spec

\* A function is encoded under at most three abstractions, whatever flags
\* earlier functions have left in usedOps.
THEOREM ThreeRounds == Spec => []AtMostThreeRounds
<1>1. TypeInv /\ LoopInv => AtMostThreeRounds
  BY DEF TypeInv, TypeOK, Phase, LoopInv, Due, Tried, AtMostThreeRounds
<1> QED
  BY <1>1, LoopHolds, PTL

\* Each further round is strictly more concrete than the one before.
THEOREM RoundsRefine == Spec => OnlyMoreConcrete
<1>1. TypeInv /\ LoopInv /\ [Next]_vars => [MoreConcreteStep]_vars
  BY NextLoop
<1>2. OnlyMoreConcrete <=> [][MoreConcreteStep]_vars
  BY PTL DEF OnlyMoreConcrete, MoreConcreteStep
<1> QED
  BY <1>1, <1>2, LoopHolds, PTL DEF Spec


-----------------------------------------------------------------------------
(***************************************************************************)
(* The strengthening: an obligation checkRefinement has gone past holds.   *)
(***************************************************************************)
Judged == phase \in {"judge", "alwaysub"} /\ result = SUCCESS

PassedUB ==
  phase \in {"ret", "mem"} \/ Judged => ~V!Wrong(p.ub)

PassedRets ==
  \A i \in DOMAIN p.rets :
    (phase = "ret" /\ i < idx) \/ phase = "mem" \/ Judged => ~V!Wrong(p.rets[i])

PassedMems ==
  1 \in DOMAIN p.mems /\ ((phase = "mem" /\ idx # 1) \/ Judged)
    => ~V!Wrong(p.mems[1])

Passed == PassedUB /\ PassedRets /\ PassedMems

SoundInv == SoundReports /\ Passed

\* Nothing is reported and nothing is passed at first.
LEMMA InitSound == Init => SoundInv
<1> SUFFICES ASSUME Init PROVE SoundInv
  OBVIOUS
<1>1. phase = "functions" /\ verdict = [f \in Fns |-> PENDING]
  BY DEF Init
<1>2. SoundReports
  BY <1>1 DEF SoundReports, PENDING, SUCCESS
<1> QED
  BY <1>1, <1>2 DEF SoundInv, Passed, PassedUB, PassedRets, PassedMems, Judged

-----------------------------------------------------------------------------
(***************************************************************************)
(* What one query tells.                                                   *)
(***************************************************************************)

\* No abstraction proves a wrong obligation: abstracting only loses proofs.
LEMMA AbstractionSound ==
  ASSUME NEW n, NEW a, Provable(n, a)
  PROVE  ~V!Wrong(n)
BY DEF Provable, Refined, Knob, V!Wrong

\* An honest solver that answers unsat to a fresh Solver object has proved
\* the obligation asserted in it.
LEMMA UnsatProves ==
  ASSUME Honest(opt), NEW n, NEW a, NEW r \in Answers(Truth({n}, a)), HasUnsat(r)
  PROVE  ~V!Wrong(n)
<1>1. PICK b \in opt.solvers : r[b] = "unsat"
  BY DEF HasUnsat
<1>2. Truth({n}, a) = "unsat"
  BY <1>1 DEF Answers, Honest
<1>3. Provable(n, a)
  BY <1>2 DEF Truth
<1> QED
  BY <1>3, AbstractionSound

\* One query of checkRefinement either gives up with a code that is no success
\* or goes on; it goes on from a fresh Solver only if its obligation holds.
LEMMA SolvePasses ==
  ASSUME Honest(opt), NEW solver, NEW need, NEW bad, bad # SUCCESS,
         NEW ACTION passed, Solve(solver, need, bad, passed)
  PROVE  \/ passed /\ (solver = {} => ~V!Wrong(need))
         \/ \E c : c # SUCCESS /\ Conclude(c)
<1>1. PICK r \in Answers(Truth(solver \cup {need}, abs)) : Conclusion(r, bad, passed)
  BY DEF Solve
<1>2. \/ passed /\ HasUnsat(r)
      \/ \E c : c # SUCCESS /\ Conclude(c)
  BY <1>1 DEF Conclusion, SUCCESS, INCONSISTENT, TIMEOUT
<1>3. solver = {} /\ HasUnsat(r) => ~V!Wrong(need)
  <2> SUFFICES ASSUME solver = {}, HasUnsat(r) PROVE ~V!Wrong(need)
    OBVIOUS
  <2>1. solver \cup {need} = {need}
    OBVIOUS
  <2> QED
    BY <1>1, <2>1, UnsatProves
<1> QED
  BY <1>2, <1>3

\* A query changes neither the program nor the verdicts.
LEMMA SolveKeeps ==
  ASSUME NEW solver, NEW need, NEW bad, NEW ACTION passed,
         Solve(solver, need, bad, passed)
  PROVE  UNCHANGED <<prog, fn, verdict>> /\ p' = p
BY DEF Solve, inputs, summary, p

\* Giving up passes nothing.
LEMMA ConcludePasses ==
  ASSUME NEW c, c # SUCCESS, Conclude(c)
  PROVE  Passed'
BY DEF Conclude, Passed, PassedUB, PassedRets, PassedMems, Judged

\* Going on to the memory, or to the end, with everything before it proved.
LEMMA MemOrDonePasses ==
  ASSUME TypeInv, fn \in Fns, p' = p, MemOrDone, ~V!Wrong(p.ub),
         \A i \in DOMAIN p.rets : ~V!Wrong(p.rets[i])
  PROVE  Passed'
<1>1. p.mems \in Seq(Need)
  BY CurrentProgram, ProgramTypes DEF TypeInv
<1>2. PassedUB' /\ PassedRets'
  BY DEF PassedUB, PassedRets
<1>3. CASE p.mems = <<>>
  <2>1. 1 \notin DOMAIN p.mems
    BY <1>1, <1>3, EmptySeq, LenProperties
  <2> QED
    BY <1>2, <2>1 DEF Passed, PassedMems
<1>4. CASE p.mems # <<>>
  BY <1>2, <1>4 DEF MemOrDone, GoTo, Passed, PassedMems, Judged
<1> QED
  BY <1>3, <1>4

\* A step that leaves the function only reports a success if all is passed.
LEMMA NextFunctionSound ==
  ASSUME TypeInv, SoundInv, fn \in Fns, NEW v, NextFunction(v),
         v = SUCCESS => Judged
  PROVE  SoundInv'
<1>1. /\ verdict' = [verdict EXCEPT ![fn] = v] /\ phase' = "functions"
      /\ prog' = prog
  BY DEF NextFunction, inputs
<1>2. Passed'
  BY <1>1 DEF Passed, PassedUB, PassedRets, PassedMems, Judged
<1>3. Judged => \A n \in V!Checked(prog[fn]) : ~V!Wrong(n)
  BY DEF SoundInv, Passed, PassedUB, PassedRets, PassedMems, V!Checked, p
<1>4. ASSUME NEW f \in Fns, verdict'[f] = SUCCESS
      PROVE  \A n \in V!Checked(prog[f]) : ~V!Wrong(n)
  <2>1. CASE f = fn
    <3>1. verdict'[f] = v
      BY <1>1, <2>1 DEF TypeInv, TypeOK
    <3> QED
      BY <1>3, <1>4, <2>1, <3>1
  <2>2. CASE f # fn
    <3>1. verdict'[f] = verdict[f]
      BY <1>1, <2>2 DEF TypeInv, TypeOK
    <3> QED
      BY <1>4, <3>1 DEF SoundInv, SoundReports
  <2> QED
    BY <2>1, <2>2
<1>5. SoundReports'
  BY <1>1, <1>4 DEF SoundReports, V!Checked, V!Wrong
<1> QED
  BY <1>2, <1>5 DEF SoundInv

\* A step that reports nothing keeps the reported successes sound.
LEMMA NoReportSound ==
  ASSUME SoundReports, prog' = prog, verdict' = verdict
  PROVE  SoundReports'
BY DEF SoundReports, V!Checked, V!Wrong

-----------------------------------------------------------------------------
(***************************************************************************)
(* The inductive step, one step per action.                                *)
(***************************************************************************)

\* Every action keeps the strengthened soundness.
LEMMA NextSound ==
  ASSUME Honest(opt)
  PROVE  TypeInv /\ SoundInv /\ [Next]_vars => SoundInv'
<1> SUFFICES ASSUME TypeInv, SoundInv, [Next]_vars PROVE SoundInv'
  OBVIOUS
<1>0. /\ phase \notin {"functions", "exit"} => fn \in Fns
      /\ SoundReports /\ PassedUB /\ PassedRets /\ PassedMems
  BY DEF TypeInv, Control, SoundInv, Passed
<1>a. ASSUME Unsupported, fn \in Fns PROVE SoundInv'
  <2>1. NextFunction(UNSUPPORTED) /\ UNSUPPORTED # SUCCESS
    BY <1>a DEF Unsupported, UNSUPPORTED, SUCCESS
  <2> QED
    BY <1>a, <2>1, NextFunctionSound
<1>b. ASSUME NEW c, c = SUCCESS => Judged, Return(c), fn \in Fns PROVE SoundInv'
  <2>1. NextFunction(c)
    BY <1>b DEF Return
  <2> QED
    BY <1>b, <2>1, NextFunctionSound
<1>1. CASE SkipFunction
  <2>1. fn \in Fns /\ NextFunction(SKIPPED) /\ SKIPPED # SUCCESS
    BY <1>1 DEF SkipFunction, SKIPPED, SUCCESS
  <2> QED
    BY <2>1, NextFunctionSound
<1>2. CASE RejectFunction
  BY <1>2, <1>a DEF RejectFunction
<1>3. CASE StartFunction
  <2>1. phase' = "round" /\ UNCHANGED <<prog, verdict>>
    BY <1>3 DEF StartFunction, inputs, summary
  <2> QED
    BY <1>0, <2>1, NoReportSound
    DEF SoundInv, Passed, PassedUB, PassedRets, PassedMems, Judged
<1>4. CASE Exit
  <2>1. phase' = "exit" /\ UNCHANGED <<prog, verdict>>
    BY <1>4 DEF Exit, inputs
  <2> QED
    BY <1>0, <2>1, NoReportSound
    DEF SoundInv, Passed, PassedUB, PassedRets, PassedMems, Judged
<1>5. CASE EncodeRound
  <2>1. phase' = "ub" /\ UNCHANGED <<prog, verdict>>
    BY <1>5 DEF EncodeRound, inputs, summary
  <2> QED
    BY <1>0, <2>1, NoReportSound
    DEF SoundInv, Passed, PassedUB, PassedRets, PassedMems, Judged
<1>6. CASE EncodeRoundThrows
  BY <1>0, <1>6, <1>a DEF EncodeRoundThrows
<1>7. CASE CheckUB
  <2>1. phase = "ub" /\ Solve({}, p.ub, UB, RetOrMore) /\ UB # SUCCESS
    BY <1>7 DEF CheckUB, UB, SUCCESS
  <2>2. \/ RetOrMore /\ ~V!Wrong(p.ub)
        \/ \E c : c # SUCCESS /\ Conclude(c)
    BY <2>1, SolvePasses
  <2>3. UNCHANGED <<prog, fn, verdict>> /\ p' = p
    BY <2>1, SolveKeeps
  <2>4. p.rets \in Seq(Need) /\ fn \in Fns
    BY <1>0, <2>1, CurrentProgram, ProgramTypes DEF TypeInv
  <2>5. ASSUME RetOrMore, ~V!Wrong(p.ub) PROVE Passed'
    <3>1. CASE p.rets = <<>>
      <4>1. \A i \in DOMAIN p.rets : ~V!Wrong(p.rets[i])
        BY <2>4, <3>1, EmptySeq, LenProperties
      <4> QED
        BY <2>3, <2>4, <2>5, <3>1, <4>1, MemOrDonePasses DEF RetOrMore
    <3>2. CASE p.rets # <<>>
      <4>1. phase' = "ret" /\ idx' = 1
        BY <2>5, <3>2 DEF RetOrMore, GoTo
      <4>2. \A i \in DOMAIN p.rets : ~(i < 1)
        BY <2>4, LenProperties
      <4> QED
        BY <2>3, <2>5, <4>1, <4>2
        DEF Passed, PassedUB, PassedRets, PassedMems, Judged
    <3> QED
      BY <3>1, <3>2
  <2>6. Passed'
    BY <2>2, <2>5, ConcludePasses
  <2> QED
    BY <1>0, <2>3, <2>6, NoReportSound DEF SoundInv
<1>8. CASE CheckRet
  <2> DEFINE passed == IF idx < Len(p.rets) THEN GoTo("ret", idx + 1) ELSE MemOrDone
  <2>1. phase = "ret" /\ Solve({}, p.rets[idx], RETVALUE, passed) /\ RETVALUE # SUCCESS
    BY <1>8 DEF CheckRet, RETVALUE, SUCCESS
  <2>2. \/ passed /\ ~V!Wrong(p.rets[idx])
        \/ \E c : c # SUCCESS /\ Conclude(c)
    <3> HIDE DEF passed
    <3> QED
      BY <2>1, SolvePasses
  <2>3. UNCHANGED <<prog, fn, verdict>> /\ p' = p
    <3> HIDE DEF passed
    <3> QED
      BY <2>1, SolveKeeps
  <2>4. p.rets \in Seq(Need) /\ fn \in Fns /\ idx \in DOMAIN p.rets
    BY <1>0, <2>1, CurrentProgram, ProgramTypes DEF TypeInv, Control
  <2>5. ~V!Wrong(p.ub) /\ \A i \in DOMAIN p.rets : i < idx => ~V!Wrong(p.rets[i])
    BY <1>0, <2>1 DEF PassedUB, PassedRets
  <2>6. DOMAIN p.rets = 1..Len(p.rets) /\ Len(p.rets) \in Nat
    BY <2>4, LenProperties
  <2>7. ASSUME passed, ~V!Wrong(p.rets[idx]) PROVE Passed'
    <3>1. CASE idx < Len(p.rets)
      <4>1. phase' = "ret" /\ idx' = idx + 1
        BY <2>7, <3>1 DEF GoTo
      <4>2. \A i \in DOMAIN p.rets : i < idx + 1 => ~V!Wrong(p.rets[i])
        <5> SUFFICES ASSUME NEW i \in DOMAIN p.rets, i < idx + 1
                     PROVE  ~V!Wrong(p.rets[i])
          OBVIOUS
        <5>1. i = idx \/ i < idx
          BY <2>4, <2>6
        <5> QED
          BY <2>5, <2>7, <5>1
      <4> QED
        BY <2>3, <2>5, <4>1, <4>2
        DEF Passed, PassedUB, PassedRets, PassedMems, Judged
    <3>2. CASE ~(idx < Len(p.rets))
      <4>1. \A i \in DOMAIN p.rets : ~V!Wrong(p.rets[i])
        <5> SUFFICES ASSUME NEW i \in DOMAIN p.rets PROVE ~V!Wrong(p.rets[i])
          OBVIOUS
        <5>1. i = idx \/ i < idx
          BY <2>4, <2>6, <3>2
        <5> QED
          BY <2>5, <2>7, <5>1
      <4> QED
        BY <2>3, <2>4, <2>5, <2>7, <3>2, <4>1, MemOrDonePasses
    <3> QED
      BY <3>1, <3>2
  <2>8. Passed'
    BY <2>2, <2>7, ConcludePasses
  <2> QED
    BY <1>0, <2>3, <2>8, NoReportSound DEF SoundInv
<1>9. CASE CheckMem
  <2> DEFINE passed == IF idx < Len(p.mems) THEN GoTo("mem", idx + 1)
                       ELSE Conclude(SUCCESS)
  <2>1. /\ phase = "mem" /\ Solve(MemSolver, p.mems[idx], RETVALUE, passed)
        /\ RETVALUE # SUCCESS
    BY <1>9 DEF CheckMem, RETVALUE, SUCCESS
  <2>2. \/ passed /\ (MemSolver = {} => ~V!Wrong(p.mems[idx]))
        \/ \E c : c # SUCCESS /\ Conclude(c)
    <3> HIDE DEF passed
    <3> QED
      BY <2>1, SolvePasses
  <2>3. UNCHANGED <<prog, fn, verdict>> /\ p' = p
    <3> HIDE DEF passed
    <3> QED
      BY <2>1, SolveKeeps
  <2>4. /\ ~V!Wrong(p.ub) /\ \A i \in DOMAIN p.rets : ~V!Wrong(p.rets[i])
        /\ 1 \in DOMAIN p.mems /\ idx # 1 => ~V!Wrong(p.mems[1])
    BY <1>0, <2>1 DEF PassedUB, PassedRets, PassedMems
  <2>5. ASSUME passed, MemSolver = {} => ~V!Wrong(p.mems[idx]) PROVE Passed'
    <3>1. 1 \in DOMAIN p.mems => ~V!Wrong(p.mems[1])
      BY <2>4, <2>5 DEF MemSolver
    <3> QED
      BY <2>3, <2>4, <3>1 DEF Passed, PassedUB, PassedRets, PassedMems
  <2>6. Passed'
    BY <2>2, <2>5, ConcludePasses
  <2> QED
    BY <1>0, <2>3, <2>6, NoReportSound DEF SoundInv
<1>10. CASE ReturnInconsistent
  <2>1. phase = "judge" /\ Return(INCONSISTENT) /\ INCONSISTENT # SUCCESS
    BY <1>10 DEF ReturnInconsistent, INCONSISTENT, SUCCESS
  <2> QED
    BY <1>0, <2>1, <1>b
<1>11. CASE RefineAbs
  <2>1. phase' = "round" /\ UNCHANGED <<prog, verdict>>
    BY <1>11 DEF RefineAbs, inputs, summary
  <2> QED
    BY <1>0, <2>1, NoReportSound
    DEF SoundInv, Passed, PassedUB, PassedRets, PassedMems, Judged
<1>12. CASE GiveUp
  <2>1. phase = "judge" /\ Return(result) /\ result # SUCCESS
    BY <1>12 DEF GiveUp, Failed
  <2> QED
    BY <1>0, <2>1, <1>b
<1>13. CASE EncodeSrc
  <2>1. /\ phase = "judge" /\ phase' = "alwaysub"
        /\ UNCHANGED <<prog, fn, result, verdict>>
    BY <1>13 DEF EncodeSrc, inputs, summary
  <2> QED
    BY <1>0, <2>1, NoReportSound
    DEF SoundInv, Passed, PassedUB, PassedRets, PassedMems, Judged, p
<1>14. CASE EncodeSrcThrows
  BY <1>0, <1>14, <1>a DEF EncodeSrcThrows
<1>15. CASE CheckAlwaysUB
  <2>1. phase = "alwaysub" /\ Return(result)
    BY <1>15 DEF CheckAlwaysUB
  <2> QED
    BY <1>0, <2>1, <1>b DEF Judged
<1>16. CASE UNCHANGED vars
  <2>1. UNCHANGED <<prog, fn, phase, result, idx, verdict>>
    BY <1>16 DEF vars, inputs, summary
  <2> QED
    BY <1>0, <2>1, NoReportSound
    DEF SoundInv, Passed, PassedUB, PassedRets, PassedMems, Judged, p
<1> QED
  BY <1>1, <1>2, <1>3, <1>4, <1>5, <1>6, <1>7, <1>8, <1>9, <1>10, <1>11, <1>12,
     <1>13, <1>14, <1>15, <1>16 DEF Next

\* The command line, and with it the solvers, and the program stay as they are.
LEMMA InputsStay ==
  ASSUME [Next]_vars
  PROVE  opt' = opt /\ prog' = prog
BY DEF Next, vars, inputs, NextFunction, Unsupported, Return, SkipFunction,
       RejectFunction, StartFunction, Exit, EncodeRound, EncodeRoundThrows, Solve,
       CheckUB, CheckRet, CheckMem, ReturnInconsistent, RefineAbs, GiveUp,
       EncodeSrc, EncodeSrcThrows, CheckAlwaysUB

-----------------------------------------------------------------------------
(***************************************************************************)
(* What is refined when the loop gives up.                                 *)
(***************************************************************************)

\* usedOps tells of every operation what its encoding under a records.
FlagsRecorded(ops, a, used, o) ==
  \A i \in DOMAIN ops : OpFlags(ops[i], a, o) \subseteq used

\* An encoding that goes through records every operation.
LEMMA EncodedFlags ==
  ASSUME NEW ops \in Seq(Op), NEW a, NEW o, NEW used, ~EncodingThrows(ops, a, o)
  PROVE  FlagsRecorded(ops, a, used \cup EncodingFlags(ops, a, o), o)
<1> SUFFICES ASSUME NEW i \in DOMAIN ops
             PROVE  OpFlags(ops[i], a, o) \subseteq EncodingFlags(ops, a, o)
  BY DEF FlagsRecorded
<1>1. \A k \in 1..i : k \in DOMAIN ops
  BY LenProperties
<1>2. \A k \in 1..i : ~Throws(ops[k], a, o)
  BY <1>1 DEF EncodingThrows
<1> QED
  BY <1>2 DEF EncodingFlags

\* Sums stand for additions under --associative only.
SumsOnly(a, o) == a.fpAddSum = "USE_SUM_ONLY" => o.assoc

\* If no more concrete abstraction is left after a round, this round's one
\* has refined every level that matters to a program but for integer dots.
LEMMA NothingLeft ==
  ASSUME NEW ops \in Seq(Op), NEW a \in Abstraction, NEW used, NEW o,
         FlagsRecorded(ops, a, used, o), SumsOnly(a, o), ~HasNextAbs(a, used, o)
  PROVE  Relevant(ops, o) \ {"intDot"} \subseteq Refined(a)
<1>0. ~IsChanged(a, used, o) /\ ~RefinesAddSum(a, used, o)
  BY DEF HasNextAbs
<1>1. ASSUME NEW i \in DOMAIN ops, ops[i].kind = "fpDot"
      PROVE  a.fpDot = "SUM_MUL"
  <2>1. a.fpDot = "FULLY_ABS" => OpFlags(ops[i], a, o) = {"fpDot"}
    BY <1>1 DEF OpFlags, FpDotFlags
  <2>2. a.fpDot = "FULLY_ABS" => "fpDot" \in used
    BY <2>1 DEF FlagsRecorded
  <2> QED
    BY <1>0, <2>2 DEF IsChanged, RefinesFpDot, Abstraction
<1>2. ASSUME NEW i \in DOMAIN ops, ops[i].kind = "fpCast"
      PROVE  a.fpCast = "PRECISE"
  <2>1. OpFlags(ops[i], a, o) = {"fpCastRound"}
    BY <1>2 DEF OpFlags
  <2> QED
    BY <1>0, <2>1 DEF FlagsRecorded, IsChanged, RefinesFpCast, Abstraction
<1>3. ASSUME NEW i \in DOMAIN ops, ops[i].kind \in {"fpSum", "fpDot"}, ~o.assoc
      PROVE  a.fpAddSum = "UNROLL_TO_ADD"
  <2>1. OpFlags(ops[i], a, o) = FpSumFlags(ops[i].len, a)
    <3>1. CASE ops[i].kind = "fpSum"
      BY <3>1 DEF OpFlags
    <3>2. CASE ops[i].kind = "fpDot"
      BY <1>1, <3>2 DEF OpFlags, FpDotFlags
    <3> QED
      BY <1>3, <3>1, <3>2
  <2>2. a.fpAddSum = "DEFAULT" => "fpSum" \in used
    BY <2>1 DEF FlagsRecorded, FpSumFlags
  <2> QED
    BY <1>0, <1>3, <2>2 DEF RefinesAddSum, SumsOnly, Abstraction
<1>4. /\ "fpDot" \in Refined(a) <=> a.fpDot = "SUM_MUL"
      /\ "fpCast" \in Refined(a) <=> a.fpCast = "PRECISE"
      /\ "fpAddSum" \in Refined(a) <=> a.fpAddSum = "UNROLL_TO_ADD"
  BY DEF Refined, Knob
<1> SUFFICES ASSUME NEW k \in Relevant(ops, o), k # "intDot" PROVE k \in Refined(a)
  OBVIOUS
<1>5. \/ k \in {"fpDot", "fpCast"} /\ \E i \in DOMAIN ops : ops[i].kind = k
      \/ /\ k = "fpAddSum" /\ ~o.assoc
         /\ \E i \in DOMAIN ops : ops[i].kind \in {"fpSum", "fpDot"}
  BY DEF Relevant
<1> QED
  BY <1>1, <1>2, <1>3, <1>4, <1>5

-----------------------------------------------------------------------------
(***************************************************************************)
(* The strengthening: what a counterexample refutes.                       *)
(***************************************************************************)

\* The round at hand has been encoded, and its operations are recorded.
RoundRecorded ==
  phase \in {"ub", "ret", "mem", "judge"} => FlagsRecorded(Body(p), abs, usedOps, opt)

AbsSumsOnly == SumsOnly(abs, opt) /\ \A i \in DOMAIN queue : SumsOnly(queue[i], opt)

\* checkRefinement stops at an obligation the abstraction does not prove, and
\* calls it undefined behaviour only if that is where it stops.
StopsAtUnproved ==
  /\ phase \in {"ret", "mem"} => Provable(p.ub, abs)
  /\ phase = "judge" =>
       /\ result # INCONSISTENT
       /\ result = UB => ~Provable(p.ub, abs)
       /\ result = RETVALUE =>
            \E n \in Obligations(p) \ {p.ub} : ~Provable(n, abs)
  /\ phase = "alwaysub" => result \in {SUCCESS, TIMEOUT}

RefutedReports ==
  \A f \in Fns :
    /\ verdict[f] = UB => V!Refuted(prog[f].ub, prog[f], opt)
    /\ verdict[f] = RETVALUE =>
         \E n \in Obligations(prog[f]) : V!Refuted(n, prog[f], opt)

AlarmInv == RoundRecorded /\ AbsSumsOnly /\ StopsAtUnproved /\ RefutedReports

\* Nothing is encoded or reported at first.
LEMMA InitAlarm == Init => AlarmInv
<1> SUFFICES ASSUME Init PROVE AlarmInv
  OBVIOUS
<1>1. /\ phase = "functions" /\ queue = <<>> /\ abs = InitialAbs(opt)
      /\ verdict = [f \in Fns |-> PENDING]
  BY DEF Init
<1>2. AbsSumsOnly
  BY <1>1, EmptySeq DEF AbsSumsOnly, SumsOnly, InitialAbs
<1>3. RefutedReports
  BY <1>1 DEF RefutedReports, PENDING, UB, RETVALUE
<1> QED
  BY <1>1, <1>2, <1>3 DEF AlarmInv, RoundRecorded, StopsAtUnproved

\* The specification of the verdicts sees programs as the validator does.
LEMMA SamePrograms ==
  ASSUME NEW q, NEW o, NEW ops, NEW a
  PROVE  /\ V!Body(q) = Body(q) /\ V!Obligations(q) = Obligations(q)
         /\ V!Relevant(ops, o) = Relevant(ops, o)
         /\ V!EncodingThrows(ops, a, o) = EncodingThrows(ops, a, o)
         /\ V!ConcreteAbs(o) = ConcreteAbs(o)
BY DEF V!Body, Body, V!Obligations, Obligations, V!Relevant, Relevant,
       V!EncodingThrows, EncodingThrows, V!Throws, Throws, V!ConcreteAbs, ConcreteAbs

\* An obligation that the last abstraction does not prove is refuted.
LEMMA UnprovedRefuted ==
  ASSUME TypeInv, AlarmInv, phase = "judge", ~HasNextAbs(abs, usedOps, opt),
         NEW n, ~Provable(n, abs)
  PROVE  V!Refuted(n, p, opt)
<1>1. Body(p) \in Seq(Op) /\ abs \in Abstraction
  BY CurrentProgram, ProgramTypes DEF TypeInv, TypeOK, Control
<1>2. FlagsRecorded(Body(p), abs, usedOps, opt) /\ SumsOnly(abs, opt)
  BY DEF AlarmInv, RoundRecorded, AbsSumsOnly
<1>3. Relevant(Body(p), opt) \ {"intDot"} \subseteq Refined(abs)
  BY <1>1, <1>2, NothingLeft
<1>4. V!Settled(p, opt) \subseteq Refined(abs)
  BY <1>3, SamePrograms DEF V!Settled
<1> QED
  BY <1>4 DEF Provable, V!Refuted

-----------------------------------------------------------------------------
(***************************************************************************)
(* One query again, and leaving a function.                                *)
(***************************************************************************)

\* An honest query proves its obligation, refutes it, or times out.
LEMMA SolveTells ==
  ASSUME Honest(opt), NEW solver, NEW need, NEW bad, NEW ACTION passed,
         Solve(solver, need, bad, passed)
  PROVE  \/ passed /\ (solver = {} => Provable(need, abs))
         \/ Conclude(bad) /\ ~Provable(need, abs)
         \/ Conclude(TIMEOUT)
<1>1. PICK r \in Answers(Truth(solver \cup {need}, abs)) : Conclusion(r, bad, passed)
  BY DEF Solve
<1>2. \A b \in opt.solvers : r[b] \in {Truth(solver \cup {need}, abs), "unknown"}
  BY <1>1 DEF Answers, Honest
<1>3. HasSat(r) => ~Provable(need, abs) /\ ~HasUnsat(r)
  BY <1>2 DEF HasSat, HasUnsat, Truth
<1>4. HasUnsat(r) /\ solver = {} => Provable(need, abs)
  BY <1>2 DEF HasUnsat, Truth
<1> QED
  BY <1>1, <1>3, <1>4 DEF Conclusion, IsInconsistent, IsUnknown

\* checkRefinement goes on with the encoding as it is, or is done.
GoesOn ==
  \/ phase' \in {"ret", "mem"}
  \/ phase' = "judge" /\ result' = SUCCESS

\* A query keeps the invariant, if undefined behaviour was or is proved and
\* its code fits its obligation.
LEMMA SolveAlarm ==
  ASSUME Honest(opt), TypeInv, AlarmInv, phase \in {"ub", "ret", "mem"},
         NEW solver, NEW need \in Obligations(p), NEW bad \in {UB, RETVALUE},
         NEW ACTION passed, passed => GoesOn,
         Solve(solver, need, bad, passed),
         \/ bad = UB /\ need = p.ub /\ solver = {}
         \/ bad = RETVALUE /\ Provable(p.ub, abs)
  PROVE  AlarmInv'
<1>1. UNCHANGED <<inputs, fn, loop, usedOps, summary>>
  BY DEF Solve
<1>2. /\ UNCHANGED <<opt, prog, abs, queue, usedOps, verdict>> /\ p' = p
  BY <1>1 DEF inputs, loop, summary, p
<1>3. \/ passed /\ (solver = {} => Provable(need, abs))
      \/ Conclude(bad) /\ ~Provable(need, abs)
      \/ Conclude(TIMEOUT)
  BY SolveTells
<1>4. phase' \in {"ret", "mem", "judge"}
  BY <1>3 DEF GoesOn, Conclude
<1>5. RoundRecorded'
  BY <1>2, <1>4 DEF AlarmInv, RoundRecorded, Body
<1>6. AbsSumsOnly' /\ RefutedReports'
  BY <1>2 DEF AlarmInv, AbsSumsOnly, RefutedReports
<1>7. StopsAtUnproved'
  <2>1. CASE passed /\ (solver = {} => Provable(need, abs))
    <3>1. Provable(p.ub, abs)
      BY <2>1
    <3> QED
      BY <1>2, <2>1, <3>1
      DEF GoesOn, StopsAtUnproved, SUCCESS, INCONSISTENT, UB, RETVALUE
  <2>2. CASE Conclude(bad) /\ ~Provable(need, abs)
    <3>1. bad = RETVALUE => need # p.ub
      BY <2>2 DEF RETVALUE, UB
    <3>2. bad = UB => need = p.ub
      BY DEF RETVALUE, UB
    <3> QED
      BY <1>2, <2>2, <3>1, <3>2
      DEF Conclude, StopsAtUnproved, INCONSISTENT, UB, RETVALUE
  <2>3. CASE Conclude(TIMEOUT)
    BY <2>3 DEF Conclude, StopsAtUnproved, INCONSISTENT, UB, RETVALUE, TIMEOUT
  <2> QED
    BY <1>3, <2>1, <2>2, <2>3
<1> QED
  BY <1>5, <1>6, <1>7 DEF AlarmInv

\* A step that leaves the function reports it wrong only if it is refuted.
LEMMA NextFunctionAlarm ==
  ASSUME TypeInv, AlarmInv, fn \in Fns, NEW v, NextFunction(v),
         v = UB => V!Refuted(p.ub, p, opt),
         v = RETVALUE => \E n \in Obligations(p) : V!Refuted(n, p, opt)
  PROVE  AlarmInv'
<1>1. /\ verdict' = [verdict EXCEPT ![fn] = v] /\ phase' = "functions"
      /\ queue' = <<>> /\ UNCHANGED <<opt, prog, abs>>
  BY DEF NextFunction, inputs
<1>2. AbsSumsOnly'
  BY <1>1, EmptySeq DEF AlarmInv, AbsSumsOnly
<1>3. RefutedReports'
  <2> SUFFICES ASSUME NEW f \in Fns
               PROVE  /\ verdict'[f] = UB => V!Refuted(prog[f].ub, prog[f], opt)
                      /\ verdict'[f] = RETVALUE =>
                           \E n \in Obligations(prog[f]) : V!Refuted(n, prog[f], opt)
    BY <1>1 DEF RefutedReports
  <2>1. CASE f = fn
    BY <1>1, <2>1 DEF TypeInv, TypeOK, p
  <2>2. CASE f # fn
    <3>1. verdict'[f] = verdict[f]
      BY <1>1, <2>2 DEF TypeInv, TypeOK
    <3> QED
      BY <3>1 DEF AlarmInv, RefutedReports
  <2> QED
    BY <2>1, <2>2
<1> QED
  BY <1>1, <1>2, <1>3 DEF AlarmInv, RoundRecorded, StopsAtUnproved

-----------------------------------------------------------------------------
(***************************************************************************)
(* The inductive step, one step per action.                                *)
(***************************************************************************)

\* Every action keeps the strengthened truth of alarms.
LEMMA NextAlarm ==
  ASSUME Honest(opt)
  PROVE  TypeInv /\ AlarmInv /\ [Next]_vars => AlarmInv'
<1> SUFFICES ASSUME TypeInv, AlarmInv, [Next]_vars PROVE AlarmInv'
  OBVIOUS
<1>0. /\ phase \notin {"functions", "exit"} => fn \in Fns
      /\ fn \in Fns => p \in Program
      /\ queue \in Seq(Abstraction) /\ abs \in Abstraction /\ result \in Code
  BY CurrentProgram DEF TypeInv, TypeOK, Control
<1>i. RoundRecorded /\ AbsSumsOnly /\ StopsAtUnproved /\ RefutedReports
  BY DEF AlarmInv
<1>a. ASSUME Unsupported, fn \in Fns PROVE AlarmInv'
  <2>1. NextFunction(UNSUPPORTED) /\ UNSUPPORTED \notin {UB, RETVALUE}
    BY <1>a DEF Unsupported, UNSUPPORTED, UB, RETVALUE
  <2> QED
    BY <1>a, <2>1, NextFunctionAlarm
<1>b. ASSUME NEW c, Return(c), fn \in Fns,
             c = UB => V!Refuted(p.ub, p, opt),
             c = RETVALUE => \E n \in Obligations(p) : V!Refuted(n, p, opt)
      PROVE  AlarmInv'
  BY <1>b, NextFunctionAlarm DEF Return
<1>1. CASE SkipFunction
  <2>1. fn \in Fns /\ NextFunction(SKIPPED) /\ SKIPPED \notin {UB, RETVALUE}
    BY <1>1 DEF SkipFunction, SKIPPED, UB, RETVALUE
  <2> QED
    BY <2>1, NextFunctionAlarm
<1>2. CASE RejectFunction
  BY <1>2, <1>a DEF RejectFunction
<1>3. CASE StartFunction
  <2>1. /\ phase' = "round" /\ queue' = <<InitialAbs(opt)>>
        /\ UNCHANGED <<opt, prog, abs, verdict>>
    BY <1>3 DEF StartFunction, inputs, summary
  <2>2. SumsOnly(InitialAbs(opt), opt)
    BY DEF SumsOnly, InitialAbs
  <2>3. AbsSumsOnly'
    BY <1>i, <2>1, <2>2 DEF AbsSumsOnly
  <2> QED
    BY <1>i, <2>1, <2>3
    DEF AlarmInv, RoundRecorded, StopsAtUnproved, RefutedReports
<1>4. CASE Exit
  <2>1. phase' = "exit" /\ UNCHANGED <<opt, prog, abs, queue, verdict>>
    BY <1>4 DEF Exit, inputs, loop
  <2> QED
    BY <1>i, <2>1
    DEF AlarmInv, RoundRecorded, AbsSumsOnly, StopsAtUnproved, RefutedReports
<1>5. CASE EncodeRound
  <2>1. /\ phase = "round" /\ Encodes(Head(queue)) /\ abs' = Head(queue)
        /\ queue' = Tail(queue) /\ phase' = "ub"
        /\ usedOps' = usedOps \cup EncodingFlags(Body(p), Head(queue), opt)
        /\ UNCHANGED <<opt, prog, fn, verdict>>
    BY <1>5 DEF EncodeRound, inputs, summary
  <2>2. queue # <<>> /\ Body(p) \in Seq(Op)
    BY <1>0, <2>1, ProgramTypes DEF TypeInv, Control
  <2>3. RoundRecorded'
    <3>1. FlagsRecorded(Body(p), Head(queue), usedOps', opt)
      BY <2>1, <2>2, EncodedFlags DEF Encodes
    <3>2. Body(p)' = Body(p)
      BY <2>1 DEF Body, p
    <3> QED
      BY <2>1, <3>1, <3>2 DEF RoundRecorded
  <2>4. AbsSumsOnly'
    <3>1. Head(queue) = queue[1] /\ 1 \in DOMAIN queue
      BY <1>0, <2>2, EmptySeq, LenProperties
    <3>2. \A i \in DOMAIN Tail(queue) : i + 1 \in DOMAIN queue /\ Tail(queue)[i] = queue[i + 1]
      BY <1>0, <2>2, HeadTailProperties, LenProperties
    <3> QED
      BY <1>i, <2>1, <3>1, <3>2 DEF AbsSumsOnly
  <2> QED
    BY <1>i, <2>1, <2>3, <2>4 DEF AlarmInv, StopsAtUnproved, RefutedReports
<1>6. CASE EncodeRoundThrows
  BY <1>0, <1>6, <1>a DEF EncodeRoundThrows
<1>7. CASE CheckUB
  <2>1. phase = "ub" /\ Solve({}, p.ub, UB, RetOrMore)
    BY <1>7 DEF CheckUB
  <2>2. RetOrMore => GoesOn
    BY DEF RetOrMore, MemOrDone, GoTo, Conclude, GoesOn
  <2>3. p.ub \in Obligations(p)
    BY DEF Obligations
  <2> QED
    BY <2>1, <2>2, <2>3, SolveAlarm
<1>8. CASE CheckRet
  <2> DEFINE passed == IF idx < Len(p.rets) THEN GoTo("ret", idx + 1) ELSE MemOrDone
  <2>1. phase = "ret" /\ Solve({}, p.rets[idx], RETVALUE, passed)
    BY <1>8 DEF CheckRet
  <2>2. passed => GoesOn
    BY DEF MemOrDone, GoTo, Conclude, GoesOn
  <2>3. p.rets[idx] \in Obligations(p) /\ Provable(p.ub, abs)
    BY <1>i, <2>1 DEF TypeInv, Control, Obligations, StopsAtUnproved
  <2> HIDE DEF passed
  <2> QED
    BY <2>1, <2>2, <2>3, SolveAlarm
<1>9. CASE CheckMem
  <2> DEFINE passed == IF idx < Len(p.mems) THEN GoTo("mem", idx + 1)
                       ELSE Conclude(SUCCESS)
  <2>1. phase = "mem" /\ Solve(MemSolver, p.mems[idx], RETVALUE, passed)
    BY <1>9 DEF CheckMem
  <2>2. passed => GoesOn
    BY DEF GoTo, Conclude, GoesOn
  <2>3. p.mems[idx] \in Obligations(p) /\ Provable(p.ub, abs)
    BY <1>i, <2>1 DEF TypeInv, Control, Obligations, StopsAtUnproved
  <2> HIDE DEF passed
  <2> QED
    BY <2>1, <2>2, <2>3, SolveAlarm
<1>10. CASE ReturnInconsistent
  <2>1. phase = "judge" /\ result = INCONSISTENT
    BY <1>10 DEF ReturnInconsistent
  <2> QED
    BY <1>i, <2>1 DEF StopsAtUnproved
<1>11. CASE RefineAbs
  <2>1. /\ phase' = "round" /\ queue' = Append(queue, NextAbs(abs, usedOps, opt))
        /\ UNCHANGED <<opt, prog, abs, verdict>>
    BY <1>11 DEF RefineAbs, inputs, summary
  <2>2. SumsOnly(NextAbs(abs, usedOps, opt), opt)
    BY <1>i DEF AbsSumsOnly, SumsOnly, NextAbs
  <2>3. NextAbs(abs, usedOps, opt) \in Abstraction
    BY <1>0, NextAbsType
  <2>4. \A i \in DOMAIN queue' : \/ i \in DOMAIN queue /\ queue'[i] = queue[i]
                                 \/ queue'[i] = NextAbs(abs, usedOps, opt)
    BY <1>0, <2>1, <2>3, AppendProperties, LenProperties
  <2>5. AbsSumsOnly'
    BY <1>i, <2>1, <2>2, <2>4 DEF AbsSumsOnly
  <2> QED
    BY <1>i, <2>1, <2>5
    DEF AlarmInv, RoundRecorded, StopsAtUnproved, RefutedReports
<1>12. CASE GiveUp
  <2>1. /\ phase = "judge" /\ ~HasNextAbs(abs, usedOps, opt) /\ Return(result)
    BY <1>12 DEF GiveUp
  <2>2. result = UB => V!Refuted(p.ub, p, opt)
    BY <1>i, <2>1, UnprovedRefuted DEF StopsAtUnproved
  <2>3. result = RETVALUE => \E n \in Obligations(p) : V!Refuted(n, p, opt)
    BY <1>i, <2>1, UnprovedRefuted DEF StopsAtUnproved
  <2> QED
    BY <1>0, <1>b, <2>1, <2>2, <2>3
<1>13. CASE EncodeSrc
  <2>1. /\ phase = "judge" /\ LookForAlwaysUB /\ phase' = "alwaysub"
        /\ UNCHANGED <<opt, prog, abs, queue, result, verdict>>
    BY <1>13 DEF EncodeSrc, inputs, loop, summary
  <2> QED
    BY <1>i, <2>1 DEF LookForAlwaysUB, AlarmInv, RoundRecorded, AbsSumsOnly,
                      StopsAtUnproved, RefutedReports
<1>14. CASE EncodeSrcThrows
  BY <1>0, <1>14, <1>a DEF EncodeSrcThrows
<1>15. CASE CheckAlwaysUB
  <2>1. phase = "alwaysub" /\ Return(result)
    BY <1>15 DEF CheckAlwaysUB
  <2>2. result \notin {UB, RETVALUE}
    BY <1>i, <2>1 DEF StopsAtUnproved, SUCCESS, TIMEOUT, UB, RETVALUE
  <2> QED
    BY <1>0, <1>b, <2>1, <2>2
<1>16. CASE UNCHANGED vars
  BY <1>i, <1>16 DEF AlarmInv, RoundRecorded, AbsSumsOnly, StopsAtUnproved,
     RefutedReports, Obligations, Body, p, vars, inputs, loop, global, summary
<1> QED
  BY <1>1, <1>2, <1>3, <1>4, <1>5, <1>6, <1>7, <1>8, <1>9, <1>10, <1>11, <1>12,
     <1>13, <1>14, <1>15, <1>16 DEF Next

\* Programs are among those whose obligations need levels that matter.
InputsRealizable == \A f \in Fns : Realizable(prog[f], opt)

\* A refuted obligation needs more than levels, if no integer dot is involved.
LEMMA RefutedIsWrong ==
  ASSUME NEW q, NEW o, Realizable(q, o), "intDot" \notin Relevant(Body(q), o),
         NEW n \in Obligations(q), V!Refuted(n, q, o)
  PROVE  V!Wrong(n)
<1>1. n \subseteq Relevant(Body(q), o) \cup {"wrong"}
  BY DEF Realizable
<1>2. V!Settled(q, o) = Relevant(Body(q), o)
  BY SamePrograms DEF V!Settled
<1> QED
  BY <1>1, <1>2 DEF V!Refuted, V!Wrong

\* The invariant in which soundness and the truth of alarms are proved.
HonestInv == Honest(opt) => SoundInv /\ AlarmInv

LEMMA HonestHolds == Spec => [](TypeInv /\ InputsRealizable /\ HonestInv)
<1> DEFINE Inv == TypeInv /\ InputsRealizable /\ HonestInv
<1>1. Init => Inv
  <2>1. Init => InputsRealizable
    BY DEF Init, InitialInputs, InputsRealizable
  <2> QED
    BY <2>1, InitTypeInv, InitSound, InitAlarm DEF HonestInv
<1>2. Inv /\ [Next]_vars => Inv'
  <2> SUFFICES ASSUME Inv, [Next]_vars PROVE Inv'
    OBVIOUS
  <2>1. TypeInv'
    BY NextTypeInv
  <2>2. opt' = opt /\ prog' = prog
    BY InputsStay
  <2>3. InputsRealizable'
    BY <2>2 DEF InputsRealizable
  <2>4. ASSUME Honest(opt) PROVE SoundInv' /\ AlarmInv'
    BY <2>4, NextSound, NextAlarm DEF HonestInv
  <2> QED
    BY <2>1, <2>2, <2>3, <2>4 DEF HonestInv, Honest
<1> QED
  <2> HIDE DEF Inv
  <2>1. Spec => []Inv
    BY <1>1, <1>2, PTL DEF Spec
  <2> QED
    BY <2>1 DEF Inv

\* A function reported correct refines in undefined behaviour, in every
\* returned value and in the first element type of the memory, for every
\* number of functions, every program and command line, whatever is
\* abstracted and whichever of the (honest) solvers give up.
THEOREM SoundVerdicts == Spec => []ProvedIsSound
<1>1. HonestInv => ProvedIsSound
  BY DEF HonestInv, SoundInv, ProvedIsSound
<1> QED
  BY <1>1, HonestHolds, PTL

\* A function without integer dots is reported wrong only if an obligation of
\* it is wrong, for every program and command line, however many functions
\* came before and whatever they left in usedOps (the abstraction loop).
THEOREM TrueAlarms == Spec => []NoFalseAlarm
<1>1. TypeInv /\ InputsRealizable /\ HonestInv => NoFalseAlarm
  <2> SUFFICES ASSUME InputsRealizable, HonestInv, Honest(opt), NEW f \in Fns,
                      verdict[f] \in {UB, RETVALUE},
                      "intDot" \notin Relevant(Body(prog[f]), opt)
               PROVE  \E n \in Obligations(prog[f]) : V!Wrong(n)
    BY DEF NoFalseAlarm
  <2>1. PICK n \in Obligations(prog[f]) : V!Refuted(n, prog[f], opt)
    BY DEF HonestInv, AlarmInv, RefutedReports, Obligations
  <2> QED
    BY <2>1, RefutedIsWrong DEF InputsRealizable
<1> QED
  BY <1>1, HonestHolds, PTL


-----------------------------------------------------------------------------
(***************************************************************************)
(* The strengthening.                                                      *)
(***************************************************************************)

\* Functions get their verdicts in order.
InOrder == \A f \in Fns : verdict[f] = PENDING <=> f >= fn

\* merged is the worst code so far, and hasUnsupported tells of the others.
MergedIsWorst ==
  /\ merged = SUCCESS \/ \E f \in Fns : verdict[f] = merged
  /\ \A f \in Fns : verdict[f] \in Code => verdict[f] <= merged
  /\ hasUnsupported <=> \E f \in Fns : verdict[f] = UNSUPPORTED

ExitTellsMerged ==
  phase = "exit" =>
    /\ fn \notin Fns
    /\ exitCode = IF hasUnsupported THEN UNSUPPORTED ELSE merged

\* The line of the function at hand tells what checkRefinement concluded.
LineTellsResult ==
  /\ phase \in {"judge", "alwaysub"} =>
       /\ result \in {UB, RETVALUE} => line[fn] = "mismatch"
       /\ result = TIMEOUT => line[fn] = "timeout"
       /\ result = INCONSISTENT => line[fn] = "inconsistent"
  /\ phase = "alwaysub" => result \in {SUCCESS, TIMEOUT}

\* Of the functions without a verdict, backends contradicted each other at most
\* at the one at hand, which is then about to be left.
Contradictions ==
  \A f \in Fns : f >= fn =>
    (f \in contradicted <=> f = fn /\ phase = "judge" /\ result = INCONSISTENT)

Summary == InOrder /\ MergedIsWorst /\ ExitTellsMerged

ReportInv ==
  /\ Summary /\ LineTellsResult /\ Contradictions
  /\ ReportMatchesVerdict /\ NoPinnedEncoding

\* Nothing is decided and nothing is printed at first.
LEMMA InitReports == Init => ReportInv
<1> SUFFICES ASSUME Init PROVE ReportInv
  OBVIOUS
<1>1. /\ phase = "functions" /\ fn = 1 /\ merged = SUCCESS /\ ~hasUnsupported
      /\ verdict = [f \in Fns |-> PENDING] /\ contradicted = {}
  BY DEF Init
<1>2. Fns \subseteq Nat \ {0}
  BY ProgramsOK DEF Fns
<1>3. Summary
  BY <1>1, <1>2 DEF Summary, InOrder, MergedIsWorst, ExitTellsMerged, PENDING, Code,
     SUCCESS, TIMEOUT, RETVALUE, UB, INCONSISTENT, UNSUPPORTED
<1>4. LineTellsResult /\ ReportMatchesVerdict /\ NoPinnedEncoding /\ Contradictions
  BY <1>1 DEF LineTellsResult, ReportMatchesVerdict, NoPinnedEncoding, Contradictions,
     PENDING, Code, SUCCESS, TIMEOUT, RETVALUE, UB, INCONSISTENT
<1> QED
  BY <1>3, <1>4 DEF ReportInv

-----------------------------------------------------------------------------
(***************************************************************************)
(* Leaving a function.                                                     *)
(***************************************************************************)

\* The function at hand is decided and no other one is.
LEMMA NextFunctionDecides ==
  ASSUME TypeInv, fn \in Fns, InOrder,
         NEW v \in Code \cup {SKIPPED, UNSUPPORTED}, NextFunction(v)
  PROVE  /\ InOrder'
         /\ verdict[fn] = PENDING /\ verdict'[fn] = v
         /\ \A f \in Fns : f # fn => verdict'[f] = verdict[f]
<1>1. /\ verdict' = [verdict EXCEPT ![fn] = v] /\ fn' = fn + 1
  BY DEF NextFunction
<1>2. Fns \subseteq Nat /\ fn \in Nat
  BY ProgramsOK DEF Fns
<1>3. v # PENDING
  BY DEF Code, SUCCESS, TIMEOUT, RETVALUE, UB, INCONSISTENT, PENDING, SKIPPED,
     UNSUPPORTED
<1>4. verdict[fn] = PENDING
  BY <1>2 DEF InOrder
<1>5. verdict'[fn] = v /\ \A f \in Fns : f # fn => verdict'[f] = verdict[f]
  BY <1>1 DEF TypeInv, TypeOK
<1>6. InOrder'
  <2> SUFFICES ASSUME NEW f \in Fns PROVE verdict'[f] = PENDING <=> f >= fn + 1
    BY <1>1 DEF InOrder, Fns
  <2>1. CASE f = fn
    BY <1>2, <1>3, <1>5, <2>1
  <2>2. CASE f # fn
    <3>1. f >= fn <=> f >= fn + 1
      BY <1>2, <2>2
    <3> QED
      BY <1>5, <2>2, <3>1 DEF InOrder
  <2> QED
    BY <2>1, <2>2
<1> QED
  BY <1>4, <1>5, <1>6

\* None of the functions to come is one with contradictions.
LEMMA NextFunctionContradictions ==
  ASSUME TypeInv, fn \in Fns, Contradictions, NEW v, NextFunction(v)
  PROVE  Contradictions' /\ contradicted' = contradicted
<1>1. fn' = fn + 1 /\ phase' = "functions" /\ contradicted' = contradicted
  BY DEF NextFunction
<1>2. ASSUME NEW f \in Fns, f >= fn + 1 PROVE f \notin contradicted
  <2>1. f \in Nat /\ fn \in Nat
    BY ProgramsOK DEF Fns
  <2>2. f >= fn /\ f # fn
    BY <1>2, <2>1
  <2> QED
    BY <2>2 DEF Contradictions
<1> QED
  BY <1>1, <1>2 DEF Contradictions

\* merged stays the worst code when a function is skipped or unsupported.
LEMMA NoCodeSummary ==
  ASSUME TypeInv, fn \in Fns, Summary,
         NEW v \in {SKIPPED, UNSUPPORTED}, NextFunction(v), merged' = merged,
         hasUnsupported' = (hasUnsupported \/ v = UNSUPPORTED)
  PROVE  Summary'
<1>1. /\ InOrder' /\ verdict[fn] = PENDING /\ verdict'[fn] = v
      /\ \A f \in Fns : f # fn => verdict'[f] = verdict[f]
  BY NextFunctionDecides DEF Summary
<1>2. v \notin Code /\ PENDING \notin Code /\ PENDING # UNSUPPORTED /\ SKIPPED # UNSUPPORTED
  BY DEF Code, SUCCESS, TIMEOUT, RETVALUE, UB, INCONSISTENT, PENDING, SKIPPED,
     UNSUPPORTED
<1>3. merged \in Code
  BY DEF TypeInv, TypeOK
<1>4. merged' = SUCCESS \/ \E f \in Fns : verdict'[f] = merged'
  BY <1>1, <1>2, <1>3 DEF Summary, MergedIsWorst
<1>5. \A f \in Fns : verdict'[f] \in Code => verdict'[f] <= merged'
  BY <1>1, <1>2 DEF Summary, MergedIsWorst
<1>6. hasUnsupported' <=> \E f \in Fns : verdict'[f] = UNSUPPORTED
  BY <1>1, <1>2 DEF Summary, MergedIsWorst
<1>7. ExitTellsMerged'
  BY DEF NextFunction, ExitTellsMerged
<1> QED
  BY <1>1, <1>4, <1>5, <1>6, <1>7 DEF Summary, MergedIsWorst

\* Returning a code merges it.
LEMMA ReturnSummary ==
  ASSUME TypeInv, fn \in Fns, Summary, NEW c \in Code, Return(c)
  PROVE  Summary'
<1>1. /\ NextFunction(c) /\ hasUnsupported' = hasUnsupported
      /\ merged' = IF c > merged THEN c ELSE merged
  BY DEF Return
<1>2. /\ InOrder' /\ verdict[fn] = PENDING /\ verdict'[fn] = c
      /\ \A f \in Fns : f # fn => verdict'[f] = verdict[f]
  BY <1>1, NextFunctionDecides DEF Summary
<1>3. Code \subseteq Nat /\ PENDING \notin Code /\ UNSUPPORTED \notin Code
      /\ PENDING # UNSUPPORTED /\ SUCCESS = 0
  BY DEF Code, SUCCESS, TIMEOUT, RETVALUE, UB, INCONSISTENT, PENDING, UNSUPPORTED
<1>4. merged \in Code
  BY DEF TypeInv, TypeOK
<1>5. merged' = SUCCESS \/ \E f \in Fns : verdict'[f] = merged'
  BY <1>1, <1>2, <1>3, <1>4 DEF Summary, MergedIsWorst
<1>6. ASSUME NEW f \in Fns, verdict'[f] \in Code PROVE verdict'[f] <= merged'
  <2>1. CASE f = fn
    BY <1>1, <1>2, <1>3, <1>4, <2>1
  <2>2. CASE f # fn
    <3>1. verdict[f] \in Code /\ verdict[f] <= merged
      BY <1>2, <1>6, <2>2 DEF Summary, MergedIsWorst
    <3>2. verdict[f] \in Nat /\ merged \in Nat /\ c \in Nat
      BY <1>3, <1>4, <3>1
    <3>3. verdict'[f] = verdict[f]
      BY <1>2, <2>2
    <3> QED
      BY <1>1, <3>1, <3>2, <3>3
  <2> QED
    BY <2>1, <2>2
<1>7. hasUnsupported' <=> \E f \in Fns : verdict'[f] = UNSUPPORTED
  BY <1>1, <1>2, <1>3 DEF Summary, MergedIsWorst
<1>8. ExitTellsMerged'
  BY <1>1 DEF NextFunction, ExitTellsMerged
<1> QED
  BY <1>2, <1>5, <1>6, <1>7, <1>8 DEF Summary, MergedIsWorst

-----------------------------------------------------------------------------
(***************************************************************************)
(* What a step does to the reports.                                        *)
(***************************************************************************)

\* A function left without a code keeps the reports of the others.
LEMMA NoCodeReports ==
  ASSUME TypeInv, fn \in Fns, ReportInv,
         NEW v \in {SKIPPED, UNSUPPORTED}, NextFunction(v), merged' = merged,
         hasUnsupported' = (hasUnsupported \/ v = UNSUPPORTED), line' = line
  PROVE  ReportInv'
<1>1. Summary'
  BY NoCodeSummary DEF ReportInv
<1>2. /\ phase' = "functions" /\ opt' = opt
      /\ verdict'[fn] = v /\ v \notin Code
      /\ \A f \in Fns : f # fn => verdict'[f] = verdict[f]
  <2>1. v \notin Code
    BY DEF Code, SUCCESS, TIMEOUT, RETVALUE, UB, INCONSISTENT, SKIPPED, UNSUPPORTED
  <2>2. phase' = "functions" /\ opt' = opt
    BY DEF NextFunction, inputs
  <2> QED
    BY <2>1, <2>2, NextFunctionDecides DEF ReportInv, Summary
<1>3. LineTellsResult' /\ NoPinnedEncoding'
  BY <1>2 DEF LineTellsResult, NoPinnedEncoding
<1>4. Contradictions' /\ contradicted' = contradicted
  BY NextFunctionContradictions DEF ReportInv
<1>5. ReportMatchesVerdict'
  BY <1>2, <1>4 DEF ReportInv, ReportMatchesVerdict, Honest
<1> QED
  BY <1>1, <1>3, <1>4, <1>5 DEF ReportInv

\* The line and the code of a function that ends agree.
Agree(c, l) ==
  /\ c = SUCCESS => l \in CorrectLines \/ ~Honest(opt)
  /\ l = "correct" => c = SUCCESS
  /\ l = "mismatch" <=> c \in {UB, RETVALUE}

\* Returning a code keeps the reports, if its line agrees with it.
LEMMA ReturnReports ==
  ASSUME TypeInv, fn \in Fns, ReportInv, NEW c \in Code, Return(c),
         \A f \in Fns : f # fn => line'[f] = line[f],
         Agree(c, line'[fn]), c = INCONSISTENT <=> fn \in contradicted
  PROVE  ReportInv'
<1>1. Summary'
  BY ReturnSummary DEF ReportInv
<1>2. /\ phase' = "functions" /\ opt' = opt
      /\ verdict'[fn] = c
      /\ \A f \in Fns : f # fn => verdict'[f] = verdict[f]
  <2>1. NextFunction(c) /\ phase' = "functions" /\ opt' = opt
    BY DEF Return, NextFunction, inputs
  <2> QED
    BY <2>1, NextFunctionDecides DEF ReportInv, Summary
<1>3. LineTellsResult' /\ NoPinnedEncoding'
  BY <1>2 DEF LineTellsResult, NoPinnedEncoding
<1>4. Contradictions' /\ contradicted' = contradicted
  BY NextFunctionContradictions DEF ReportInv, Return
<1>5. ReportMatchesVerdict'
  <2> SUFFICES ASSUME NEW f \in Fns, verdict'[f] \in Code
               PROVE  /\ verdict'[f] = SUCCESS
                           => line'[f] \in CorrectLines \/ ~Honest(opt)
                      /\ line'[f] = "correct" => verdict'[f] = SUCCESS
                      /\ line'[f] = "mismatch" <=> verdict'[f] \in {UB, RETVALUE}
                      /\ verdict'[f] = INCONSISTENT <=> f \in contradicted
    BY <1>2, <1>4 DEF ReportMatchesVerdict, Honest
  <2>1. CASE f = fn
    BY <1>2, <2>1 DEF Agree
  <2>2. CASE f # fn
    BY <1>2, <2>2 DEF ReportInv, ReportMatchesVerdict
  <2> QED
    BY <2>1, <2>2
<1> QED
  BY <1>1, <1>3, <1>4, <1>5 DEF ReportInv

\* A step within a function changes the line of that function only, and only
\* of that function it may tell contradictions.
LEMMA WithinFunctionReports ==
  ASSUME TypeInv, fn \in Fns, ReportInv, UNCHANGED <<inputs, fn, summary>>,
         phase' # "exit",
         \A f \in Fns : f # fn => line'[f] = line[f],
         \A f \in Fns : f # fn => (f \in contradicted' <=> f \in contradicted),
         fn \in contradicted' <=> phase' = "judge" /\ result' = INCONSISTENT,
         LineTellsResult', NoPinnedEncoding'
  PROVE  ReportInv'
<1>1. Summary'
  BY DEF ReportInv, Summary, InOrder, MergedIsWorst, ExitTellsMerged, summary
<1>2. verdict' = verdict /\ opt' = opt
  BY DEF summary, inputs
<1>3. verdict[fn] \notin Code
  <2>1. verdict[fn] = PENDING
    BY ProgramsOK DEF ReportInv, Summary, InOrder, Fns
  <2> QED
    BY <2>1 DEF PENDING, Code, SUCCESS, TIMEOUT, RETVALUE, UB, INCONSISTENT
<1>4. ReportMatchesVerdict'
  BY <1>2, <1>3 DEF ReportInv, ReportMatchesVerdict, Honest
<1>5. Contradictions'
  BY DEF ReportInv, Contradictions
<1> QED
  BY <1>1, <1>4, <1>5 DEF ReportInv

\* So does a step that asks the backends nothing and concludes nothing.
LEMMA SilentReports ==
  ASSUME TypeInv, fn \in Fns, ReportInv, UNCHANGED <<inputs, fn, summary, line, contradicted>>,
         phase' \notin {"exit", "judge"}, phase = "judge" => result # INCONSISTENT,
         LineTellsResult', NoPinnedEncoding'
  PROVE  ReportInv'
<1>1. fn \notin contradicted
  <2>1. fn >= fn
    BY ProgramsOK DEF Fns
  <2> QED
    BY <2>1 DEF ReportInv, Contradictions
<1> QED
  BY <1>1, WithinFunctionReports

\* One query leaves a line that tells what it concluded, and the encoding is
\* pinned only where nothing is asked any more.
LEMMA SolveReports ==
  ASSUME TypeInv, fn \in Fns, ReportInv, phase \in {"ub", "ret", "mem"},
         NEW solver, NEW need, NEW bad \in {UB, RETVALUE},
         NEW ACTION passed, passed => GoesOn,
         Solve(solver, need, bad, passed)
  PROVE  ReportInv'
<1>1. PICK r \in Answers(Truth(solver \cup {need}, abs)) :
        /\ Conclusion(r, bad, passed)
        /\ contradicted' = IF IsInconsistent(r) THEN contradicted \cup {fn} ELSE contradicted
  BY DEF Solve
<1>2. UNCHANGED <<inputs, fn, summary>>
  BY DEF Solve
<1>3. line \in [Fns -> Line] /\ fpEnc # "pinned"
  BY DEF TypeInv, TypeOK, ReportInv, NoPinnedEncoding
<1>4. \A f \in Fns : f # fn => line'[f] = line[f]
  BY <1>1, <1>3 DEF Conclusion
<1>5. phase' \in {"ret", "mem", "judge"}
  BY <1>1 DEF Conclusion, Conclude, GoesOn
<1>6. \/ phase' \in {"ret", "mem"}
      \/ phase' = "judge" /\ result' = SUCCESS
      \/ phase' = "judge" /\ result' = INCONSISTENT /\ line'[fn] = "inconsistent"
      \/ phase' = "judge" /\ result' = bad /\ line'[fn] = "mismatch"
      \/ phase' = "judge" /\ result' = TIMEOUT /\ line'[fn] = "timeout"
  BY <1>1, <1>3 DEF Conclusion, Conclude, GoesOn
<1>7. LineTellsResult'
  BY <1>2, <1>6 DEF LineTellsResult, SUCCESS, TIMEOUT, RETVALUE, UB, INCONSISTENT
<1>8. NoPinnedEncoding'
  <2>1. phase' = "judge" \/ fpEnc' = fpEnc
    BY <1>1 DEF Conclusion, Conclude
  <2> QED
    BY <1>3, <2>1 DEF NoPinnedEncoding
<1>9. \A f \in Fns : f # fn => (f \in contradicted' <=> f \in contradicted)
  BY <1>1
<1>10. fn \in contradicted' <=> phase' = "judge" /\ result' = INCONSISTENT
  <2>1. fn \in contradicted' <=> IsInconsistent(r)
    <3>1. fn >= fn
      BY ProgramsOK DEF Fns
    <3>2. fn \notin contradicted
      BY <3>1 DEF ReportInv, Contradictions
    <3> QED
      BY <1>1, <3>2
  <2>2. INCONSISTENT \notin {SUCCESS, TIMEOUT, bad}
    BY DEF SUCCESS, TIMEOUT, RETVALUE, UB, INCONSISTENT
  <2>3. CASE IsInconsistent(r)
    <3>1. Conclude(INCONSISTENT)
      BY <1>1, <2>3 DEF Conclusion, IsInconsistent, IsUnknown
    <3> QED
      BY <2>1, <2>3, <3>1 DEF Conclude
  <2>4. CASE ~IsInconsistent(r)
    <3>1. phase' # "judge" \/ result' \in {SUCCESS, TIMEOUT, bad}
      BY <1>1, <2>4 DEF Conclusion, Conclude, GoesOn
    <3> QED
      BY <2>1, <2>2, <2>4, <3>1
  <2> QED
    BY <2>3, <2>4
<1> QED
  BY <1>2, <1>4, <1>5, <1>7, <1>8, <1>9, <1>10, WithinFunctionReports

-----------------------------------------------------------------------------
(***************************************************************************)
(* The inductive step, one step per action.                                *)
(***************************************************************************)

\* What checkIsSrcAlwaysUB may print, by the result it is called for.
LEMMA AlwaysUBLine ==
  ASSUME TypeInv, fn \in Fns, ReportInv, CheckAlwaysUB
  PROVE  /\ \A f \in Fns : f # fn => line'[f] = line[f]
         /\ Agree(result, line'[fn])
<1>1. PICK r \in Answers(IF p.alwaysUB THEN "unsat" ELSE "sat") :
        line' = [line EXCEPT ![fn] =
                   CASE IsInconsistent(r) -> "inconsistent"
                     [] HasUnsat(r) /\ ~HasSat(r) -> "correct (source is always undefined)"
                     [] ~HasUnsat(r) -> IF result = SUCCESS THEN "correct" ELSE @]
  BY DEF CheckAlwaysUB
<1>2. line \in [Fns -> Line]
  BY DEF TypeInv, TypeOK
<1>3. result \in {SUCCESS, TIMEOUT} /\ (result = TIMEOUT => line[fn] = "timeout")
  BY DEF CheckAlwaysUB, ReportInv, LineTellsResult
<1>4. IsInconsistent(r) => ~Honest(opt)
  BY DEF IsInconsistent, HasSat, HasUnsat, Answers, Honest
<1>5. \/ line'[fn] = "inconsistent" /\ ~Honest(opt)
      \/ line'[fn] = "correct (source is always undefined)"
      \/ line'[fn] = "correct" /\ result = SUCCESS
      \/ line'[fn] = "timeout" /\ result = TIMEOUT
  <2>1. CASE IsInconsistent(r)
    <3>1. ~(HasUnsat(r) /\ ~HasSat(r)) /\ HasUnsat(r)
      BY <2>1 DEF IsInconsistent
    <3>2. line'[fn] = "inconsistent"
      BY <1>1, <1>2, <2>1, <3>1
    <3> QED
      BY <1>4, <2>1, <3>2
  <2>2. CASE HasUnsat(r) /\ ~HasSat(r)
    <3>1. ~IsInconsistent(r)
      BY <2>2 DEF IsInconsistent
    <3> QED
      BY <1>1, <1>2, <2>2, <3>1
  <2>3. CASE ~HasUnsat(r)
    <3>1. ~IsInconsistent(r)
      BY <2>3 DEF IsInconsistent
    <3>2. line'[fn] = IF result = SUCCESS THEN "correct" ELSE line[fn]
      BY <1>1, <1>2, <2>3, <3>1
    <3> QED
      BY <1>3, <3>2
  <2> QED
    BY <2>1, <2>2, <2>3 DEF IsInconsistent
<1>6. Agree(result, line'[fn])
  <2>1. /\ SUCCESS \notin {UB, RETVALUE} /\ TIMEOUT \notin {SUCCESS, UB, RETVALUE}
        /\ result \notin {UB, RETVALUE}
    BY <1>3 DEF SUCCESS, TIMEOUT, RETVALUE, UB
  <2>2. line'[fn] # "mismatch"
    BY <1>5
  <2>3. line'[fn] = "correct" => result = SUCCESS
    BY <1>5
  <2>4. result = SUCCESS => line'[fn] \in CorrectLines \/ ~Honest(opt)
    BY <1>5, <2>1 DEF CorrectLines
  <2> QED
    BY <2>1, <2>2, <2>3, <2>4 DEF Agree
<1> QED
  BY <1>1, <1>2, <1>6

\* Every action keeps the reports.
LEMMA NextReports == TypeInv /\ ReportInv /\ [Next]_vars => ReportInv'
<1> SUFFICES ASSUME TypeInv, ReportInv, [Next]_vars PROVE ReportInv'
  OBVIOUS
<1>0. /\ phase \notin {"functions", "exit"} => fn \in Fns
      /\ result \in Code
      /\ LineTellsResult
  BY DEF TypeInv, TypeOK, Control, ReportInv
<1>c. ASSUME fn \in Fns
      PROVE  fn \in contradicted <=> phase = "judge" /\ result = INCONSISTENT
  <2>1. fn >= fn
    BY <1>c, ProgramsOK DEF Fns
  <2> QED
    BY <1>c, <2>1 DEF ReportInv, Contradictions
<1>a. ASSUME Unsupported, fn \in Fns PROVE ReportInv'
  <2>1. NextFunction(UNSUPPORTED) /\ hasUnsupported' = TRUE /\ UNCHANGED <<merged, line>>
    BY <1>a DEF Unsupported
  <2> QED
    BY <1>a, <2>1, NoCodeReports
<1>b. ASSUME NEW c \in Code, fn \in Fns, Return(c), UNCHANGED line, Agree(c, line[fn]),
             c = INCONSISTENT <=> fn \in contradicted
      PROVE  ReportInv'
  BY <1>b, ReturnReports
<1>1. CASE SkipFunction
  <2>1. fn \in Fns /\ NextFunction(SKIPPED) /\ UNCHANGED <<merged, hasUnsupported, line>>
    BY <1>1 DEF SkipFunction
  <2>2. hasUnsupported' = (hasUnsupported \/ SKIPPED = UNSUPPORTED)
    BY <2>1 DEF SKIPPED, UNSUPPORTED, TypeInv, TypeOK
  <2> QED
    BY <2>1, <2>2, NoCodeReports
<1>2. CASE RejectFunction
  BY <1>2, <1>a DEF RejectFunction
<1>3. CASE StartFunction
  <2>1. /\ fn \in Fns /\ phase' = "round"
        /\ phase = "functions"
        /\ UNCHANGED <<inputs, fn, summary, line, contradicted>>
    BY <1>3 DEF StartFunction
  <2> QED
    BY <2>1, SilentReports DEF LineTellsResult, NoPinnedEncoding
<1>4. CASE Exit
  <2>1. /\ phase' = "exit" /\ fn \notin Fns
        /\ exitCode' = IF hasUnsupported THEN UNSUPPORTED ELSE merged
        /\ UNCHANGED <<inputs, fn, merged, hasUnsupported, verdict, line, contradicted>>
    BY <1>4 DEF Exit
  <2>2. Contradictions'
    BY <1>4, <2>1 DEF ReportInv, Contradictions, Exit
  <2>3. LineTellsResult' /\ NoPinnedEncoding' /\ ReportMatchesVerdict'
    BY <2>1 DEF ReportInv, LineTellsResult, NoPinnedEncoding, ReportMatchesVerdict,
       inputs, Honest
  <2>4. Summary'
    BY <2>1 DEF ReportInv, Summary, InOrder, MergedIsWorst, ExitTellsMerged
  <2> QED
    BY <2>2, <2>3, <2>4 DEF ReportInv
<1>5. CASE EncodeRound
  <2>1. /\ fn \in Fns /\ phase' = "ub" /\ fpEnc' # "pinned"
        /\ phase = "round"
        /\ UNCHANGED <<inputs, fn, summary, line, contradicted>>
    BY <1>0, <1>5 DEF EncodeRound, EncAfterSet
  <2> QED
    BY <2>1, SilentReports DEF LineTellsResult, NoPinnedEncoding
<1>6. CASE EncodeRoundThrows
  BY <1>0, <1>6, <1>a DEF EncodeRoundThrows
<1>7. CASE CheckUB
  <2>1. phase = "ub" /\ Solve({}, p.ub, UB, RetOrMore)
    BY <1>7 DEF CheckUB
  <2>2. RetOrMore => GoesOn
    BY DEF RetOrMore, MemOrDone, GoTo, Conclude, GoesOn
  <2> QED
    BY <1>0, <2>1, <2>2, SolveReports
<1>8. CASE CheckRet
  <2> DEFINE passed == IF idx < Len(p.rets) THEN GoTo("ret", idx + 1) ELSE MemOrDone
  <2>1. phase = "ret" /\ Solve({}, p.rets[idx], RETVALUE, passed)
    BY <1>8 DEF CheckRet
  <2>2. passed => GoesOn
    BY DEF MemOrDone, GoTo, Conclude, GoesOn
  <2> HIDE DEF passed
  <2> QED
    BY <1>0, <2>1, <2>2, SolveReports
<1>9. CASE CheckMem
  <2> DEFINE passed == IF idx < Len(p.mems) THEN GoTo("mem", idx + 1)
                       ELSE Conclude(SUCCESS)
  <2>1. phase = "mem" /\ Solve(MemSolver, p.mems[idx], RETVALUE, passed)
    BY <1>9 DEF CheckMem
  <2>2. passed => GoesOn
    BY DEF GoTo, Conclude, GoesOn
  <2> HIDE DEF passed
  <2> QED
    BY <1>0, <2>1, <2>2, SolveReports
<1>10. CASE ReturnInconsistent
  <2>1. /\ phase = "judge" /\ result = INCONSISTENT /\ Return(INCONSISTENT)
        /\ UNCHANGED line
    BY <1>10 DEF ReturnInconsistent
  <2>2. Agree(INCONSISTENT, line[fn]) /\ INCONSISTENT \in Code
    BY <1>0, <2>1 DEF LineTellsResult, Agree, Code, SUCCESS, RETVALUE, UB, INCONSISTENT
  <2>3. fn \in Fns /\ fn \in contradicted
    BY <1>0, <1>c, <2>1
  <2> QED
    BY <1>b, <2>1, <2>2, <2>3
<1>11. CASE RefineAbs
  <2>1. /\ phase = "judge" /\ phase' = "round" /\ result # INCONSISTENT
        /\ UNCHANGED <<inputs, fn, summary, line, contradicted>>
    BY <1>11 DEF RefineAbs, Failed
  <2> QED
    BY <1>0, <2>1, SilentReports DEF LineTellsResult, NoPinnedEncoding
<1>12. CASE GiveUp
  <2>1. /\ phase = "judge" /\ result \in {UB, RETVALUE} /\ Return(result)
        /\ UNCHANGED line
    BY <1>0, <1>12 DEF GiveUp, Failed, Code
  <2>2. Agree(result, line[fn])
    BY <1>0, <2>1 DEF LineTellsResult, Agree, SUCCESS, RETVALUE, UB
  <2>3. result # INCONSISTENT /\ fn \in Fns
    BY <1>0, <2>1 DEF RETVALUE, UB, INCONSISTENT
  <2>4. fn \notin contradicted
    BY <1>c, <2>3
  <2> QED
    BY <1>0, <1>b, <2>1, <2>2, <2>3, <2>4
<1>13. CASE EncodeSrc
  <2>1. /\ phase = "judge" /\ phase' = "alwaysub" /\ LookForAlwaysUB
        /\ fpEnc' # "pinned"
        /\ UNCHANGED <<inputs, fn, result, summary, line, contradicted>>
    BY <1>13 DEF EncodeSrc, EncAfterSet
  <2>2. LineTellsResult'
    BY <1>0, <2>1 DEF LineTellsResult, LookForAlwaysUB
  <2>3. result # INCONSISTENT
    BY <2>1 DEF LookForAlwaysUB, SUCCESS, TIMEOUT, INCONSISTENT
  <2> QED
    BY <1>0, <2>1, <2>2, <2>3, SilentReports DEF NoPinnedEncoding
<1>14. CASE EncodeSrcThrows
  BY <1>0, <1>14, <1>a DEF EncodeSrcThrows
<1>15. CASE CheckAlwaysUB
  <2>1. phase = "alwaysub" /\ Return(result)
    BY <1>15 DEF CheckAlwaysUB
  <2>2. result # INCONSISTENT /\ fn \in Fns
    BY <1>0, <2>1 DEF LineTellsResult, SUCCESS, TIMEOUT, INCONSISTENT
  <2>3. fn \notin contradicted
    BY <1>c, <2>2
  <2> QED
    BY <1>0, <1>15, <2>1, <2>2, <2>3, AlwaysUBLine, ReturnReports
<1>16. CASE UNCHANGED vars
  BY <1>16 DEF ReportInv, Summary, InOrder, MergedIsWorst, ExitTellsMerged,
     LineTellsResult, NoPinnedEncoding, ReportMatchesVerdict, Honest, Contradictions,
     vars, inputs, global, summary
<1> QED
  BY <1>1, <1>2, <1>3, <1>4, <1>5, <1>6, <1>7, <1>8, <1>9, <1>10, <1>11, <1>12,
     <1>13, <1>14, <1>15, <1>16 DEF Next

-----------------------------------------------------------------------------
\* The exit code is read off what was merged.
LEMMA SummaryTellsExit == TypeInv /\ Summary => ExitCodeIsWorst
<1> SUFFICES ASSUME TypeInv, Summary, phase = "exit" PROVE ExitCodeIsWorst
  BY DEF ExitCodeIsWorst
<1> DEFINE given == {verdict[f] : f \in Fns} \ {SKIPPED}
<1>1. fn \notin Fns /\ fn \in 1..(NumFns + 1)
  BY DEF Summary, ExitTellsMerged, TypeInv, TypeOK
<1>2. \A f \in Fns : verdict[f] # PENDING
  BY <1>1, ProgramsOK DEF Summary, InOrder, Fns
<1>3. \A f \in Fns : verdict[f] \in Code \cup {SKIPPED, UNSUPPORTED}
  BY <1>2 DEF TypeInv, TypeOK
<1>4. merged \in Code /\ SKIPPED \notin Code
  BY DEF TypeInv, TypeOK, Code, SUCCESS, TIMEOUT, RETVALUE, UB, INCONSISTENT, SKIPPED
<1>5. CASE UNSUPPORTED \in given
  BY <1>5 DEF Summary, MergedIsWorst, ExitTellsMerged, ExitCodeIsWorst
<1>6. CASE UNSUPPORTED \notin given
  <2>1. exitCode = merged
    BY <1>6 DEF Summary, MergedIsWorst, ExitTellsMerged, SKIPPED, UNSUPPORTED
  <2>2. merged \in given \cup {SUCCESS}
    BY <1>4 DEF Summary, MergedIsWorst
  <2>3. \A v \in given : v <= merged
    BY <1>3, <1>6 DEF Summary, MergedIsWorst
  <2> QED
    BY <1>6, <2>1, <2>2, <2>3 DEF ExitCodeIsWorst
<1> QED
  BY <1>5, <1>6

\* The invariant in which all of them are proved.
LEMMA ReportsHold == Spec => [](TypeInv /\ ReportInv)
<1>1. Init => TypeInv /\ ReportInv
  BY InitTypeInv, InitReports
<1>2. TypeInv /\ ReportInv /\ [Next]_vars => TypeInv' /\ ReportInv'
  BY NextTypeInv, NextReports
<1> QED
  BY <1>1, <1>2, PTL DEF Spec

\* The line printed for a function and its code tell the same story, whatever
\* the rounds before the last one have printed.
THEOREM ReportsMatch == Spec => []ReportMatchesVerdict
<1>1. ReportInv => ReportMatchesVerdict
  BY DEF ReportInv
<1> QED
  BY <1>1, ReportsHold, PTL

\* The process exits with 91 if a function was unsupported, else with the
\* worst of the codes of its functions.
THEOREM ExitCodes == Spec => []ExitCodeIsWorst
<1>1. TypeInv /\ ReportInv => ExitCodeIsWorst
  BY SummaryTellsExit DEF ReportInv
<1> QED
  BY <1>1, ReportsHold, PTL

\* No query is asked about an encoding whose constants were replaced by those
\* of a counterexample.
THEOREM FreshEncodings == Spec => []NoPinnedEncoding
<1>1. ReportInv => NoPinnedEncoding
  BY DEF ReportInv
<1> QED
  BY <1>1, ReportsHold, PTL

-----------------------------------------------------------------------------
(***************************************************************************)
(* The validator implements its promise, step by step: leaving a function  *)
(* judges it, exiting exits, and nothing else shows.                       *)
(***************************************************************************)

\* Only functions that are compared are encoded, and the exit code comes last.
AtFunction ==
  /\ phase \notin {"functions", "exit"} => Compared(opt, prog, fn) /\ V!Compares(p)
  /\ phase # "exit" => exitCode = PENDING

\* Every action keeps this.
LEMMA NextAtFunction == TypeInv /\ AtFunction /\ [Next]_vars => AtFunction'
<1> SUFFICES ASSUME TypeInv, AtFunction, [Next]_vars PROVE AtFunction'
  OBVIOUS
<1>a. ASSUME NEW v, NextFunction(v), phase # "exit" PROVE AtFunction'
  BY <1>a DEF NextFunction, AtFunction
<1>b. ASSUME UNCHANGED <<opt, prog, fn, exitCode>>, phase \notin {"functions", "exit"},
             phase' # "exit"
      PROVE  AtFunction'
  BY <1>b DEF AtFunction, Compared, p, V!Compares
<1>1. CASE SkipFunction \/ RejectFunction
  BY <1>1, <1>a DEF SkipFunction, RejectFunction, Unsupported
<1>2. CASE StartFunction
  BY <1>2 DEF StartFunction, AtFunction, Compared, p, V!Compares, inputs, summary
<1>3. CASE Exit
  BY <1>3 DEF Exit, AtFunction
<1>4. CASE EncodeRound
  BY <1>4, <1>b DEF EncodeRound, inputs, summary
<1>5. CASE CheckUB \/ CheckRet \/ CheckMem
  <2>1. phase \in {"ub", "ret", "mem"} /\ UNCHANGED <<opt, prog, fn, exitCode>>
    BY <1>5 DEF CheckUB, CheckRet, CheckMem, Solve, inputs, summary
  <2>2. phase' \in {"ret", "mem", "judge"}
    BY <1>5 DEF CheckUB, CheckRet, CheckMem, Solve, Conclusion, Conclude, RetOrMore,
       MemOrDone, GoTo
  <2> QED
    BY <1>b, <2>1, <2>2
<1>6. CASE RefineAbs \/ EncodeSrc
  BY <1>6, <1>b DEF RefineAbs, EncodeSrc, inputs, summary
<1>7. CASE EncodeRoundThrows \/ EncodeSrcThrows
  BY <1>7, <1>a DEF EncodeRoundThrows, EncodeSrcThrows, Unsupported
<1>8. CASE ReturnInconsistent \/ GiveUp \/ CheckAlwaysUB
  BY <1>8, <1>a DEF ReturnInconsistent, GiveUp, CheckAlwaysUB, Return
<1>9. CASE UNCHANGED vars
  BY <1>9 DEF AtFunction, Compared, p, V!Compares, vars, inputs, summary
<1> QED
  BY <1>1, <1>2, <1>3, <1>4, <1>5, <1>6, <1>7, <1>8, <1>9 DEF Next

\* The constants of both specifications are the same.
LEMMA SameConstants ==
  /\ V!Fns = Fns /\ V!Code = Code
  /\ V!SUCCESS = SUCCESS /\ V!TIMEOUT = TIMEOUT /\ V!RETVALUE = RETVALUE /\ V!UB = UB
  /\ V!PENDING = PENDING /\ V!SKIPPED = SKIPPED /\ V!UNSUPPORTED = UNSUPPORTED
  /\ V!Compared(opt, prog, fn) = Compared(opt, prog, fn)
  /\ V!Honest(opt) = Honest(opt)
BY DEF V!Fns, Fns, V!Code, Code, V!SUCCESS, SUCCESS, V!TIMEOUT, TIMEOUT,
       V!RETVALUE, RETVALUE, V!UB, UB, V!INCONSISTENT, INCONSISTENT,
       V!PENDING, PENDING, V!SKIPPED, SKIPPED, V!UNSUPPORTED, UNSUPPORTED,
       V!Compared, Compared, V!Honest, Honest

\* Leaving a function with a verdict that it justifies judges it.
LEMMA LeavingJudges ==
  ASSUME TypeInv, InOrder, fn \in Fns, NEW v, NextFunction(v),
         v \in IF Compared(opt, prog, fn) THEN V!Possible(p, opt) ELSE {SKIPPED}
  PROVE  V!Next
<1>1. fn \in V!Fns /\ fn \in Nat
  BY ProgramsOK, SameConstants DEF Fns
<1>2. verdict[fn] = V!PENDING
  BY <1>1, SameConstants DEF InOrder
<1>3. \A g \in 1..(fn - 1) : verdict[g] # V!PENDING
  <2> SUFFICES ASSUME NEW g \in 1..(fn - 1) PROVE verdict[g] # PENDING
    BY SameConstants
  <2>1. g \in Fns /\ ~(g >= fn)
    BY <1>1, ProgramsOK DEF Fns
  <2> QED
    BY <2>1 DEF InOrder
<1>4. verdict' = [verdict EXCEPT ![fn] = v] /\ UNCHANGED <<opt, prog, exitCode>>
  BY DEF NextFunction, inputs
<1>5. V!Judge(fn)
  BY <1>2, <1>3, <1>4, SameConstants DEF V!Judge, p
<1> QED
  BY <1>1, <1>5 DEF V!Next

\* A body throws if its first part does.
LEMMA PartThrows ==
  ASSUME NEW s \in Seq(Op), NEW t \in Seq(Op), NEW a, NEW o, EncodingThrows(s, a, o)
  PROVE  EncodingThrows(s \o t, a, o)
<1>1. /\ Len(s \o t) = Len(s) + Len(t)
      /\ \A i \in 1..(Len(s) + Len(t)) :
           (s \o t)[i] = IF i <= Len(s) THEN s[i] ELSE t[i - Len(s)]
      /\ s \o t \in Seq(Op)
  BY ConcatProperties
<1>2. /\ DOMAIN s = 1..Len(s) /\ Len(s) \in Nat /\ Len(t) \in Nat
      /\ DOMAIN (s \o t) = 1..Len(s \o t)
  BY <1>1, LenProperties
<1>3. \A i \in DOMAIN s : i \in DOMAIN (s \o t) /\ (s \o t)[i] = s[i]
  BY <1>1, <1>2
<1> QED
  BY <1>3 DEF EncodingThrows

\* A refusal is justified by an operation that cannot be encoded.
LEMMA ThrowIsPossible ==
  ASSUME TypeInv, fn \in Fns, V!Compares(p),
         \/ p.sig = "argtype"
         \/ \E a : EncodingThrows(Body(p), a, opt)
         \/ EncodingThrows(p.src, ConcreteAbs(opt), opt)
  PROVE  UNSUPPORTED \in V!Possible(p, opt)
<1>1. p.src \in Seq(Op) /\ p.tgt \in Seq(Op) /\ Body(p) = p.src \o p.tgt
  BY CurrentProgram DEF TypeInv, Program, Body
<1>2. \A op, a : Throws(op, a, opt) => Throws(op, ConcreteAbs(opt), opt)
  BY DEF Throws, ConcreteAbs
<1>3. EncodingThrows(p.src, ConcreteAbs(opt), opt)
        => EncodingThrows(Body(p), ConcreteAbs(opt), opt)
  BY <1>1, PartThrows
<1>4. p.sig = "argtype" \/ EncodingThrows(Body(p), ConcreteAbs(opt), opt)
  BY <1>2, <1>3 DEF EncodingThrows
<1>5. V!MayThrow(p, opt)
  BY <1>4, SamePrograms DEF V!MayThrow
<1>6. UNSUPPORTED \notin {SUCCESS, RETVALUE, UB}
  BY DEF UNSUPPORTED, SUCCESS, RETVALUE, UB
<1>7. UNSUPPORTED \in V!Justified(p, opt)
  BY <1>5, <1>6, SameConstants DEF V!Justified
<1> QED
  BY <1>7 DEF V!Possible

\* A code that is returned is justified, by what was proved or refuted.
LEMMA CodeIsPossible ==
  ASSUME V!Compares(p), NEW c \in Code,
         Honest(opt) =>
           /\ c # INCONSISTENT
           /\ c = SUCCESS => \A n \in V!Checked(p) : ~V!Wrong(n)
           /\ c = UB => V!Refuted(p.ub, p, opt)
           /\ c = RETVALUE => \E n \in Obligations(p) \ {p.ub} : V!Refuted(n, p, opt)
  PROVE  c \in V!Possible(p, opt)
<1>1. CASE ~Honest(opt)
  BY <1>1, SameConstants DEF V!Possible
<1>2. CASE Honest(opt)
  <2>1. c \in {SUCCESS, TIMEOUT, RETVALUE, UB} /\ c # UNSUPPORTED
    BY <1>2 DEF Code, SUCCESS, TIMEOUT, RETVALUE, UB, INCONSISTENT, UNSUPPORTED
  <2> QED
    BY <1>2, <2>1, SameConstants, SamePrograms DEF V!Possible, V!Justified
<1> QED
  BY <1>1, <1>2

\* The process exits with the code of the verdicts.
LEMMA ExitExits ==
  ASSUME TypeInv, Summary, AtFunction, Exit
  PROVE  V!Next
<1>1. /\ phase # "exit" /\ fn \notin Fns /\ UNCHANGED <<opt, prog, verdict>>
      /\ exitCode' = IF hasUnsupported THEN UNSUPPORTED ELSE merged
  BY DEF Exit, inputs
<1>2. exitCode = V!PENDING
  BY <1>1, SameConstants DEF AtFunction
<1>3. fn \in 1..(NumFns + 1) /\ merged \in Code
  BY DEF TypeInv, TypeOK
<1>4. \A f \in Fns : verdict[f] # PENDING
  BY <1>1, <1>3, ProgramsOK DEF Summary, InOrder, Fns
<1>5. hasUnsupported <=> \E f \in V!Fns : verdict[f] = V!UNSUPPORTED
  BY SameConstants DEF Summary, MergedIsWorst
<1> DEFINE S == {V!SUCCESS} \cup {verdict[f] : f \in {g \in V!Fns : verdict[g] # V!SKIPPED}}
<1>6. ASSUME ~hasUnsupported PROVE merged = V!Worst(S)
  <2>1. \A f \in Fns : verdict[f] # SKIPPED => verdict[f] \in Code /\ verdict[f] <= merged
    BY <1>4, <1>6 DEF TypeInv, TypeOK, Summary, MergedIsWorst
  <2>2. Code \subseteq Nat /\ SKIPPED \notin Code /\ SUCCESS = 0 /\ SUCCESS \in Code
    BY DEF Code, SUCCESS, TIMEOUT, RETVALUE, UB, INCONSISTENT, SKIPPED
  <2>3. S \subseteq Nat /\ \A d \in S : d <= merged
    <3> SUFFICES ASSUME NEW d \in S PROVE d \in Nat /\ d <= merged
      OBVIOUS
    <3>1. d = SUCCESS \/ \E f \in Fns : verdict[f] # SKIPPED /\ d = verdict[f]
      BY SameConstants
    <3> HIDE DEF S
    <3>2. d = 0 \/ (d \in Code /\ d <= merged)
      BY <2>1, <2>2, <3>1
    <3>3. merged \in Nat /\ (d \in Code => d \in Nat)
      BY <1>3, <2>2
    <3> QED
      BY <3>2, <3>3
  <2>4. merged \in S
    BY <1>3, <2>2, SameConstants DEF Summary, MergedIsWorst
  <2>5. PICK w : w = V!Worst(S)
    OBVIOUS
  <2> HIDE DEF S
  <2>6. w \in S /\ \A d \in S : d <= w
    BY <2>3, <2>4, <2>5 DEF V!Worst
  <2>7. merged <= w /\ w <= merged /\ w \in Nat /\ merged \in Nat
    BY <2>3, <2>4, <2>6
  <2> QED
    BY <2>5, <2>7
<1>7. exitCode' = IF \E f \in V!Fns : verdict[f] = V!UNSUPPORTED THEN V!UNSUPPORTED
                  ELSE V!Worst(S)
  BY <1>1, <1>5, <1>6, SameConstants
<1>8. V!Exit
  BY <1>1, <1>2, <1>4, <1>7, SameConstants DEF V!Exit
<1> QED
  BY <1>8 DEF V!Next

\* Every step of the validator is a step of its promise, or does not show.
LEMMA StepPromised ==
  TypeInv /\ Summary /\ HonestInv /\ AtFunction /\ [Next]_vars => [V!Next]_(V!vars)
<1> SUFFICES ASSUME TypeInv, Summary, HonestInv, AtFunction, [Next]_vars
             PROVE  [V!Next]_(V!vars)
  OBVIOUS
<1>0. /\ InOrder
      /\ phase \notin {"functions", "exit"} =>
           fn \in Fns /\ Compared(opt, prog, fn) /\ V!Compares(p)
      /\ result \in Code
  BY DEF Summary, AtFunction, TypeInv, TypeOK, Control
<1>h. Honest(opt) => Passed /\ StopsAtUnproved /\ AlarmInv
  BY DEF HonestInv, SoundInv, AlarmInv
<1>u. UNCHANGED <<opt, prog, verdict, exitCode>> => UNCHANGED V!vars
  BY DEF V!vars
<1>s. phase \in {"judge", "alwaysub"} /\ Honest(opt) /\ result = SUCCESS
        => \A n \in V!Checked(p) : ~V!Wrong(n)
  BY <1>h DEF Passed, PassedUB, PassedRets, PassedMems, Judged, V!Checked
<1>1. CASE SkipFunction
  BY <1>0, <1>1, LeavingJudges DEF SkipFunction
<1>2. CASE RejectFunction
  <2>1. fn \in Fns /\ Compared(opt, prog, fn) /\ NextFunction(UNSUPPORTED)
    BY <1>2 DEF RejectFunction, Unsupported
  <2>2. ~V!Compares(p)
    BY <1>2 DEF RejectFunction, V!Compares
  <2>3. UNSUPPORTED \in V!Possible(p, opt)
    BY <2>2, SameConstants DEF V!Possible, V!Justified
  <2> QED
    BY <1>0, <2>1, <2>3, LeavingJudges
<1>3. CASE StartFunction \/ EncodeRound \/ RefineAbs \/ EncodeSrc
  BY <1>3, <1>u DEF StartFunction, EncodeRound, RefineAbs, EncodeSrc, inputs, summary
<1>4. CASE Exit
  BY <1>4, ExitExits
<1>5. CASE EncodeRoundThrows
  <2>1. phase = "round" /\ ~Encodes(Head(queue)) /\ NextFunction(UNSUPPORTED)
    BY <1>5 DEF EncodeRoundThrows, Unsupported
  <2>2. UNSUPPORTED \in V!Possible(p, opt)
    BY <1>0, <2>1, ThrowIsPossible DEF Encodes
  <2> QED
    BY <1>0, <2>1, <2>2, LeavingJudges
<1>6. CASE CheckUB \/ CheckRet \/ CheckMem
  BY <1>6, <1>u DEF CheckUB, CheckRet, CheckMem, Solve, inputs, summary
<1>7. CASE ReturnInconsistent
  <2>1. /\ phase = "judge" /\ result = INCONSISTENT /\ NextFunction(INCONSISTENT)
    BY <1>7 DEF ReturnInconsistent, Return
  <2>2. ~Honest(opt) /\ INCONSISTENT \in Code
    BY <1>0, <1>h, <2>1 DEF StopsAtUnproved
  <2>3. INCONSISTENT \in V!Possible(p, opt)
    BY <1>0, <2>1, <2>2, CodeIsPossible
  <2> QED
    BY <1>0, <2>1, <2>3, LeavingJudges
<1>8. CASE GiveUp
  <2>1. /\ phase = "judge" /\ result # SUCCESS /\ result # INCONSISTENT
        /\ ~HasNextAbs(abs, usedOps, opt) /\ NextFunction(result)
    BY <1>8 DEF GiveUp, Failed, Return
  <2>2. Honest(opt) /\ result = UB => V!Refuted(p.ub, p, opt)
    BY <1>h, <2>1, UnprovedRefuted DEF StopsAtUnproved
  <2>3. Honest(opt) /\ result = RETVALUE
          => \E n \in Obligations(p) \ {p.ub} : V!Refuted(n, p, opt)
    BY <1>h, <2>1, UnprovedRefuted DEF StopsAtUnproved
  <2>4. result \in V!Possible(p, opt)
    BY <1>0, <2>1, <2>2, <2>3, CodeIsPossible
  <2> QED
    BY <1>0, <2>1, <2>4, LeavingJudges
<1>9. CASE EncodeSrcThrows
  <2>1. /\ phase = "judge" /\ EncodingThrows(p.src, ConcreteAbs(opt), opt)
        /\ NextFunction(UNSUPPORTED)
    BY <1>9 DEF EncodeSrcThrows, Unsupported
  <2>2. UNSUPPORTED \in V!Possible(p, opt)
    BY <1>0, <2>1, ThrowIsPossible
  <2> QED
    BY <1>0, <2>1, <2>2, LeavingJudges
<1>10. CASE CheckAlwaysUB
  <2>1. phase = "alwaysub" /\ NextFunction(result)
    BY <1>10 DEF CheckAlwaysUB, Return
  <2>2. Honest(opt) => result \notin {UB, RETVALUE, INCONSISTENT}
    BY <1>h, <2>1
    DEF StopsAtUnproved, SUCCESS, TIMEOUT, RETVALUE, UB, INCONSISTENT
  <2>3. result \in V!Possible(p, opt)
    BY <1>0, <1>s, <2>1, <2>2, CodeIsPossible
  <2> QED
    BY <1>0, <2>1, <2>3, LeavingJudges
<1>11. CASE UNCHANGED vars
  BY <1>11, <1>u DEF vars, inputs, summary
<1> QED
  BY <1>1, <1>2, <1>3, <1>4, <1>5, <1>6, <1>7, <1>8, <1>9, <1>10, <1>11 DEF Next

\* It starts as promised.
LEMMA StartsAsPromised == Init => V!Init /\ AtFunction
BY DEF Init, InitialInputs, AtFunction, Compared, V!Init, V!InitialInputs,
       V!Realizable, Realizable, V!Obligations, Obligations, V!Relevant, Relevant,
       V!Body, Body, V!Fns, Fns, V!PENDING, PENDING, V!FpKinds, FpKinds

\* Every behaviour of the validator takes the steps of Verdict and no others
\* that show: verdicts are given once, in order, each justified by what its
\* function is, and the exit code summarises them (validate(src, tgt) and
\* everything below it; this is ImplementsVerdict without its liveness).
THEOREM StepsAsPromised == Spec => V!Init /\ [][V!Next]_(V!vars)
<1> DEFINE Inv == TypeInv /\ Summary /\ HonestInv /\ AtFunction
<1>1. Spec => []AtFunction
  <2>1. Init => AtFunction
    BY StartsAsPromised
  <2>2. TypeInv /\ AtFunction /\ [Next]_vars => AtFunction'
    BY NextAtFunction
  <2> QED
    BY <2>1, <2>2, ReportsHold, PTL DEF Spec
<1>2. Spec => []Inv
  <2>1. ReportInv => Summary
    BY DEF ReportInv
  <2> QED
    BY <1>1, <2>1, ReportsHold, HonestHolds, PTL
<1>3. Inv /\ [Next]_vars => [V!Next]_(V!vars)
  BY StepPromised
<1>4. Init => V!Init
  BY StartsAsPromised
<1> QED
  <2> HIDE DEF Inv
  <2> QED
    BY <1>2, <1>3, <1>4, PTL DEF Spec
=============================================================================
