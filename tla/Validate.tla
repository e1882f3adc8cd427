------------------------------ MODULE Validate ------------------------------
(***************************************************************************)
(* The validator proper (vcgen.cpp): validate(src, tgt) goes over the      *)
(* functions of the source module; for each of them                        *)
(* validate(ValidationInput) encodes source and target under ever more     *)
(* concrete abstractions and checkRefinement() asks the solver one query   *)
(* per proof obligation, until the answers prove refinement or no more     *)
(* concrete abstraction is left.                                           *)
(*                                                                         *)
(* One action per step of that control flow.  The process is sequential:   *)
(* what is not determined is the program it is given and the answers of    *)
(* the solvers.                                                            *)
(***************************************************************************)
EXTENDS Programs

CONSTANT ItrModulus   \* rounds are counted in an unsigned number: 2^32

\* A fourth round could be counted.
ASSUME ItrOK == ItrModulus \in Nat /\ ItrModulus > 4

VARIABLES
  opt,            \* the command line
  prog,           \* prog[f]: the f-th function
  fn,             \* function being validated; NumFns + 1 at the end
  phase,          \* where control is
  queue,          \* abstractions still to try
  abs,            \* the abstraction of this round
  rounds,         \* rounds started for this function (itrCount)
  result,         \* of tryValidation
  idx,            \* the returned value or element type being checked
  asserted,       \* negated obligations held by the live Solver object
  usedOps,        \* aop's record of the abstract operations it encoded
  fpEnc,          \* aop's floatEnc/doubleEnc: "none", "fresh", or "pinned" to
                  \* the constants of a counterexample
  merged,         \* verificationResult
  hasUnsupported,
  verdict,        \* verdict[f]: what the function ended with
  line,           \* line[f]: the last "== Result:" line printed for f
  contradicted,   \* functions at one of whose obligations backends contradicted
                  \* each other: a history of their answers, never read
  exitCode

inputs  == <<opt, prog>>
loop    == <<queue, abs, rounds>>
global  == <<usedOps, fpEnc>>
summary == <<merged, hasUnsupported, verdict, exitCode>>
vars    == <<inputs, fn, phase, loop, result, idx, asserted, global, summary, line, contradicted>>

Phase == {"functions", "round", "ub", "ret", "mem", "judge", "alwaysub", "exit"}
Line  == {"", "correct", "correct (source is always undefined)", "timeout",
          "mismatch", "inconsistent"}

p == prog[fn]

-----------------------------------------------------------------------------
(***************************************************************************)
(* Solver::check over the enabled backends, and CheckResult's predicates.  *)
(***************************************************************************)
Answer      == {"sat", "unsat", "unknown"}
CheckResult == [opt.solvers -> Answer]

HasSat(r)         == \E b \in opt.solvers : r[b] = "sat"
HasUnsat(r)       == \E b \in opt.solvers : r[b] = "unsat"
IsInconsistent(r) == HasSat(r) /\ HasUnsat(r)
IsUnknown(r)      == ~HasSat(r) /\ ~HasUnsat(r)

\* A timeout or an incomplete theory makes any backend answer unknown.
Answers(truth) ==
  {r \in CheckResult : \A b \in opt.solvers \ Faulty : r[b] \in {truth, "unknown"}}

\* The conjunction of negated obligations is unsatisfiable as soon as one of
\* the obligations holds.
Truth(needs, a) == IF \E n \in needs : Provable(n, a) THEN "unsat" ELSE "sat"

-----------------------------------------------------------------------------
Init ==
  /\ InitialInputs(opt, prog)
  /\ fn = 1
  /\ phase = "functions"
  /\ queue = <<>>
  /\ abs = InitialAbs(opt)
  /\ rounds = 0
  /\ result = TIMEOUT
  /\ idx = 0
  /\ asserted = {}
  /\ usedOps = {}
  /\ fpEnc = "none"
  /\ merged = SUCCESS
  /\ hasUnsupported = FALSE
  /\ verdict = [f \in Fns |-> PENDING]
  /\ line = [f \in Fns |-> ""]
  /\ contradicted = {}
  /\ exitCode = PENDING

\* Leaving a function, on every path: the Defers of validate(ValidationInput)
\* have dropped the encodings.
NextFunction(v) ==
  /\ verdict' = [verdict EXCEPT ![fn] = v]
  /\ fn' = fn + 1
  /\ phase' = "functions"
  /\ queue' = <<>>
  /\ rounds' = 0
  /\ idx' = 0
  /\ asserted' = {}
  /\ fpEnc' = "none"
  /\ UNCHANGED <<inputs, abs, result, exitCode, contradicted>>

\* An UnsupportedException caught by validate(src, tgt).
Unsupported ==
  /\ NextFunction(UNSUPPORTED)
  /\ hasUnsupported' = TRUE
  /\ UNCHANGED <<merged, line>>

\* Variants of the merge: the codes add up; the last code wins.
Return_Sum(code) ==
  /\ NextFunction(code)
  /\ merged' = merged + code
  /\ UNCHANGED hasUnsupported

Return_Last(code) ==
  /\ NextFunction(code)
  /\ merged' = code
  /\ UNCHANGED hasUnsupported

\* return from validate(ValidationInput); the codes merge to the worst.
Return(code) ==
  /\ NextFunction(code)
  /\ merged' = IF code > merged THEN code ELSE merged
  /\ UNCHANGED hasUnsupported

-----------------------------------------------------------------------------
(***************************************************************************)
(* validate(src, tgt): the loop over the functions.                        *)
(***************************************************************************)
SkipFunction ==
  /\ phase = "functions" /\ fn \in Fns
  /\ ~Compared(opt, prog, fn)
  /\ NextFunction(SKIPPED)
  /\ UNCHANGED <<usedOps, merged, hasUnsupported, line>>

\* analyze() or mergeGlobals() throws, or validate(ValidationInput) finds a
\* different number of arguments before it does anything.
RejectFunction ==
  /\ phase = "functions" /\ fn \in Fns
  /\ Compared(opt, prog, fn)
  /\ p.analysis = "unsupported" \/ p.sig = "argcount"
  /\ Unsupported
  /\ UNCHANGED usedOps

StartFunction ==
  /\ phase = "functions" /\ fn \in Fns
  /\ Compared(opt, prog, fn)
  /\ p.analysis = "ok" /\ p.sig # "argcount"
  /\ phase' = "round"
  /\ queue' = <<InitialAbs(opt)>>
  /\ result' = TIMEOUT
  /\ UNCHANGED <<inputs, fn, abs, rounds, idx, asserted, global, summary, line,
                 contradicted>>

\* exit(UNSUPPORTED_EXIT_CODE) if any function was unsupported, else main
\* returns the merged code.
Exit ==
  /\ phase = "functions" /\ fn \notin Fns
  /\ phase' = "exit"
  /\ exitCode' = IF hasUnsupported THEN UNSUPPORTED ELSE merged
  /\ UNCHANGED <<inputs, fn, loop, result, idx, asserted, global, merged,
                 hasUnsupported, verdict, line, contradicted>>

-----------------------------------------------------------------------------
(***************************************************************************)
(* validate(ValidationInput): one round of the abstraction loop.           *)
(***************************************************************************)

\* A variant that keeps encodings that are there already.
EncAfterSet_Kept == IF fpEnc # "none" THEN fpEnc ELSE IF p.fp THEN "fresh" ELSE "none"

\* setAbstraction() rebuilds the floating point encodings, or drops them if
\* the functions have no floating point.  usedOps is left as it is.
EncAfterSet == IF p.fp THEN "fresh" ELSE "none"

\* The next abstraction is popped and set, and encodeFinalStates() runs.
Encodes(a) == p.sig # "argtype" /\ ~EncodingThrows(Body(p), a, opt)

EncodeRound ==
  /\ phase = "round"
  /\ Encodes(Head(queue))
  /\ abs' = Head(queue)
  /\ queue' = Tail(queue)
  /\ rounds' = (rounds + 1) % ItrModulus
  /\ usedOps' = usedOps \cup EncodingFlags(Body(p), Head(queue), opt)
  /\ fpEnc' = EncAfterSet
  /\ phase' = "ub"
  /\ idx' = 0
  /\ asserted' = {}
  /\ UNCHANGED <<inputs, fn, result, summary, line, contradicted>>

EncodeRoundThrows ==
  /\ phase = "round"
  /\ ~Encodes(Head(queue))
  /\ usedOps' = IF p.sig = "argtype" THEN usedOps
                ELSE usedOps \cup EncodingFlags(Body(p), Head(queue), opt)
  /\ Unsupported

\* checkRefinement returns code c.
Conclude(c) ==
  /\ phase' = "judge"
  /\ result' = c
  /\ idx' = 0

\* A variant without the distinction of a timeout from a counterexample.
Conclusion_NoTimeout(r, bad, passed) ==
  \/ /\ HasUnsat(r)
     /\ passed
     /\ UNCHANGED <<line, fpEnc>>
  \/ /\ ~HasUnsat(r)
     /\ Conclude(bad)
     /\ line' = [line EXCEPT ![fn] = IF HasSat(r) THEN "mismatch" ELSE "timeout"]
     /\ UNCHANGED fpEnc

\* What checkRefinement does with the answer r to an obligation: give up with
\* the code of its step, or go on.  printErrorMsg evaluates the constants of
\* the encodings in the model of a counterexample (unless --succinct).
Conclusion(r, bad, passed) ==
  \/ /\ IsInconsistent(r)
     /\ Conclude(INCONSISTENT)
     /\ line' = [line EXCEPT ![fn] = "inconsistent"]
     /\ UNCHANGED fpEnc
  \/ /\ HasUnsat(r) /\ ~HasSat(r)
     /\ passed
     /\ UNCHANGED <<line, fpEnc>>
  \/ /\ HasSat(r) /\ ~HasUnsat(r)
     /\ Conclude(bad)
     /\ line' = [line EXCEPT ![fn] = "mismatch"]
     /\ fpEnc' = IF fpEnc # "none" /\ ~opt.succinct THEN "pinned" ELSE fpEnc
  \/ /\ IsUnknown(r)
     /\ Conclude(TIMEOUT)
     /\ line' = [line EXCEPT ![fn] = "timeout"]
     /\ UNCHANGED fpEnc

GoTo(ph, i) == phase' = ph /\ idx' = i /\ UNCHANGED result

MemOrDone == IF p.mems # <<>> THEN GoTo("mem", 1) ELSE Conclude(SUCCESS)

\* A variant that takes a single returned value for none.
RetOrMore_Single == IF Len(p.rets) > 1 THEN GoTo("ret", 1) ELSE MemOrDone

RetOrMore == IF p.rets # <<>> THEN GoTo("ret", 1) ELSE MemOrDone

\* solve() adds the negated obligation to the assertions of its Solver; it
\* does not reset the Solver first.
Solve(solver, need, bad, passed) ==
  /\ asserted' = solver \cup {need}
  /\ \E r \in Answers(Truth(solver \cup {need}, abs)) :
       /\ Conclusion(r, bad, passed)
       /\ contradicted' = IF IsInconsistent(r) THEN contradicted \cup {fn} ELSE contradicted
  /\ UNCHANGED <<inputs, fn, loop, usedOps, summary>>

\* 1. Undefined behaviour, with a Solver of its own.
CheckUB ==
  /\ phase = "ub"
  /\ Solve({}, p.ub, UB, RetOrMore)

\* 2. Returned values, a Solver for each of them.
CheckRet ==
  /\ phase = "ret"
  /\ Solve({}, p.rets[idx], RETVALUE,
           IF idx < Len(p.rets) THEN GoTo("ret", idx + 1) ELSE MemOrDone)

\* 3. Memory, element type by element type, with one Solver for all of them.
MemSolver == IF idx = 1 THEN {} ELSE asserted

CheckMem ==
  /\ phase = "mem"
  /\ Solve(MemSolver, p.mems[idx], RETVALUE,
           IF idx < Len(p.mems) THEN GoTo("mem", idx + 1) ELSE Conclude(SUCCESS))

-----------------------------------------------------------------------------
(***************************************************************************)
(* What the loop does with the result of a round.                          *)
(***************************************************************************)
ReturnInconsistent ==
  /\ phase = "judge" /\ result = INCONSISTENT
  /\ Return(INCONSISTENT)
  /\ UNCHANGED <<usedOps, line>>

Failed == result \notin {SUCCESS, INCONSISTENT}

RefineAbs ==
  /\ phase = "judge" /\ Failed
  /\ HasNextAbs(abs, usedOps, opt)
  /\ queue' = Append(queue, NextAbs(abs, usedOps, opt))
  /\ phase' = "round"
  /\ UNCHANGED <<inputs, fn, abs, rounds, result, idx, asserted, global, summary, line,
                 contradicted>>

\* The queue has run dry: the last result stands, and a timeout first gets a
\* look for an always undefined source, as a success does.
GiveUp ==
  /\ phase = "judge" /\ Failed
  /\ ~HasNextAbs(abs, usedOps, opt)
  /\ result # TIMEOUT
  /\ Return(result)
  /\ UNCHANGED <<usedOps, line>>

\* checkIsSrcAlwaysUB re-encodes the source under the concrete abstraction.
LookForAlwaysUB ==
  \/ result = SUCCESS
  \/ result = TIMEOUT /\ ~HasNextAbs(abs, usedOps, opt)

EncodeSrc ==
  /\ phase = "judge" /\ LookForAlwaysUB
  /\ ~EncodingThrows(p.src, ConcreteAbs(opt), opt)
  /\ usedOps' = usedOps \cup EncodingFlags(p.src, ConcreteAbs(opt), opt)
  /\ fpEnc' = EncAfterSet
  /\ phase' = "alwaysub"
  /\ asserted' = {}
  /\ UNCHANGED <<inputs, fn, loop, result, idx, summary, line, contradicted>>

EncodeSrcThrows ==
  /\ phase = "judge" /\ LookForAlwaysUB
  /\ EncodingThrows(p.src, ConcreteAbs(opt), opt)
  /\ usedOps' = usedOps \cup EncodingFlags(p.src, ConcreteAbs(opt), opt)
  /\ Unsupported

\* Only the printed line depends on the answer.
CheckAlwaysUB ==
  /\ phase = "alwaysub"
  /\ \E r \in Answers(IF p.alwaysUB THEN "unsat" ELSE "sat") :
       line' = [line EXCEPT ![fn] =
                  CASE IsInconsistent(r) -> "inconsistent"
                    [] HasUnsat(r) /\ ~HasSat(r) -> "correct (source is always undefined)"
                    [] ~HasUnsat(r) -> IF result = SUCCESS THEN "correct" ELSE @]
  /\ Return(result)
  /\ UNCHANGED usedOps

-----------------------------------------------------------------------------
Next ==
  \/ SkipFunction \/ RejectFunction \/ StartFunction \/ Exit
  \/ EncodeRound \/ EncodeRoundThrows
  \/ CheckUB \/ CheckRet \/ CheckMem
  \/ ReturnInconsistent \/ RefineAbs \/ GiveUp
  \/ EncodeSrc \/ EncodeSrcThrows \/ CheckAlwaysUB

\* Sequential code that never waits: every query ends within --smt-to.
Spec == Init /\ [][Next]_vars /\ WF_vars(Next)

-----------------------------------------------------------------------------
TypeOK ==
  /\ opt \in Option
  /\ prog \in [Fns -> Program]
  /\ fn \in 1..(NumFns + 1)
  /\ phase \in Phase
  /\ queue \in Seq(Abstraction)
  /\ abs \in Abstraction
  /\ rounds \in 0..(ItrModulus - 1)
  /\ result \in Code
  /\ idx \in Nat
  /\ asserted \subseteq Need
  /\ usedOps \subseteq Flag
  /\ fpEnc \in {"none", "fresh", "pinned"}
  /\ merged \in Code
  /\ hasUnsupported \in BOOLEAN
  /\ verdict \in [Fns -> Code \cup {PENDING, SKIPPED, UNSUPPORTED}]
  /\ line \in [Fns -> Line]
  /\ contradicted \subseteq Fns
  /\ exitCode \in Code \cup {PENDING, UNSUPPORTED}
=============================================================================
