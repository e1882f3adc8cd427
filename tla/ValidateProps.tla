---------------------------- MODULE ValidateProps ---------------------------
(***************************************************************************)
(* What the validator must and must not do.  Some of it depends on solvers *)
(* that do not lie.                                                        *)
(***************************************************************************)
EXTENDS Validate

V == INSTANCE Verdict

\* The validator implements its promise: verdicts in order, each justified by
\* the function, the exit code their summary, and the program always ends
\* (validate(src, tgt) and everything below it against Verdict).
ImplementsVerdict == V!Spec

CorrectLines == {"correct", "correct (source is always undefined)"}

\* A function reported correct refines in undefined behaviour, in every
\* returned value and in the first element type of the memory, whatever was
\* abstracted and however often the solver gave up (checkRefinement).
SoundReports ==
  \A f \in Fns : verdict[f] = SUCCESS => \A n \in V!Checked(prog[f]) : ~V!Wrong(n)

ProvedIsSound == Honest(opt) => SoundReports

\* The same for every element type: memory.h states the refinement of the
\* memory "for each element type".
MemoryProvedIsSound ==
  Honest(opt) => \A f \in Fns : verdict[f] = SUCCESS =>
    \A i \in DOMAIN prog[f].mems : ~V!Wrong(prog[f].mems[i])

\* A function is reported to be wrong only if it is, provided it has no
\* integer dot: a counterexample found under an abstraction never survives
\* the refinement of that abstraction (the abstraction loop).
NoFalseAlarm ==
  Honest(opt) => \A f \in Fns :
    /\ verdict[f] \in {UB, RETVALUE}
    /\ "intDot" \notin Relevant(Body(prog[f]), opt)
    => \E n \in Obligations(prog[f]) : V!Wrong(n)

\* Lock-step refinement keeps the number of rounds at three: the abstract one,
\* one with every dot and cast level that matters, one with unrolled sums,
\* even though usedOps carries flags over from earlier rounds and functions.
AtMostThreeRounds == rounds <= 3

\* No obligation is encoded with constants pinned to the counterexample of an
\* earlier obligation or round (evalConsts against setAbstraction).
NoPinnedEncoding ==
  phase \in {"ub", "ret", "mem", "alwaysub"} => fpEnc # "pinned"

\* The last line printed for a function and its code tell the same story,
\* except that a timeout may end as "correct (source is always undefined)" and
\* that solvers may contradict each other after the last obligation.  A
\* function at one of whose obligations they contradict each other is neither
\* proved nor refuted nor tried again: it ends as inconsistent, and no other
\* one does (CheckResult, printErrorMsg and checkIsSrcAlwaysUB against the
\* returned Results).
ReportMatchesVerdict ==
  \A f \in Fns : verdict[f] \in Code =>
    /\ verdict[f] = SUCCESS => line[f] \in CorrectLines \/ ~Honest(opt)
    /\ line[f] = "correct" => verdict[f] = SUCCESS
    /\ line[f] = "mismatch" <=> verdict[f] \in {UB, RETVALUE}
    /\ verdict[f] = INCONSISTENT <=> f \in contradicted

\* The exit code tells of the worst verdict, an unsupported function above
\* all, and zero means that every function looked at was proved.
ExitCodeIsWorst ==
  phase = "exit" =>
    LET given == {verdict[f] : f \in Fns} \ {SKIPPED}
    IN  IF UNSUPPORTED \in given THEN exitCode = UNSUPPORTED
        ELSE exitCode \in given \cup {SUCCESS} /\ \A v \in given : v <= exitCode

\* The abstractions of a function only get more concrete, and strictly so
\* from round to round, until the function is left (the refinement of abs).
OnlyMoreConcrete ==
  [][rounds' = rounds + 1 /\ rounds > 0
       => Refined(abs) \subseteq Refined(abs') /\ Refined(abs) # Refined(abs')]_vars

\* Every function gets its verdict and the process exits: rounds, obligations
\* and functions are bounded, and every query ends.
Terminates == <>(phase = "exit")
=============================================================================
