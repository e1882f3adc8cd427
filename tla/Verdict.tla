------------------------------ MODULE Verdict -------------------------------
(***************************************************************************)
(* What the validator promises, without abstractions, rounds or solvers:   *)
(* the functions get their verdicts in order, each verdict is justified by *)
(* the function, and the exit code summarises the verdicts.                *)
(***************************************************************************)
EXTENDS Programs, FiniteSets

VARIABLES opt, prog, verdict, exitCode

vars == <<opt, prog, verdict, exitCode>>

Wrong(need) == "wrong" \in need

\* The obligations whose negation the solver is asked about on its own.  The
\* later element types are asked together with the earlier ones.
Checked(p) == {p.ub} \cup {p.rets[i] : i \in DOMAIN p.rets}
                     \cup {p.mems[i] : i \in DOMAIN p.mems \cap {1}}

\* A level that is concrete at the latest when the validator gives up: every
\* one that matters, but for the integer dot, which is refined only if an
\* integer sum was recorded too.
Settled(p, o) == Relevant(Body(p), o) \ {"intDot"}

\* A counterexample for obligation n survives the most concrete levels tried.
Refuted(n, p, o) == ~ n \subseteq Settled(p, o)

MayThrow(p, o) == p.sig = "argtype" \/ EncodingThrows(Body(p), ConcreteAbs(o), o)

Compares(p) == p.analysis = "ok" /\ p.sig # "argcount"

Justified(p, o) ==
  IF ~Compares(p) THEN {UNSUPPORTED}
  ELSE {v \in {SUCCESS, TIMEOUT, RETVALUE, UB, UNSUPPORTED} :
          /\ v = SUCCESS     => \A n \in Checked(p) : ~Wrong(n)
          /\ v = RETVALUE    => \E n \in Obligations(p) \ {p.ub} : Refuted(n, p, o)
          /\ v = UB          => Refuted(p.ub, p, o)
          /\ v = UNSUPPORTED => MayThrow(p, o)}

\* Solvers that lie justify any verdict but a refusal.
Possible(p, o) ==
  IF Honest(o) THEN Justified(p, o) ELSE Justified(p, o) \cup (IF Compares(p) THEN Code ELSE {})

Worst(S) == CHOOSE c \in S : \A d \in S : d <= c

Init ==
  /\ InitialInputs(opt, prog)
  /\ verdict = [f \in Fns |-> PENDING]
  /\ exitCode = PENDING

Judge(f) ==
  /\ verdict[f] = PENDING
  /\ \A g \in 1..(f - 1) : verdict[g] # PENDING
  /\ \E v \in IF Compared(opt, prog, f) THEN Possible(prog[f], opt) ELSE {SKIPPED} :
       verdict' = [verdict EXCEPT ![f] = v]
  /\ UNCHANGED <<opt, prog, exitCode>>

Exit ==
  /\ exitCode = PENDING
  /\ \A f \in Fns : verdict[f] # PENDING
  /\ exitCode' = IF \E f \in Fns : verdict[f] = UNSUPPORTED THEN UNSUPPORTED
                 ELSE Worst({SUCCESS} \cup {verdict[f] : f \in {g \in Fns : verdict[g] # SKIPPED}})
  /\ UNCHANGED <<opt, prog, verdict>>

Next == Exit \/ \E f \in Fns : Judge(f)

Spec == Init /\ [][Next]_vars /\ WF_vars(Next)
=============================================================================
