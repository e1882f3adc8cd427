CONSTANTS
  NumFns = 2
  Programs <- AllPrograms
  Options <- AllOptions
  Backends = {"z3", "cvc5"}
  Faulty = {"cvc5"}
  ItrModulus = 5
SPECIFICATION Spec
INVARIANTS
  TypeOK
  ProvedIsSound
  NoFalseAlarm
  AtMostThreeRounds
  NoPinnedEncoding
  ReportMatchesVerdict
  ExitCodeIsWorst
PROPERTIES
  ImplementsVerdict
  OnlyMoreConcrete
  Terminates
CHECK_DEADLOCK FALSE
