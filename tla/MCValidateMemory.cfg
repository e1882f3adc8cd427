CONSTANTS
  NumFns = 2
  Programs <- SomePrograms
  Options <- PlainOptions
  Backends = {"z3", "cvc5"}
  Faulty = {"cvc5"}
  ItrModulus = 5
SPECIFICATION Spec
INVARIANTS
  MemoryProvedIsSound
CHECK_DEADLOCK FALSE
