CONSTANTS
  NumFns = 2
  Programs <- AllPrograms
SPECIFICATION Spec
INVARIANTS
  TermsFit
CHECK_DEADLOCK FALSE
