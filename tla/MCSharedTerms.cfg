CONSTANTS
  NumFns = 2
  Programs <- AllPrograms
SPECIFICATION Spec
INVARIANTS
  TypeOK
  BlocksSuffice
  FloatsFitWithinFunction
CHECK_DEADLOCK FALSE
