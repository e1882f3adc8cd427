CONSTANTS
  Bits = 3
  One = 3
SPECIFICATION Spec
INVARIANTS
  AdmitsIEEE
CHECK_DEADLOCK FALSE
