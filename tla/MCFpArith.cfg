CONSTANTS
  Bits = 3
  One = 3
SPECIFICATION Spec
INVARIANTS
  AdmitsIEEEApart
  SpecialsAreForced
  Commutes
  NansAndSigns
  CmpIsIEEE
CHECK_DEADLOCK FALSE
