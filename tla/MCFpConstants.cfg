CONSTANTS
  Gap = 4
  One = 8
  FloatMax = 28
  DoubleMax = 33
  MaxConstants = 4
  NonConsts = {0, 3}
SPECIFICATION Spec
INVARIANTS
  ConstantsAreAdmitted
  ConstantsConvert
  CastsRoundTrip
CHECK_DEADLOCK FALSE
