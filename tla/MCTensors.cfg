CONSTANTS
  Modulus = 64
  MaxConstSize = 3
  Word = 64
  Programs <- AllPrograms
SPECIFICATION Spec
INVARIANTS
  RegistersFit
  RefinesIsElementwise
  EqualConstantsAgree
PROPERTIES
  ImplementsMeaning
CHECK_DEADLOCK FALSE
