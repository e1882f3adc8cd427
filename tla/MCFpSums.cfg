CONSTANTS
  NumArgs = 2
  Sizes = {1, 4}
  MaxSums = 3
  MaxRecorded = 6
SPECIFICATION Spec
INVARIANTS
  FlatAdditionIsAdmitted
  ReassociatedSumsAreEqual
PROPERTIES
  UnionsEnd
CHECK_DEADLOCK FALSE
