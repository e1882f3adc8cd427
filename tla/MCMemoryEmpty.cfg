CONSTANTS
  Modulus = 4
  Value = {"one", "two", "junk"}
  Junk = "junk"
  NumGlobals = 2
  Memories <- AllMemories
  Args <- EmptyArgs
  Sizes = {2}
  MaxOps = 3
SPECIFICATION Spec
PROPERTIES
  OnlyReferencedChanges
CONSTRAINT StillDefined
CHECK_DEADLOCK FALSE
