CONSTANTS
  Modulus = 4
  Value = {"one", "two", "junk"}
  Junk = "junk"
  NumGlobals = 2
  Memories <- AllMemories
  Args <- AllArgs
  Sizes = {2}
  MaxOps = 3
SPECIFICATION Spec
INVARIANTS
  TypeOK
  NoJunkRead
PROPERTIES
  OnlyWritableChanges
  OnlyReferencedChanges
  CopyIsMemcpy
  BlocksFade
CONSTRAINT StillDefined
CHECK_DEADLOCK FALSE
