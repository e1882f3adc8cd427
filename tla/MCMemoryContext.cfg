CONSTANTS
  Modulus = 4
  Value = {"one", "two", "junk"}
  Junk = "junk"
  NumGlobals = 2
  Memories <- AllMemories
  Args <- AllArgs
  Functions <- AllFunctions
  Context <- ContextCommands
  MaxSteps = 3
SPECIFICATION Spec
INVARIANTS
  SafeInContext
  RefinementIsKept
CHECK_DEADLOCK FALSE
