SPECIFICATION Spec
CONSTANTS
  WordSize = 2
  StackSize = 24
  CodeLimit = 2000
  Programs <- MCNoDim
  Inputs <- MCInputs
  Junk <- MCJunk
INVARIANT
  NeverWild
CHECK_DEADLOCK FALSE
