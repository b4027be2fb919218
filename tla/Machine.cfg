SPECIFICATION Spec
CONSTANTS
  WordSize = 2
  StackSize = 3
  Images <- MCImages
  Inputs <- MCInputs
  Junk <- MCJunk
INVARIANTS
  TypeOK
  StackGuard
CHECK_DEADLOCK FALSE
