SPECIFICATION Spec
CONSTANTS
  WordSize = 2
  StackSize = 24
  CodeLimit = 2000
  Programs <- MCFirstLocal
  Inputs <- MCInputs
  Junk <- MCJunk
INVARIANT
  SavedFrames
CHECK_DEADLOCK FALSE
