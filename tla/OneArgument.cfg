SPECIFICATION Spec
CONSTANTS
  WordSize = 2
  StackSize = 24
  CodeLimit = 2000
  Programs <- MCOneArgument
  Inputs <- MCInputs
  Junk <- MCJunk
INVARIANT
  PrintsItsMeaning
CHECK_DEADLOCK FALSE
