SPECIFICATION FairSpec
CONSTANTS
  WordSize = 2
  StackSize = 24
  CodeLimit = 2000
  Programs <- MCPrograms
  Inputs <- MCInputs
  Junk <- MCJunk
INVARIANTS
  TypeOK
  NeverWild
  PrintsItsMeaning
  PcOnInstruction
  SavedFrames
  BalancedAtHalt
  OnlyDataChanges
  AbortsOnlyWhenDeep
PROPERTIES
  ReturnsToCaller
  ComesToAnEnd
CHECK_DEADLOCK FALSE
