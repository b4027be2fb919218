SPECIFICATION RunSpec
CONSTANTS
  WordSize = 2
  MAXTOKEN = 8
  SymbolSize = 2
  StringSize = 1
  FunctionSize = 3
  MainSize = 4
  MaxBlocks = 4
  StackSize = 40
  CodeLimit = 2000
  Lower <- SmallLetters
  Upper <- LargeLetters
  Ktab <- MCKtab
  Code <- MCCode
  HandlerName <- MCHandlerName
  OpcodeTable <- MCOpcodeTable
  Programs = {}
  Executed = {}
  Inputs <- MCInputs
  Junk <- MCJunk
  TokenTexts <- MCTokenTexts
INVARIANT
  CommentFlagInside
CHECK_DEADLOCK FALSE
